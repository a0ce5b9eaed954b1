------------------------- MODULE QuotaDaemon_proofs -------------------------
(***************************************************************************)
(* Proofs about QuotaDaemon, for any candidates, any number of account     *)
(* switches, with the cache and without: its type invariant, the inductive *)
(* invariant of the supervision of providers, and that of the cache.       *)
(***************************************************************************)
EXTENDS QuotaDaemon, TLAPS

LEMMA TaskKinds ==
    /\ Start \in Tasks
    /\ \A c \in Candidates : Feed(c) \in Tasks /\ Recovery(c) \in Tasks
BY DEF Tasks

LEMMA ContextTypes == None \in Contexts /\ Accounts \subseteq Contexts
BY DEF Contexts

(* Begin, Goes and Ends keep the types of the tasks.                       *)
LEMMA TaskTypes ==
    ASSUME TypeOK, NEW k \in Tasks
    PROVE  /\ \A does \in {"live", "unbound", "unstable", "unavailable"}, a \in Contexts :
                 Begin(k, does, a) => task' \in [Tasks -> TaskStates]
           /\ \A stage \in {"show", "stat", "write", "delete", "record"} :
                 Goes(k, stage) => task' \in [Tasks -> TaskStates]
           /\ Ends(k) => task' \in [Tasks -> TaskStates]
<1>. USE ContextTypes
<1>1. ASSUME NEW does \in {"live", "unbound", "unstable", "unavailable"},
             NEW a \in Contexts, Begin(k, does, a)
      PROVE  task' \in [Tasks -> TaskStates]
  BY <1>1 DEF Begin, TypeOK, TaskStates
<1>2. ASSUME NEW stage \in {"show", "stat", "write", "delete", "record"}, Goes(k, stage)
      PROVE  task' \in [Tasks -> TaskStates]
  <2>1. task[k] \in TaskStates
    BY DEF TypeOK
  <2>2. [task[k] EXCEPT !.at = stage] \in TaskStates
    BY <2>1 DEF TaskStates
  <2>. QED  BY <1>2, <2>2 DEF Goes, TypeOK
<1>3. ASSUME Ends(k)
      PROVE  task' \in [Tasks -> TaskStates]
  BY <1>3 DEF Ends, Resting, TypeOK, TaskStates
<1>. QED  BY <1>1, <1>2, <1>3

(* Enqueue keeps the types of the session's updates, and leaves no fewer   *)
(* of them awaited.                                                        *)
LEMMA EnqueueTypes ==
    ASSUME TypeOK, NEW by \in Tasks \cup {Main, Replay, Nobody},
           NEW status \in {"ready", "stopping", "error", "kept"},
           NEW quota \in QuotaStatuses \cup {"kept"},
           Enqueue(by, status, quota), UNCHANGED awaited
    PROVE  /\ queue' \in Seq(Patches)
           /\ awaited' \in 0..Len(queue')
           /\ UNCHANGED <<session, writing>>
<1>1. [by |-> by, status |-> status, quota |-> quota] \in Patches
  BY DEF Patches
<1>2. queue' \in Seq(Patches) /\ Len(queue') = Len(queue) + 1
  BY <1>1 DEF Enqueue, TypeOK
<1>. QED  BY <1>2 DEF Enqueue, TypeOK

LEMMA DequeueTypes ==
    ASSUME TypeOK, queue # <<>>, Dequeue
    PROVE  /\ queue' \in Seq(Patches)
           /\ awaited' \in 0..Len(queue')
<1>1. queue' \in Seq(Patches) /\ Len(queue') = Len(queue) - 1 /\ Len(queue) \in Nat \ {0}
  BY DEF Dequeue, TypeOK
<1>. QED  BY <1>1 DEF Dequeue, TypeOK

-----------------------------------------------------------------------------
(* The inductive invariant of the supervision, and of the shutdown.        *)

(* Who is in charge, and who is being started.                             *)
ChargeInv ==
    /\ OneProviderAtWork
    /\ \A c \in Candidates : candidate[c] = "starting" => start = [at |-> "starting", of |-> c]
    /\ start.at \in {"starting", "discarding", "failing"} => start.of \in Candidates
    /\ start.at = "starting" => coordinator \in {None, start.of}
    /\ start.at \in {"resolving", "discarding", "failing", "reporting"} => coordinator = None

(* Somebody awaits every candidate that stops, and only what has been      *)
(* stopped is recovered.                                                   *)
StoppingInv ==
    \A c \in Candidates :
        /\ candidate[c] = "stopping" =>
              \/ recovery[c] = "stopping"
              \/ start.at \in {"discarding", "failing"} /\ start.of = c
              \/ main = "awaitCoordinator" /\ coordinator = c
        /\ recovery[c] # "none" => candidate[c] \in {"stopping", "stopped"}

(* Every task under way belongs to somebody who awaits it.                 *)
TaskInv ==
    /\ \A c \in Candidates :
          /\ ~Rests(Feed(c)) => candidate[c] \in {"running", "stopping"}
          /\ ~Rests(Recovery(c)) => recovery[c] = "reporting"
    /\ ~Rests(Start) => start.at = "reporting"

(* How far the command has come.                                           *)
MainInv ==
    /\ main = "startBridge" =>
          /\ start.at = "none" /\ coordinator = None /\ ~retry
          /\ \A c \in Candidates : recovery[c] = "none"
    /\ main \in Shutdown \ {"awaitReplay"} => ReplayOver
    /\ main \in Shutdown \ {"awaitReplay", "awaitStart"} => start.at = "none"
    /\ main \in Shutdown \ {"awaitReplay", "awaitStart", "awaitCoordinator"} => coordinator = None

SupervisionInv == Supervised /\ ChargeInv /\ StoppingInv /\ TaskInv /\ MainInv

LEMMA TasksDiffer ==
    /\ \A c, d \in Candidates : Feed(c) = Feed(d) => c = d
    /\ \A c, d \in Candidates : Recovery(c) = Recovery(d) => c = d
    /\ \A c, d \in Candidates : Feed(c) # Recovery(d)
    /\ \A c \in Candidates : Feed(c) # Start /\ Recovery(c) # Start
BY DEF Feed, Recovery, Start

LEMMA NoneIsNoCandidate == None \notin Candidates
BY NoneAssumption

LEMMA InitSupervision == Init => SupervisionInv
BY NoneIsNoCandidate, TaskKinds
   DEF Init, SupervisionInv, Supervised, ChargeInv, StoppingInv, TaskInv, MainInv, Rests,
       Stopping, Shutdown, OneProviderAtWork, ReplayOver

(* Steps that leave the supervision, the tasks, the replay and the command *)
(* as they are.                                                            *)
LEMMA SupervisionUnchanged ==
    ASSUME SupervisionInv, UNCHANGED <<supervisionVars, task, replay, main>>
    PROVE  SupervisionInv'
BY DEF supervisionVars, Rests, SupervisionInv, Supervised, ChargeInv, StoppingInv, TaskInv,
       MainInv, OneProviderAtWork, Stopping, Shutdown, ReplayOver

(* A task only runs its course.                                            *)
LEMMA TaskGoesOn ==
    ASSUME SupervisionInv, TypeOK, NEW k \in Tasks, ~Rests(k),
           NEW state, task' = [task EXCEPT ![k] = state],
           UNCHANGED <<supervisionVars, replay, main>>
    PROVE  SupervisionInv'
<1>1. \A j \in Tasks : ~Rests(j)' => ~Rests(j)
  BY DEF Rests, TypeOK
<1>2. TaskInv'
  BY <1>1, TaskKinds DEF SupervisionInv, TaskInv, supervisionVars
<1>. QED  BY <1>2
             DEF supervisionVars, SupervisionInv, Supervised, ChargeInv, StoppingInv, TaskInv,
       MainInv, OneProviderAtWork, Stopping, Shutdown, ReplayOver

LEMMA TaskStepsSupervised ==
    ASSUME SupervisionInv, TypeOK, NEW k \in Tasks, TaskSteps(k)
    PROVE  SupervisionInv'
<1>1. task[k].at # "rest" /\ \E state : task' = [task EXCEPT ![k] = state]
  BY DEF TaskSteps, TaskShows, TaskShown, TaskStats, TaskWrites, TaskDeletes, TaskEnds, Goes,
         Ends, RecordsStatus, TypeOK
<1>2. ~Rests(k)
  BY <1>1 DEF Rests, Resting
<1>3. UNCHANGED <<supervisionVars, replay, main>>
  BY DEF TaskSteps, TaskShows, TaskShown, TaskStats, TaskWrites, TaskDeletes, TaskEnds,
         mainVars, replayVars
<1>. QED  BY <1>1, <1>2, <1>3, TaskGoesOn

LEMMA ReplayingSupervised ==
    ASSUME SupervisionInv, TypeOK, Replaying
    PROVE  SupervisionInv'
<1>1. UNCHANGED <<supervisionVars, task, main>>
  BY DEF Replaying, CacheLoads, ReplayBegins, ReplayChecks, ReplayDeletes, ReplayShown,
         ReplayEnds, mainVars
<1>2. ReplayOver => UNCHANGED replay
  BY DEF Replaying, CacheLoads, ReplayBegins, ReplayChecks, ReplayDeletes, ReplayShown,
         ReplayEnds, ReplayOver
<1>. QED  BY <1>1, <1>2
             DEF supervisionVars, Rests, SupervisionInv, Supervised, ChargeInv, StoppingInv,
                 TaskInv, MainInv, OneProviderAtWork, Stopping, Shutdown, ReplayOver

(* What scheduleProviderRetry makes of the retry.                          *)
LEMMA ScheduleRetryMeans ==
    ASSUME NEW armed \in BOOLEAN, NEW inCharge, NEW starting \in BOOLEAN,
           ScheduleRetry(armed, inCharge, starting)
    PROVE  retry' <=> armed \/ (~Stopping /\ inCharge = None /\ ~starting)
BY Zenon DEF ScheduleRetry

LEMMA StartEndsMeans ==
    ASSUME NEW armed \in BOOLEAN, NEW inCharge, StartEnds(armed, inCharge)
    PROVE  /\ start' = [at |-> "none", of |-> None]
           /\ retry' <=> armed \/ (~Stopping /\ inCharge = None)
<1>1. ScheduleRetry(armed, inCharge, FALSE)
  BY DEF StartEnds
<1>. QED  BY <1>1, ScheduleRetryMeans DEF StartEnds

(* startProvider and the retry timer.                                      *)
LEMMA StartingSupervised ==
    ASSUME SupervisionInv, TypeOK, Starting
    PROVE  SupervisionInv'
<1>. USE TaskKinds, TasksDiffer, NoneIsNoCandidate
     DEF supervisionVars, mainVars, replayVars, Rests, SupervisionInv, Supervised, ChargeInv,
         StoppingInv, TaskInv, MainInv, OneProviderAtWork, Stopping, Shutdown, ReplayOver, TypeOK
<1>1. CASE StartResolvesNothing
  BY <1>1, StartEndsMeans DEF StartResolvesNothing, Begin
<1>2. CASE StartReturns
  <2>. DEFINE c == start.of
  <2>1. /\ c \in Candidates /\ coordinator \in {None, c}
        /\ candidate[c] \in {"running", "stopping", "stopped"} /\ Rests(Feed(c))
        /\ UNCHANGED <<main, recovery, task, replay>>
    BY <1>2 DEF StartReturns
  <2>2. CASE ~Stopping
    <3>1. StartEnds(FALSE, coordinator) /\ UNCHANGED <<coordinator, candidate>>
      BY <1>2, <2>2 DEF StartReturns
    <3>2. start' = [at |-> "none", of |-> None] /\ (retry' <=> coordinator = None)
      BY <2>2, <3>1, StartEndsMeans
    <3>. QED  BY <1>2, <2>1, <2>2, <3>1, <3>2 DEF StartReturns
  <2>3. CASE Stopping /\ candidate[c] = "running"
    BY <1>2, <2>1, <2>3 DEF StartReturns
  <2>4. CASE Stopping /\ candidate[c] # "running"
    <3>1. StartEnds(retry, coordinator') /\ UNCHANGED candidate /\ coordinator' = None
      BY <1>2, <2>1, <2>4 DEF StartReturns
    <3>2. start' = [at |-> "none", of |-> None] /\ ~retry'
      BY <1>2, <2>4, <3>1, StartEndsMeans DEF StartReturns
    <3>. USE <1>2, <2>1, <2>4, <3>1, <3>2 DEF StartReturns
    <3>3. Supervised'
      OBVIOUS
    <3>4. ChargeInv'
      OBVIOUS
    <3>5. StoppingInv'
      OBVIOUS
    <3>6. TaskInv'
      OBVIOUS
    <3>7. MainInv'
      OBVIOUS
    <3>. QED  BY <3>3, <3>4, <3>5, <3>6, <3>7
  <2>. QED  BY <2>2, <2>3, <2>4
<1>3. CASE StartGivesUp
  BY <1>3, StartEndsMeans DEF StartGivesUp, Begin
<1>4. CASE StartReported
  BY <1>4, StartEndsMeans DEF StartReported
<1>5. CASE RetryElapses
  BY <1>5 DEF RetryElapses
<1>6. CASE \E c \in Candidates : StartResolves(c)
  BY <1>6 DEF StartResolves
<1>7. CASE \E c \in Candidates : ProviderStarts(c)
  BY <1>7 DEF ProviderStarts
<1>8. CASE \E c \in Candidates : ProviderStartFails(c)
  BY <1>8 DEF ProviderStartFails
<1>. QED  BY <1>1, <1>2, <1>3, <1>4, <1>5, <1>6, <1>7, <1>8 DEF Starting

(* The life of a candidate, and recoverProvider.                           *)
LEMMA LivingSupervised ==
    ASSUME SupervisionInv, TypeOK, NEW c \in Candidates, Living(c)
    PROVE  SupervisionInv'
<1>. USE TaskKinds, TasksDiffer, NoneIsNoCandidate
     DEF supervisionVars, mainVars, replayVars, Rests, SupervisionInv, Supervised, ChargeInv,
         StoppingInv, TaskInv, MainInv, OneProviderAtWork, Stopping, Shutdown, ReplayOver, TypeOK
<1>1. CASE ProviderDies(c)
  <2>. USE <1>1 DEF ProviderDies
  <2>1. Supervised'
    OBVIOUS
  <2>2. ChargeInv'
    OBVIOUS
  <2>3. StoppingInv'
    OBVIOUS
  <2>4. TaskInv'
    OBVIOUS
  <2>5. MainInv'
    OBVIOUS
  <2>. QED  BY <2>1, <2>2, <2>3, <2>4, <2>5
<1>2. CASE RecoveryReports(c)
  BY <1>2 DEF RecoveryReports, Begin
<1>3. CASE RecoveryEnds(c)
  <2>1. retry' <=> retry \/ (~Stopping /\ coordinator = None /\ ~(start.at # "none"))
    BY <1>3, Zenon DEF RecoveryEnds, ScheduleRetry
  <2>. USE <1>3, <2>1 DEF RecoveryEnds
  <2>2. Supervised'
    OBVIOUS
  <2>3. ChargeInv'
    OBVIOUS
  <2>4. StoppingInv'
    OBVIOUS
  <2>5. TaskInv'
    OBVIOUS
  <2>6. MainInv'
    OBVIOUS
  <2>. QED  BY <2>2, <2>3, <2>4, <2>5, <2>6
<1>4. CASE CandidateStops(c)
  BY <1>4 DEF CandidateStops
<1>5. CASE CandidateForgotten(c)
  BY <1>5 DEF CandidateForgotten
<1>6. CASE \E does \in {"live", "unbound", "unstable", "unavailable"} : Publishes(c, does)
  BY <1>6 DEF Publishes, Begin
<1>. QED  BY <1>1, <1>2, <1>3, <1>4, <1>5, <1>6 DEF Living

(* daemonCommand itself.                                                   *)
LEMMA CommandingSupervised ==
    ASSUME SupervisionInv, TypeOK, Commanding
    PROVE  SupervisionInv'
<1>. USE TaskKinds, TasksDiffer, NoneIsNoCandidate
     DEF supervisionVars, mainVars, replayVars, Rests, SupervisionInv, Supervised, ChargeInv,
         StoppingInv, TaskInv, MainInv, OneProviderAtWork, Stopping, Shutdown, ReplayOver, TypeOK
<1>1. CASE BridgeStarts
  BY <1>1 DEF BridgeStarts
<1>2. CASE StartupFails
  BY <1>2 DEF StartupFails, Fails
<1>3. CASE WatcherFailedEarly
  BY <1>3 DEF WatcherFailedEarly, Fails
<1>4. CASE Ready
  BY <1>4 DEF Ready
<1>5. CASE Stops
  BY <1>5 DEF Stops
<1>6. CASE ShutdownBegins
  BY <1>6 DEF ShutdownBegins
<1>7. CASE ReplayAwaited
  BY <1>7 DEF ReplayAwaited
<1>8. CASE StartAwaited
  BY <1>8 DEF StartAwaited, StartOver
<1>9. CASE CoordinatorAwaited
  BY <1>9 DEF CoordinatorAwaited
<1>10. CASE CleanedUp
  BY <1>10 DEF CleanedUp
<1>11. CASE WritesAwaited
  BY <1>11 DEF WritesAwaited
<1>12. CASE RemoveSession
  BY <1>12 DEF RemoveSession
<1>. QED  BY <1>1, <1>2, <1>3, <1>4, <1>5, <1>6, <1>7, <1>8, <1>9, <1>10, <1>11, <1>12
             DEF Commanding

-----------------------------------------------------------------------------
(* The types.                                                              *)

(* The update at work is that of the first patch.                          *)
WritingInv == writing # None => queue # <<>>

TypeInv == TypeOK /\ WritingInv

LEMMA InitTypes == Init => TypeInv
<1>. SUFFICES ASSUME Init PROVE TypeInv
  OBVIOUS
<1>1. Resting \in TaskStates
  BY ContextTypes DEF Resting, TaskStates
<1>2. task \in [Tasks -> TaskStates]
  BY <1>1 DEF Init
<1>3. account \in Accounts /\ accountAtReplay \in Accounts
  BY MaxAccountAssumption DEF Init, Accounts
<1>4. NoEnvelope \in Envelopes
  BY ContextTypes DEF NoEnvelope, Envelopes
<1>5. \A a \in 0..account : a \in Contexts
  BY <1>3, MaxAccountAssumption DEF Contexts, Accounts
<1>6. cache \in Envelopes /\ entry \in Envelopes
  BY <1>4, <1>5 DEF Init, Envelopes
<1>7. queue \in Seq(Patches) /\ awaited \in 0..Len(queue) /\ WritingInv
  BY DEF Init, WritingInv
<1>8. session \in Records /\ quotaStatus \in QuotaStatuses
  BY DEF Init, Records, QuotaStatuses
<1>. QED  BY <1>2, <1>3, <1>6, <1>7, <1>8, ContextTypes DEF Init, TypeInv, TypeOK

LEMMA EnqueueKeepsWriting ==
    ASSUME TypeInv, NEW by, NEW status, NEW quota, Enqueue(by, status, quota)
    PROVE  WritingInv'
BY DEF TypeInv, TypeOK, WritingInv, Enqueue

LEMMA ReportsType ==
    \A does : Reports(does) \in QuotaStatuses
BY DEF Reports, QuotaStatuses

LEMMA RecordsStatusTypes ==
    ASSUME TypeInv, NEW k \in Tasks, RecordsStatus(k), UNCHANGED awaited
    PROVE  /\ task' \in [Tasks -> TaskStates]
           /\ queue' \in Seq(Patches) /\ awaited' \in 0..Len(queue')
           /\ UNCHANGED <<session, writing>>
           /\ WritingInv'
<1>1. Goes(k, "record") /\ Enqueue(k, "kept", Reports(task[k].does))
  BY DEF RecordsStatus
<1>2. /\ Reports(task[k].does) \in QuotaStatuses \cup {"kept"}
      /\ k \in Tasks \cup {Main, Replay, Nobody}
  BY ReportsType
<1>3. task' \in [Tasks -> TaskStates]
  BY <1>1, TaskTypes DEF TypeInv
<1>4. /\ queue' \in Seq(Patches) /\ awaited' \in 0..Len(queue')
      /\ UNCHANGED <<session, writing>>
  BY <1>1, <1>2, EnqueueTypes DEF TypeInv
<1>. QED  BY <1>1, <1>3, <1>4, EnqueueKeepsWriting

LEMMA UnchangedTypes ==
    ASSUME TypeInv, UNCHANGED vars
    PROVE  TypeInv'
BY DEF TypeInv, TypeOK, WritingInv, vars, supervisionVars, mainVars, replayVars, shownVars,
       sessionVars

LEMMA TaskStepsTyped ==
    ASSUME TypeInv, NEW k \in Tasks, TaskSteps(k)
    PROVE  TypeInv'
<1>. USE DEF TypeInv, mainVars, supervisionVars, replayVars, shownVars, sessionVars
<1>1. CASE TaskShows(k)
  <2>1. task' \in [Tasks -> TaskStates]
    BY <1>1, TaskTypes DEF TaskShows
  <2>2. task[k].account \in Contexts /\ None \in Contexts
    BY ContextTypes DEF TypeOK, TaskStates
  <2>3. \/ UNCHANGED shownVars
        \/ shown' \in [what : {"nothing", "cached", "live", "unavailable"}, account : Contexts]
    BY <1>1, <2>2 DEF TaskShows
  <2>4. UNCHANGED shownVars \/ quotaStatus' \in QuotaStatuses
    BY <1>1, ReportsType DEF TaskShows
  <2>5. UNCHANGED shownVars \/ live' \in BOOLEAN
    BY <1>1 DEF TaskShows
  <2>6. UNCHANGED shownVars \/ crossed' \in BOOLEAN
    BY <1>1, Zenon DEF TaskShows, Contradicts
  <2>. QED  BY <1>1, <2>1, <2>3, <2>4, <2>5, <2>6 DEF TaskShows, TypeOK, WritingInv
<1>2. CASE TaskShown(k)
  <2>1. CASE RecordsStatus(k)
    BY <1>2, <2>1, RecordsStatusTypes DEF TaskShown, TypeOK
  <2>2. CASE UNCHANGED sessionVars /\ (Goes(k, "stat") \/ Goes(k, "delete"))
    <3>1. task' \in [Tasks -> TaskStates]
      BY <2>2, TaskTypes
    <3>. QED  BY <1>2, <2>2, <3>1 DEF TaskShown, TypeOK, WritingInv
  <2>. QED  BY <1>2, <2>1, <2>2 DEF TaskShown
<1>3. CASE TaskStats(k)
  <2>1. task' \in [Tasks -> TaskStates]
    <3>1. CASE Goes(k, "delete")
      BY <3>1, TaskTypes
    <3>2. CASE \E context \in Captured :
                  task' = [task EXCEPT ![k].at = "write", ![k].context = context]
      <4>1. PICK context \in Captured :
                  task' = [task EXCEPT ![k].at = "write", ![k].context = context]
        BY <3>2
      <4>2. context \in Contexts
        BY ContextTypes DEF Captured, TypeOK
      <4>3. task[k] \in TaskStates
        BY DEF TypeOK
      <4>4. [task[k] EXCEPT !.at = "write"] \in TaskStates
        BY <4>3 DEF TaskStates
      <4>5. [[task[k] EXCEPT !.at = "write"] EXCEPT !.context = context] \in TaskStates
        BY <4>2, <4>4 DEF TaskStates
      <4>. QED  BY <4>1, <4>5 DEF TypeOK
    <3>. QED  BY <1>3, <3>1, <3>2 DEF TaskStats
  <2>. QED  BY <1>3, <2>1 DEF TaskStats, TypeOK, WritingInv
<1>4. CASE TaskWrites(k)
  <2>1. cache' \in Envelopes
    BY <1>4 DEF TaskWrites, TypeOK, TaskStates, Envelopes
  <2>. QED  BY <1>4, <2>1, RecordsStatusTypes DEF TaskWrites, TypeOK
<1>5. CASE TaskDeletes(k)
  <2>1. cache' \in Envelopes
    BY <1>5, ContextTypes DEF TaskDeletes, TypeOK, Envelopes, NoEnvelope
  <2>2. CASE Ends(k) /\ UNCHANGED sessionVars
    <3>1. task' \in [Tasks -> TaskStates]
      BY <2>2, TaskTypes
    <3>. QED  BY <1>5, <2>1, <2>2, <3>1 DEF TaskDeletes, TypeOK, WritingInv
  <2>3. CASE RecordsStatus(k)
    BY <1>5, <2>1, <2>3, RecordsStatusTypes DEF TaskDeletes, TypeOK
  <2>. QED  BY <1>5, <2>2, <2>3 DEF TaskDeletes
<1>6. CASE TaskEnds(k)
  <2>1. task' \in [Tasks -> TaskStates]
    BY <1>6, TaskTypes DEF TaskEnds
  <2>. QED  BY <1>6, <2>1 DEF TaskEnds, TypeOK, WritingInv
<1>. QED  BY <1>1, <1>2, <1>3, <1>4, <1>5, <1>6 DEF TaskSteps

LEMMA StartEndsTypes ==
    ASSUME NEW armed \in BOOLEAN, NEW inCharge, StartEnds(armed, inCharge)
    PROVE  /\ start' \in [at : {"none", "resolving", "starting", "discarding", "failing",
                                "reporting"},
                          of : Candidates \cup {None}]
           /\ retry' \in BOOLEAN
<1>1. retry' \in BOOLEAN
  BY Zenon DEF StartEnds, ScheduleRetry
<1>. QED  BY <1>1 DEF StartEnds

LEMMA StartingTyped ==
    ASSUME TypeInv, Starting
    PROVE  TypeInv'
<1>. USE DEF TypeInv, mainVars, supervisionVars, replayVars, shownVars, sessionVars
<1>0. retry \in BOOLEAN
  BY DEF TypeOK
<1>1. CASE StartResolvesNothing
  <2>1. CASE Stopping
    BY <1>0, <1>1, <2>1, StartEndsTypes DEF StartResolvesNothing, TypeOK, WritingInv
  <2>2. CASE ~Stopping
    <3>1. task' \in [Tasks -> TaskStates]
      BY <1>1, <2>2, TaskTypes, TaskKinds, ContextTypes DEF StartResolvesNothing
    <3>. QED  BY <1>1, <2>2, <3>1 DEF StartResolvesNothing, TypeOK, WritingInv
  <2>. QED  BY <2>1, <2>2
<1>2. CASE StartReturns
  <2>1. \/ StartEnds(retry, coordinator') /\ UNCHANGED candidate
        \/ StartEnds(FALSE, coordinator) /\ UNCHANGED candidate
        \/ /\ start' = [start EXCEPT !.at = "discarding"] /\ UNCHANGED retry
           /\ candidate' = [candidate EXCEPT ![start.of] = "stopping"]
    BY <1>2 DEF StartReturns
  <2>2. /\ start' \in [at : {"none", "resolving", "starting", "discarding", "failing", "reporting"},
                       of : Candidates \cup {None}]
        /\ retry' \in BOOLEAN
    BY <1>0, <2>1, StartEndsTypes DEF TypeOK
  <2>3. candidate' \in [Candidates -> {"unborn", "starting", "running", "stopping", "stopped"}]
    BY <2>1 DEF TypeOK
  <2>4. coordinator' \in Candidates \cup {None}
    BY <1>2 DEF StartReturns, TypeOK
  <2>. QED  BY <1>2, <2>2, <2>3, <2>4 DEF StartReturns, TypeOK, WritingInv
<1>3. CASE StartGivesUp
  <2>1. CASE StartEnds(retry, coordinator) /\ UNCHANGED task
    BY <1>0, <1>3, <2>1, StartEndsTypes DEF StartGivesUp, TypeOK, WritingInv
  <2>2. CASE Begin(Start, "unavailable", None) /\ start' = [start EXCEPT !.at = "reporting"]
             /\ UNCHANGED retry
    <3>1. task' \in [Tasks -> TaskStates]
      BY <2>2, TaskTypes, TaskKinds, ContextTypes
    <3>. QED  BY <1>3, <2>2, <3>1 DEF StartGivesUp, TypeOK, WritingInv
  <2>. QED  BY <1>3, <2>1, <2>2 DEF StartGivesUp
<1>4. CASE StartReported
  BY <1>0, <1>4, StartEndsTypes DEF StartReported, TypeOK, WritingInv
<1>5. CASE RetryElapses
  <2>1. start' \in [at : {"none", "resolving", "starting", "discarding", "failing", "reporting"},
                     of : Candidates \cup {None}]
    BY <1>5 DEF RetryElapses, TypeOK
  <2>2. retry' \in BOOLEAN
    BY <1>5 DEF RetryElapses
  <2>3. UNCHANGED <<mainVars, coordinator, candidate, recovery, task, replayVars, shownVars,
                    cache,
                    sessionVars, account>>
    BY <1>5 DEF RetryElapses
  <2>. QED  BY <2>1, <2>2, <2>3 DEF TypeOK, WritingInv
<1>6. ASSUME NEW c \in Candidates, StartResolves(c)
      PROVE  TypeInv'
  BY <1>6 DEF StartResolves, TypeOK, WritingInv
<1>7. ASSUME NEW c \in Candidates, ProviderStarts(c)
      PROVE  TypeInv'
  BY <1>7 DEF ProviderStarts, TypeOK, WritingInv
<1>8. ASSUME NEW c \in Candidates, ProviderStartFails(c)
      PROVE  TypeInv'
  <2>1. start' \in [at : {"none", "resolving", "starting", "discarding", "failing", "reporting"},
                     of : Candidates \cup {None}]
    BY <1>8 DEF ProviderStartFails, TypeOK
  <2>2. candidate' \in [Candidates -> {"unborn", "starting", "running", "stopping", "stopped"}]
    BY <1>8 DEF ProviderStartFails, TypeOK
  <2>3. coordinator' \in Candidates \cup {None}
    BY <1>8 DEF ProviderStartFails, TypeOK
  <2>. QED  BY <1>8, <2>1, <2>2, <2>3 DEF ProviderStartFails, TypeOK, WritingInv
<1>. QED  BY <1>1, <1>2, <1>3, <1>4, <1>5, <1>6, <1>7, <1>8 DEF Starting

LEMMA LivingTyped ==
    ASSUME TypeInv, NEW c \in Candidates, Living(c)
    PROVE  TypeInv'
<1>. USE DEF TypeInv, mainVars, supervisionVars, replayVars, shownVars, sessionVars
<1>1. CASE ProviderDies(c)
  BY <1>1 DEF ProviderDies, TypeOK, WritingInv
<1>2. CASE RecoveryReports(c)
  <2>1. task' \in [Tasks -> TaskStates]
    BY <1>2, TaskTypes, TaskKinds, ContextTypes DEF RecoveryReports
  <2>. QED  BY <1>2, <2>1 DEF RecoveryReports, TypeOK, WritingInv
<1>3. CASE RecoveryEnds(c)
  <2>1. retry' \in BOOLEAN
    BY <1>3, Zenon DEF RecoveryEnds, ScheduleRetry
  <2>. QED  BY <1>3, <2>1 DEF RecoveryEnds, TypeOK, WritingInv
<1>4. CASE CandidateStops(c)
  BY <1>4 DEF CandidateStops, TypeOK, WritingInv
<1>5. CASE CandidateForgotten(c)
  BY <1>5 DEF CandidateForgotten, TypeOK, WritingInv
<1>6. ASSUME NEW does \in {"live", "unbound", "unstable", "unavailable"}, Publishes(c, does)
      PROVE  TypeInv'
  <2>1. account \in Contexts /\ None \in Contexts
    BY ContextTypes DEF TypeOK
  <2>2. task' \in [Tasks -> TaskStates]
    BY <1>6, <2>1, TaskTypes, TaskKinds DEF Publishes
  <2>. QED  BY <1>6, <2>2 DEF Publishes, TypeOK, WritingInv
<1>. QED  BY <1>1, <1>2, <1>3, <1>4, <1>5, <1>6 DEF Living

LEMMA ReplayingTyped ==
    ASSUME TypeInv, Replaying
    PROVE  TypeInv'
<1>. USE DEF TypeInv, mainVars, supervisionVars, replayVars, shownVars, sessionVars
<1>0. NoEnvelope \in Envelopes /\ entry.account \in Contexts
  BY ContextTypes DEF NoEnvelope, Envelopes, TypeOK
<1>1. CASE CacheLoads
  <2>1. cache' \in Envelopes /\ entry' \in Envelopes /\ loading' \in BOOLEAN
    BY <1>0, <1>1 DEF CacheLoads, TypeOK
  <2>. QED  BY <1>1, <2>1 DEF CacheLoads, TypeOK, WritingInv
<1>2. CASE ReplayBegins
  BY <1>2 DEF ReplayBegins, TypeOK, WritingInv
<1>3. CASE ReplayChecks
  <2>1. \/ UNCHANGED shownVars
        \/ /\ quotaStatus' = "cached" /\ UNCHANGED live
           /\ shown' = [what |-> "cached", account |-> entry.account]
    BY <1>3 DEF ReplayChecks
  <2>2. /\ quotaStatus' \in QuotaStatuses /\ live' \in BOOLEAN
        /\ shown' \in [what : {"nothing", "cached", "live", "unavailable"}, account : Contexts]
    BY <1>0, <2>1 DEF QuotaStatuses, TypeOK
  <2>3. replay' \in {"delete", "done", "show"}
    BY <1>3 DEF ReplayChecks
  <2>. QED  BY <1>3, <2>2, <2>3 DEF ReplayChecks, TypeOK, WritingInv
<1>4. CASE ReplayDeletes
  BY <1>0, <1>4 DEF ReplayDeletes, TypeOK, WritingInv
<1>5. CASE ReplayShown
  <2>1. Enqueue(Replay, "kept", "cached") /\ UNCHANGED awaited
    BY <1>5 DEF ReplayShown
  <2>2. /\ queue' \in Seq(Patches) /\ awaited' \in 0..Len(queue') /\ WritingInv'
        /\ UNCHANGED <<session, writing>>
    BY <2>1, EnqueueTypes, EnqueueKeepsWriting DEF QuotaStatuses
  <2>. QED  BY <1>5, <2>2 DEF ReplayShown, TypeOK
<1>6. CASE ReplayEnds
  BY <1>6 DEF ReplayEnds, TypeOK, WritingInv
<1>. QED  BY <1>1, <1>2, <1>3, <1>4, <1>5, <1>6 DEF Replaying

LEMMA UpdatingTyped ==
    ASSUME TypeInv, Updating
    PROVE  TypeInv'
<1>. USE DEF TypeInv, mainVars, supervisionVars, replayVars, shownVars, sessionVars
<1>1. CASE UpdateReads
  <2>1. CASE session.exists
    BY <1>1, <2>1 DEF UpdateReads, TypeOK, WritingInv
  <2>2. CASE ~session.exists
    <3>1. queue' \in Seq(Patches) /\ awaited' \in 0..Len(queue') /\ writing' = None
      BY <1>1, <2>2, DequeueTypes DEF UpdateReads
    <3>. QED  BY <1>1, <2>2, <3>1 DEF UpdateReads, TypeOK, WritingInv
  <2>. QED  BY <2>1, <2>2
<1>2. CASE UpdateWrites
  <2>1. /\ queue' \in Seq(Patches) /\ awaited' \in 0..Len(queue') /\ writing' = None
        /\ writing \in Records /\ Head(queue) \in Patches
    BY <1>2, DequeueTypes DEF UpdateWrites, WritingInv, TypeOK
  <2>2. session' \in Records
    BY <1>2, <2>1 DEF UpdateWrites, Patched, Records, Patches
  <2>. QED  BY <1>2, <2>1, <2>2 DEF UpdateWrites, TypeOK, WritingInv
<1>. QED  BY <1>1, <1>2 DEF Updating

LEMMA BeatTyped ==
    ASSUME TypeInv, Beat
    PROVE  TypeInv'
<1>1. Enqueue(Nobody, "kept", "kept") /\ UNCHANGED awaited
  BY DEF Beat, mainVars
<1>2. /\ queue' \in Seq(Patches) /\ awaited' \in 0..Len(queue') /\ WritingInv'
      /\ UNCHANGED <<session, writing>>
  BY <1>1, EnqueueTypes, EnqueueKeepsWriting DEF TypeInv
<1>. QED  BY <1>2 DEF Beat, TypeInv, TypeOK, mainVars, supervisionVars, replayVars, shownVars

LEMMA CommandingTyped ==
    ASSUME TypeInv, Commanding
    PROVE  TypeInv'
<1>. USE DEF TypeInv, mainVars, supervisionVars, replayVars, shownVars, sessionVars, Shutdown
<1>. DEFINE Queued == /\ queue' \in Seq(Patches) /\ awaited' \in 0..Len(queue') /\ WritingInv'
                      /\ UNCHANGED <<session, writing>>
<1>0. ASSUME NEW status \in {"ready", "stopping", "error", "kept"},
             NEW quota \in QuotaStatuses \cup {"kept"},
             Enqueue(Main, status, quota), UNCHANGED awaited
      PROVE  Queued
  BY <1>0, EnqueueTypes, EnqueueKeepsWriting
<1>f. ASSUME NEW normal \in BOOLEAN, Fails(normal)
      PROVE  Queued
  <2>1. CASE normal
    BY <1>f, <2>1 DEF Fails, TypeOK, WritingInv
  <2>2. CASE ~normal
    BY <1>f, <2>2, <1>0 DEF Fails
  <2>. QED  BY <2>1, <2>2
<1>1. CASE BridgeStarts
  <2>1. Queued
    BY <1>1, <1>0 DEF BridgeStarts, TypeOK
  <2>. QED  BY <1>1, <2>1 DEF BridgeStarts, TypeOK
<1>2. CASE StartupFails
  <2>1. PICK normal \in BOOLEAN : Fails(normal) /\ UNCHANGED <<start, replay, accountAtReplay>>
    BY <1>2 DEF StartupFails
  <2>2. Queued
    BY <2>1, <1>f
  <2>3. main' \in {"awaitReplay", "recordStop"} /\ normalStop' \in BOOLEAN
    BY <2>1 DEF Fails
  <2>4. retry' \in BOOLEAN
    BY <2>1 DEF Fails, TypeOK
  <2>5. UNCHANGED <<stop, coordinator, candidate, recovery, task, loading, entry, shownVars,
                    cache,
                    account, start, replay, accountAtReplay>>
    BY <2>1 DEF Fails
  <2>. QED  BY <2>2, <2>3, <2>4, <2>5 DEF TypeOK
<1>3. CASE WatcherFailedEarly
  <2>1. Queued
    BY <1>3, <1>f DEF WatcherFailedEarly
  <2>. QED  BY <1>3, <2>1 DEF WatcherFailedEarly, Fails, TypeOK
<1>4. CASE Ready
  BY <1>4 DEF Ready, TypeOK, WritingInv
<1>5. CASE Stops
  <2>1. Queued
    BY <1>5, <1>0 DEF Stops
  <2>. QED  BY <1>5, <2>1 DEF Stops, TypeOK
<1>6. CASE ShutdownBegins
  <2>1. retry' \in BOOLEAN /\ main' = "awaitReplay"
    BY <1>6 DEF ShutdownBegins
  <2>2. UNCHANGED <<stop, normalStop, awaited, start, coordinator, candidate, recovery, task,
                    replayVars, shownVars, cache, sessionVars, account>>
    BY <1>6 DEF ShutdownBegins
  <2>. QED  BY <2>1, <2>2 DEF TypeOK, WritingInv
<1>7. CASE ReplayAwaited
  BY <1>7 DEF ReplayAwaited, TypeOK, WritingInv
<1>8. CASE StartAwaited
  <2>1. candidate' \in [Candidates -> {"unborn", "starting", "running", "stopping", "stopped"}]
    BY <1>8 DEF StartAwaited, TypeOK
  <2>. QED  BY <1>8, <2>1 DEF StartAwaited, TypeOK, WritingInv
<1>9. CASE CoordinatorAwaited
  BY <1>9 DEF CoordinatorAwaited, TypeOK, WritingInv
<1>10. CASE CleanedUp
  BY <1>10 DEF CleanedUp, TypeOK, WritingInv
<1>11. CASE WritesAwaited
  BY <1>11 DEF WritesAwaited, TypeOK, WritingInv
<1>12. CASE RemoveSession
  <2>1. session' \in Records
    BY <1>12 DEF RemoveSession, TypeOK, Records
  <2>. QED  BY <1>12, <2>1 DEF RemoveSession, TypeOK, WritingInv
<1>. QED  BY <1>1, <1>2, <1>3, <1>4, <1>5, <1>6, <1>7, <1>8, <1>9, <1>10, <1>11, <1>12
             DEF Commanding

LEMMA NextTypes ==
    ASSUME TypeInv, [Next]_vars
    PROVE  TypeInv'
<1>1. CASE Signals
  BY <1>1 DEF Signals, StopSignalled, TypeInv, TypeOK, WritingInv, mainVars, supervisionVars,
              replayVars, shownVars, sessionVars
<1>2. CASE AccountChanges
  BY <1>2, MaxAccountAssumption
     DEF AccountChanges, TypeInv, TypeOK, WritingInv, Accounts, Contexts, mainVars,
         supervisionVars, replayVars, shownVars, sessionVars
<1>. QED  BY <1>1, <1>2, TaskStepsTyped, LivingTyped, StartingTyped, ReplayingTyped,
            CommandingTyped, UpdatingTyped, BeatTyped, UnchangedTypes DEF Next

LEMMA NextSupervised ==
    ASSUME TypeInv, SupervisionInv, [Next]_vars
    PROVE  SupervisionInv'
<1>1. CASE Updating \/ Beat \/ AccountChanges \/ UNCHANGED vars
  <2>1. UNCHANGED <<supervisionVars, task, replay, main>>
    BY <1>1 DEF Updating, UpdateReads, UpdateWrites, Beat, AccountChanges, vars, mainVars,
                replayVars
  <2>. QED  BY <2>1, SupervisionUnchanged
<1>2. CASE Signals
  <2>1. UNCHANGED <<supervisionVars, task, replay, main>>
    BY <1>2 DEF Signals, StopSignalled, replayVars
  <2>. QED  BY <2>1, SupervisionUnchanged
<1>. QED  BY <1>1, <1>2, TaskStepsSupervised, LivingSupervised, StartingSupervised,
            ReplayingSupervised, CommandingSupervised DEF Next, TypeInv

-----------------------------------------------------------------------------

(* Every variable of the daemon keeps its type.                            *)
THEOREM TypeCorrect == Spec => []TypeOK
<1>1. TypeInv /\ [Next]_vars => TypeInv'
  BY NextTypes
<1>2. TypeInv => TypeOK
  BY DEF TypeInv
<1>. QED  BY InitTypes, <1>1, <1>2, PTL DEF Spec

(* The supervision's inductive invariant: who is in charge, who is being   *)
(* started, who stops and who awaits it, and which tasks are under way.    *)
THEOREM Supervision == Spec => [](TypeInv /\ SupervisionInv)
<1>1. Init => TypeInv /\ SupervisionInv
  BY InitTypes, InitSupervision
<1>2. TypeInv /\ SupervisionInv /\ [Next]_vars => (TypeInv /\ SupervisionInv)'
  BY NextTypes, NextSupervised
<1>. QED  BY <1>1, <1>2, PTL DEF Spec

(* While the daemon serves a provider is in charge, or ensureProvider, the *)
(* retry timer or recoverProvider sees to one; and the timer is never      *)
(* armed beside a provider in charge, a start under way or a shutdown.     *)
THEOREM SupervisedHolds == Spec => []Supervised
<1>1. SupervisionInv => Supervised
  BY DEF SupervisionInv
<1>. QED  BY Supervision, <1>1, PTL

(* startProvider and recoverProvider never leave a provider running that   *)
(* is not the one in charge.                                               *)
THEOREM OneProviderAtWorkHolds == Spec => []OneProviderAtWork
<1>1. SupervisionInv => OneProviderAtWork
  BY DEF SupervisionInv, ChargeInv
<1>. QED  BY Supervision, <1>1, PTL

(* When daemonCommand ends, nothing that its shutdown is to await is left. *)
THEOREM ShutdownCompleteHolds == Spec => []ShutdownComplete
<1>1. ASSUME TypeInv, SupervisionInv, main = "ended"
      PROVE  /\ start.at = "none" /\ ~retry /\ coordinator = None
             /\ ReplayOver
             /\ \A c \in Candidates :
                   recovery[c] = "none" =>
                       /\ candidate[c] \in {"unborn", "stopped"}
                       /\ Rests(Feed(c)) /\ Rests(Recovery(c))
             /\ Rests(Start)
  <2>1. start.at = "none" /\ ~retry /\ coordinator = None /\ ReplayOver
    BY <1>1 DEF SupervisionInv, MainInv, Shutdown, Supervised, Stopping
  <2>2. Rests(Start)
    BY <2>1, <1>1 DEF SupervisionInv, TaskInv
  <2>3. ASSUME NEW c \in Candidates, recovery[c] = "none"
        PROVE  candidate[c] \in {"unborn", "stopped"} /\ Rests(Feed(c)) /\ Rests(Recovery(c))
    <3>1. candidate[c] \notin {"starting", "running"}
      BY <1>1, <2>1, NoneIsNoCandidate DEF SupervisionInv, ChargeInv, OneProviderAtWork
    <3>2. candidate[c] # "stopping"
      BY <1>1, <2>1, <2>3 DEF SupervisionInv, StoppingInv
    <3>3. candidate[c] \in {"unborn", "stopped"}
      BY <1>1, <3>1, <3>2 DEF TypeInv, TypeOK
    <3>. QED  BY <1>1, <2>3, <3>3 DEF SupervisionInv, TaskInv
  <2>. QED  BY <2>1, <2>2, <2>3
<1>2. TypeInv /\ SupervisionInv => ShutdownComplete
  BY <1>1 DEF ShutdownComplete
<1>. QED  BY Supervision, <1>2, PTL

-----------------------------------------------------------------------------
(* The restart cache: whose figures it holds, and when they are shown.     *)

CacheInv ==
    /\ CacheOfItsAccount
    /\ entry.context = entry.account
    /\ \A k \in Tasks : task[k].at = "write" => task[k].context = task[k].account
    /\ accountAtReplay <= account
    /\ main = "startBridge" => replay = "unset" /\ shown.what = "nothing"
    /\ replay \in {"load", "check"} => shown.what = "nothing"
    /\ replay = "check" => entry # NoEnvelope /\ ~loading
    /\ CachedForCurrentAccount

LEMMA InitCache == Init => CacheInv
<1>. SUFFICES ASSUME Init PROVE CacheInv
  OBVIOUS
<1>1. cache.context = cache.account /\ entry.context = entry.account
  BY DEF Init, NoEnvelope
<1>2. accountAtReplay <= account
  BY MaxAccountAssumption DEF Init, Accounts
<1>. QED  BY <1>1, <1>2 DEF Init, CacheInv, CacheOfItsAccount, CachedForCurrentAccount, Resting

(* Before the bridge has started nobody publishes.                         *)
LEMMA NothingPublishedEarly ==
    ASSUME SupervisionInv, TypeOK, main = "startBridge"
    PROVE  \A k \in Tasks : Rests(k)
<1>1. start.at = "none" /\ coordinator = None /\ \A c \in Candidates : recovery[c] = "none"
  BY DEF SupervisionInv, MainInv
<1>2. ASSUME NEW c \in Candidates
      PROVE  candidate[c] \notin {"running", "stopping"}
  <2>1. candidate[c] # "running"
    BY <1>1, NoneIsNoCandidate DEF SupervisionInv, ChargeInv, OneProviderAtWork
  <2>2. candidate[c] # "stopping"
    BY <1>1 DEF SupervisionInv, StoppingInv
  <2>. QED  BY <2>1, <2>2
<1>. QED  BY <1>1, <1>2 DEF SupervisionInv, TaskInv, Tasks

(* Steps that touch neither the cache nor the bridge.                      *)
LEMMA CacheUnchanged ==
    ASSUME CacheInv, UNCHANGED <<cache, replayVars, account, shown>>,
           main' = main \/ main' # "startBridge",
           \A k \in Tasks : task'[k].at = "write" => task'[k] = task[k]
    PROVE  CacheInv'
BY DEF CacheInv, CacheOfItsAccount, CachedForCurrentAccount, replayVars

(* What Begin and Goes make of the tasks, to CacheUnchanged.               *)
LEMMA BeginDoesNotWrite ==
    ASSUME TypeOK, NEW k \in Tasks, NEW does, NEW a, Begin(k, does, a)
    PROVE  \A j \in Tasks : task'[j].at = "write" => task'[j] = task[j]
BY DEF Begin, TypeOK

LEMMA GoesDoesNotWrite ==
    ASSUME TypeOK, NEW k \in Tasks,
           Ends(k) \/ \E stage \in {"show", "stat", "delete", "record"} : Goes(k, stage)
    PROVE  \A j \in Tasks : task'[j].at = "write" => task'[j] = task[j]
<1>1. CASE Ends(k)
  BY <1>1 DEF Ends, Resting, TypeOK
<1>2. ASSUME NEW stage \in {"show", "stat", "delete", "record"}, Goes(k, stage)
      PROVE  \A j \in Tasks : task'[j].at = "write" => task'[j] = task[j]
  <2>1. task[k] \in TaskStates /\ task'[k] = [task[k] EXCEPT !.at = stage]
    BY <1>2 DEF Goes, TypeOK
  <2>2. task'[k].at # "write"
    BY <2>1 DEF TaskStates
  <2>. QED  BY <1>2, <2>2 DEF Goes, TypeOK
<1>. QED  BY <1>1, <1>2

LEMMA TaskStepsCached ==
    ASSUME CacheInv, SupervisionInv, TypeOK, NEW k \in Tasks, TaskSteps(k)
    PROVE  CacheInv'
<1>. DEFINE Others == \A j \in Tasks : task'[j].at = "write" => task'[j] = task[j]
<1>0. main # "startBridge" /\ UNCHANGED <<main, replayVars, account>>
  <2>1. ~Rests(k)
    BY DEF TaskSteps, TaskShows, TaskShown, TaskStats, TaskWrites, TaskDeletes, TaskEnds, Rests,
           Resting
  <2>. QED  BY <2>1, NothingPublishedEarly
            DEF TaskSteps, TaskShows, TaskShown, TaskStats, TaskWrites, TaskDeletes, TaskEnds,
                mainVars
<1>1. CASE TaskShows(k)
  <2>1. Others
    BY <1>1, GoesDoesNotWrite DEF TaskShows
  <2>2. /\ UNCHANGED cache /\ ReplayOver
        /\ UNCHANGED shown \/ shown'.what \in {"live", "unavailable"}
    BY <1>1 DEF TaskShows, shownVars
  <2>3. replay \notin {"load", "check"}
    BY <2>2 DEF ReplayOver
  <2>. QED  BY <1>0, <2>1, <2>2, <2>3
            DEF CacheInv, CacheOfItsAccount, CachedForCurrentAccount, replayVars
<1>2. CASE TaskShown(k)
  <2>1. Others
    BY <1>2, GoesDoesNotWrite DEF TaskShown, RecordsStatus
  <2>. QED  BY <1>0, <1>2, <2>1, CacheUnchanged DEF TaskShown, shownVars
<1>3. CASE TaskStats(k)
  <2>1. \A j \in Tasks : task'[j].at = "write" => task'[j].context = task'[j].account
    <3>1. CASE Goes(k, "delete")
      BY <3>1, GoesDoesNotWrite DEF CacheInv
    <3>2. ASSUME NEW context \in Captured, SameContext(k, context),
                 task' = [task EXCEPT ![k].at = "write", ![k].context = context]
          PROVE  \A j \in Tasks : task'[j].at = "write" => task'[j].context = task'[j].account
      <4>1. task[k] \in TaskStates
        BY DEF TypeOK
      <4>2. task'[k] = [task[k] EXCEPT !.at = "write", !.context = context]
        BY <3>2 DEF TypeOK
      <4>3. task'[k].context = context /\ task'[k].account = task[k].account
        BY <4>1, <4>2 DEF TaskStates
      <4>4. \A j \in Tasks \ {k} : task'[j] = task[j]
        BY <3>2 DEF TypeOK
      <4>. QED  BY <3>2, <4>3, <4>4 DEF SameContext, CacheInv
    <3>. QED  BY <1>3, <3>1, <3>2 DEF TaskStats
  <2>. QED  BY <1>0, <1>3, <2>1
            DEF TaskStats, CacheInv, CacheOfItsAccount, CachedForCurrentAccount, replayVars,
                shownVars
<1>4. CASE TaskWrites(k)
  <2>1. Others
    BY <1>4, GoesDoesNotWrite DEF TaskWrites, RecordsStatus
  <2>2. cache'.context = cache'.account
    BY <1>4 DEF TaskWrites, CacheInv, CacheOfItsAccount
  <2>. QED  BY <1>0, <1>4, <2>1, <2>2
            DEF TaskWrites, CacheInv, CacheOfItsAccount, CachedForCurrentAccount, replayVars,
                shownVars
<1>5. CASE TaskDeletes(k)
  <2>1. Others
    BY <1>5, GoesDoesNotWrite DEF TaskDeletes, RecordsStatus
  <2>2. cache'.context = cache'.account
    BY <1>5 DEF TaskDeletes, CacheInv, CacheOfItsAccount, NoEnvelope
  <2>. QED  BY <1>0, <1>5, <2>1, <2>2
            DEF TaskDeletes, CacheInv, CacheOfItsAccount, CachedForCurrentAccount, replayVars,
                shownVars
<1>6. CASE TaskEnds(k)
  <2>1. Others
    BY <1>6, GoesDoesNotWrite DEF TaskEnds
  <2>. QED  BY <1>0, <1>6, <2>1, CacheUnchanged DEF TaskEnds, shownVars
<1>. QED  BY <1>1, <1>2, <1>3, <1>4, <1>5, <1>6 DEF TaskSteps

LEMMA ReplayingCached ==
    ASSUME CacheInv, TypeOK, Replaying
    PROVE  CacheInv'
<1>. USE DEF mainVars, supervisionVars, shownVars, CacheInv, CacheOfItsAccount,
            CachedForCurrentAccount
<1>1. CASE CacheLoads
  <2>1. /\ cache'.context = cache'.account /\ entry'.context = entry'.account
        /\ UNCHANGED <<task, replay, accountAtReplay, shown, account, main>>
    BY <1>1 DEF CacheLoads, NoEnvelope
  <2>2. replay # "check"
    BY <1>1 DEF CacheLoads
  <2>. QED  BY <2>1, <2>2
<1>2. CASE ReplayBegins
  BY <1>2 DEF ReplayBegins
<1>3. CASE ReplayChecks
  <2>1. CASE UNCHANGED shown /\ replay' \in {"delete", "done"}
    BY <1>3, <2>1 DEF ReplayChecks
  <2>2. ASSUME NEW context \in Captured, EntryCurrent(context), replay' = "show",
               shown' = [what |-> "cached", account |-> entry.account]
        PROVE  CacheInv'
    <3>1. entry \in Envelopes /\ entry # NoEnvelope /\ entry.context = context
      BY <1>3, <2>2 DEF TypeOK, ReplayChecks, EntryCurrent
    <3>2. context # None
      BY <3>1 DEF Envelopes, NoEnvelope
    <3>3. entry.account = account
      BY <2>2, <3>1, <3>2 DEF Captured
    <3>4. account \in Nat /\ accountAtReplay \in Nat
      BY MaxAccountAssumption DEF TypeOK, Accounts
    <3>5. shown'.account \in accountAtReplay..account
      BY <2>2, <3>3, <3>4
    <3>. QED  BY <1>3, <2>2, <3>5 DEF ReplayChecks
  <2>. QED  BY <1>3, <2>1, <2>2 DEF ReplayChecks
<1>4. CASE ReplayDeletes
  BY <1>4 DEF ReplayDeletes, NoEnvelope
<1>5. CASE ReplayShown
  BY <1>5 DEF ReplayShown
<1>6. CASE ReplayEnds
  BY <1>6 DEF ReplayEnds
<1>. QED  BY <1>1, <1>2, <1>3, <1>4, <1>5, <1>6 DEF Replaying

(* Publications begin, candidates and starts come and go.                  *)
LEMMA OthersCached ==
    ASSUME CacheInv, SupervisionInv, TypeOK,
           \/ Starting \/ (\E c \in Candidates : Living(c)) \/ Updating \/ Beat \/ Signals
           \/ UNCHANGED vars
    PROVE  CacheInv'
<1>. DEFINE Others == \A j \in Tasks : task'[j].at = "write" => task'[j] = task[j]
<1>1. CASE Starting
  <2>1. UNCHANGED <<cache, replayVars, account, shown, main>>
    BY <1>1 DEF Starting, StartResolvesNothing, StartReturns, StartGivesUp, StartReported,
                RetryElapses, StartResolves, ProviderStarts, ProviderStartFails, mainVars, shownVars
  <2>2. UNCHANGED task \/ Begin(Start, "unavailable", None)
    BY <1>1 DEF Starting, StartResolvesNothing, StartReturns, StartGivesUp, StartReported,
                RetryElapses, StartResolves, ProviderStarts, ProviderStartFails
  <2>3. Others
    BY <2>2, TaskKinds, BeginDoesNotWrite
  <2>. QED  BY <2>1, <2>3, CacheUnchanged
<1>2. ASSUME NEW c \in Candidates, Living(c)
      PROVE  CacheInv'
  <2>1. UNCHANGED <<cache, replayVars, account, shown, main>>
    BY <1>2 DEF Living, ProviderDies, RecoveryReports, RecoveryEnds, CandidateStops,
                CandidateForgotten, Publishes, mainVars, shownVars
  <2>2. \/ UNCHANGED task
        \/ Begin(Recovery(c), "unavailable", None)
        \/ \E does, a : Begin(Feed(c), does, a)
    BY <1>2 DEF Living, ProviderDies, RecoveryReports, RecoveryEnds, CandidateStops,
                CandidateForgotten, Publishes
  <2>3. Others
    BY <2>2, TaskKinds, BeginDoesNotWrite
  <2>. QED  BY <2>1, <2>3, CacheUnchanged
<1>3. CASE Updating \/ Beat \/ Signals \/ UNCHANGED vars
  <2>1. UNCHANGED <<cache, replayVars, account, shown, main, task>>
    BY <1>3 DEF Updating, UpdateReads, UpdateWrites, Beat, Signals, StopSignalled, vars, mainVars,
                shownVars
  <2>. QED  BY <2>1, CacheUnchanged
<1>. QED  BY <1>1, <1>2, <1>3

LEMMA CommandingCached ==
    ASSUME CacheInv, TypeOK, Commanding
    PROVE  CacheInv'
<1>1. UNCHANGED <<cache, shown, account, task>> /\ main' # "startBridge"
  BY DEF Commanding, BridgeStarts, StartupFails, WatcherFailedEarly, Fails, Ready, Stops,
         ShutdownBegins, ReplayAwaited, StartAwaited, CoordinatorAwaited, CleanedUp, WritesAwaited,
         RemoveSession, shownVars
<1>2. CASE UNCHANGED replayVars
  BY <1>1, <1>2, CacheUnchanged
<1>3. CASE BridgeStarts \/ WatcherFailedEarly
  <2>1. /\ main = "startBridge" /\ replay' = "load" /\ accountAtReplay' = account
        /\ UNCHANGED <<entry, loading>>
    BY <1>3 DEF BridgeStarts, WatcherFailedEarly, Fails
  <2>2. account \in Nat
    BY MaxAccountAssumption DEF TypeOK, Accounts
  <2>. QED  BY <1>1, <2>1, <2>2 DEF CacheInv, CacheOfItsAccount, CachedForCurrentAccount
<1>4. BridgeStarts \/ WatcherFailedEarly \/ UNCHANGED replayVars
  BY DEF Commanding, StartupFails, Fails, Ready, Stops, ShutdownBegins, ReplayAwaited,
         StartAwaited, CoordinatorAwaited, CleanedUp, WritesAwaited, RemoveSession, replayVars
<1>. QED  BY <1>2, <1>3, <1>4

LEMMA AccountChangesCached ==
    ASSUME CacheInv, TypeOK, AccountChanges
    PROVE  CacheInv'
<1>1. account \in Nat /\ accountAtReplay \in Nat /\ account' = account + 1
  BY MaxAccountAssumption DEF TypeOK, Accounts, AccountChanges
<1>2. accountAtReplay..account \subseteq accountAtReplay..account'
  BY <1>1
<1>3. UNCHANGED <<main, task, replay, loading, entry, accountAtReplay, shown, cache>>
  BY DEF AccountChanges, mainVars, replayVars, shownVars
<1>4. accountAtReplay' <= account' /\ CachedForCurrentAccount'
  BY <1>1, <1>2, <1>3 DEF CacheInv, CachedForCurrentAccount
<1>. QED  BY <1>3, <1>4 DEF CacheInv, CacheOfItsAccount

LEMMA CacheInductive == Spec => [](TypeInv /\ SupervisionInv /\ CacheInv)
<1>1. Init => TypeInv /\ SupervisionInv /\ CacheInv
  BY InitTypes, InitSupervision, InitCache
<1>2. ASSUME TypeInv, SupervisionInv, CacheInv, [Next]_vars
      PROVE  (TypeInv /\ SupervisionInv /\ CacheInv)'
  <2>1. CacheInv'
    BY <1>2, TaskStepsCached, ReplayingCached, OthersCached, CommandingCached,
       AccountChangesCached DEF Next, TypeInv
  <2>. QED  BY <1>2, <2>1, NextTypes, NextSupervised
<1>. QED  BY <1>1, <1>2, PTL DEF Spec

(* writeQuotaCache never files the figures of one account under the        *)
(* context of another, however often auth.json changes meanwhile.          *)
THEOREM CacheOfItsAccountHolds == Spec => []CacheOfItsAccount
<1>1. CacheInv => CacheOfItsAccount
  BY DEF CacheInv
<1>. QED  BY CacheInductive, <1>1, PTL

(* The replay never shows the figures of an account that had been left     *)
(* before it began.                                                        *)
THEOREM CachedForCurrentAccountHolds == Spec => []CachedForCurrentAccount
<1>1. CacheInv => CachedForCurrentAccount
  BY DEF CacheInv
<1>. QED  BY CacheInductive, <1>1, PTL

(* publish and publishUnavailable await the replay, so nothing cached is   *)
(* shown after them.                                                       *)
THEOREM CachedComesFirstHolds == Spec => CachedComesFirst
<1>1. ASSUME TypeInv, SupervisionInv, CacheInv, [Next]_vars, shown'.what = "cached"
      PROVE  shown.what \in {"nothing", "cached"}
  <2>1. CASE shown' = shown
    BY <1>1, <2>1
  <2>2. CASE \E k \in Tasks : TaskShows(k)
    BY <1>1, <2>2 DEF TaskShows, shownVars
  <2>3. CASE ReplayChecks
    BY <1>1, <2>3 DEF ReplayChecks, CacheInv
  <2>4. ASSUME NEW k \in Tasks, TaskSteps(k)
        PROVE  shown' = shown \/ TaskShows(k)
    BY <2>4 DEF TaskSteps, TaskShown, TaskStats, TaskWrites, TaskDeletes, TaskEnds, shownVars
  <2>5. ASSUME NEW c \in Candidates, Living(c)
        PROVE  shown' = shown
    BY <2>5 DEF Living, ProviderDies, RecoveryReports, RecoveryEnds, CandidateStops,
                CandidateForgotten, Publishes, shownVars
  <2>6. Starting => shown' = shown
    BY DEF Starting, StartResolvesNothing, StartReturns, StartGivesUp, StartReported,
           RetryElapses, StartResolves, ProviderStarts, ProviderStartFails, shownVars
  <2>7. Replaying => shown' = shown \/ ReplayChecks
    BY DEF Replaying, CacheLoads, ReplayBegins, ReplayDeletes, ReplayShown, ReplayEnds, shownVars
  <2>8. Commanding => shown' = shown
    BY DEF Commanding, BridgeStarts, StartupFails, WatcherFailedEarly, Fails, Ready, Stops,
           ShutdownBegins, ReplayAwaited, StartAwaited, CoordinatorAwaited, CleanedUp,
           WritesAwaited, RemoveSession, shownVars
  <2>9. Updating \/ Beat \/ Signals \/ AccountChanges \/ UNCHANGED vars => shown' = shown
    BY DEF Updating, UpdateReads, UpdateWrites, Beat, Signals, StopSignalled, AccountChanges,
           vars, shownVars
  <2>. QED  BY <1>1, <2>1, <2>2, <2>3, <2>4, <2>5, <2>6, <2>7, <2>8, <2>9 DEF Next
<1>2. TypeInv /\ SupervisionInv /\ CacheInv /\ [Next]_vars
        => [shown'.what = "cached" => shown.what \in {"nothing", "cached"}]_vars
  BY <1>1
<1>. QED  BY CacheInductive, <1>2, PTL DEF Spec, CachedComesFirst

=============================================================================
