---------------------- MODULE QuotaDaemonRecord_proofs ----------------------
(***************************************************************************)
(* Proofs about the session record of QuotaDaemon: who may still write it  *)
(* after its removal, and that it tells what is shown.  They rest on the   *)
(* invariants of QuotaDaemon_proofs.                                       *)
(***************************************************************************)
EXTENDS QuotaDaemon_proofs

(* Who enqueues updates.                                                   *)
LEMMA WritersDiffer ==
    /\ Main # Replay /\ Main # Nobody /\ Replay # Nobody
    /\ Main \notin Tasks /\ Replay \notin Tasks /\ Nobody \notin Tasks
<1>1. Main # Replay /\ Main # Nobody /\ Replay # Nobody
  BY DEF Main, Replay, Nobody
<1>2. ASSUME NEW c \in Candidates
      PROVE  /\ Feed(c) \notin {Main, Replay, Nobody}
             /\ Recovery(c) \notin {Main, Replay, Nobody}
  BY DEF Feed, Recovery, Main, Replay, Nobody
<1>3. Start \notin {Main, Replay, Nobody}
  BY DEF Start, Main, Replay, Nobody
<1>. QED  BY <1>1, <1>2, <1>3 DEF Tasks

(* The queue is indexed from 1.                                            *)
LEMMA QueueDomain ==
    ASSUME TypeOK
    PROVE  Len(queue) \in Nat /\ DOMAIN queue = 1..Len(queue)
BY DEF TypeOK

(* What safeUpdate makes of the queue.                                     *)
LEMMA Enqueued ==
    ASSUME TypeOK, NEW by, NEW status, NEW quota, Enqueue(by, status, quota)
    PROVE  /\ Len(queue') = Len(queue) + 1
           /\ DOMAIN queue' = DOMAIN queue \cup {Len(queue) + 1}
           /\ \A i \in DOMAIN queue : queue'[i] = queue[i] /\ i < Len(queue) + 1
           /\ queue'[Len(queue) + 1].by = by
           /\ queue'[Len(queue) + 1].status = status
           /\ queue'[Len(queue) + 1].quota = quota
           /\ UNCHANGED <<session, writing>>
<1>. DEFINE patch == [by |-> by, status |-> status, quota |-> quota]
<1>1. queue' = Append(queue, patch) /\ UNCHANGED <<session, writing>>
  BY DEF Enqueue
<1>. HIDE DEF patch
<1>2. queue \in Seq(Patches \cup {patch})
  BY DEF TypeOK
<1>3. /\ Len(queue') = Len(queue) + 1 /\ DOMAIN queue' = 1..(Len(queue) + 1)
      /\ \A i \in 1..Len(queue) : queue'[i] = queue[i]
      /\ queue'[Len(queue) + 1] = patch
  BY <1>1, <1>2
<1>. QED  BY <1>1, <1>3, QueueDomain DEF patch

(* What the end of an update makes of it.                                  *)
LEMMA Dequeued ==
    ASSUME TypeOK, queue # <<>>, Dequeue
    PROVE  /\ Len(queue') = Len(queue) - 1
           /\ DOMAIN queue' = 1..(Len(queue) - 1)
           /\ \A i \in DOMAIN queue' : i + 1 \in DOMAIN queue /\ queue'[i] = queue[i + 1]
           /\ 1 \in DOMAIN queue /\ Head(queue) = queue[1]
           /\ awaited' = IF awaited = 0 THEN 0 ELSE awaited - 1
<1>1. queue' = Tail(queue) /\ awaited' = IF awaited = 0 THEN 0 ELSE awaited - 1
  BY DEF Dequeue
<1>2. queue \in Seq(Patches)
  BY DEF TypeOK
<1>3. Len(queue) \in Nat \ {0} /\ DOMAIN queue = 1..Len(queue) /\ Head(queue) = queue[1]
  BY <1>2
<1>4. /\ Len(queue') = Len(queue) - 1 /\ DOMAIN queue' = 1..(Len(queue) - 1)
      /\ \A i \in 1..(Len(queue) - 1) : queue'[i] = queue[i + 1]
  BY <1>1, <1>2, <1>3
<1>. QED  BY <1>1, <1>3, <1>4

-----------------------------------------------------------------------------
(* Who has updates in the queue, and what the shutdown waits for.          *)

Awaits(by) ==
    /\ by \in Tasks => task[by].at = "record"
    /\ by = Replay => replay = "record"
    /\ by = Main => main \in {"recordReady", "recordStop"}

QueueInv == \A i \in DOMAIN queue : Awaits(queue[i].by)

(* The shutdown awaits the heartbeats that are in the queue, and removes   *)
(* the record last.                                                        *)
RemovalInv ==
    /\ main \in {"awaitWrites", "remove", "ended"} =>
          \A i \in DOMAIN queue : queue[i].by = Nobody => i <= awaited
    /\ main \in {"remove", "ended"} => awaited = 0
    /\ ~session.exists => main = "ended"

WritersInv == QueueInv /\ RemovalInv

LEMMA InitWriters == Init => WritersInv
BY DEF Init, WritersInv, QueueInv, RemovalInv

(* The steps that write: who has updates in the queue goes on awaiting.    *)
LEMMA QueueKept ==
    ASSUME TypeOK, QueueInv,
           \A by : ~Recorded(by) => Awaits(by)',
           \/ queue' = queue
           \/ queue # <<>> /\ Dequeue
           \/ \E by, status, quota : Enqueue(by, status, quota) /\ Awaits(by)'
    PROVE  QueueInv'
<1>1. CASE queue' = queue
  BY <1>1 DEF QueueInv, Recorded
<1>2. CASE queue # <<>> /\ Dequeue
  <2>1. \A i \in DOMAIN queue' : i + 1 \in DOMAIN queue /\ queue'[i] = queue[i + 1]
    BY <1>2, Dequeued
  <2>. QED  BY <2>1 DEF QueueInv, Recorded
<1>3. ASSUME NEW by, NEW status, NEW quota, Enqueue(by, status, quota), Awaits(by)'
      PROVE  QueueInv'
  <2>1. /\ DOMAIN queue' = DOMAIN queue \cup {Len(queue) + 1}
        /\ \A i \in DOMAIN queue : queue'[i] = queue[i]
        /\ queue'[Len(queue) + 1].by = by
    BY <1>3, Enqueued
  <2>. QED  BY <1>3, <2>1 DEF QueueInv, Recorded
<1>. QED  BY <1>1, <1>2, <1>3

LEMMA RemovalKept ==
    ASSUME TypeOK, RemovalInv, UNCHANGED <<session, awaited>>,
           \/ UNCHANGED main
           \/ main' \notin {"awaitWrites", "remove", "ended"} /\ main # "ended",
           \/ queue' = queue
           \/ \E by, status, quota : by # Nobody /\ Enqueue(by, status, quota)
    PROVE  RemovalInv'
<1>1. CASE queue' = queue
  BY <1>1 DEF RemovalInv
<1>2. ASSUME NEW by, NEW status, NEW quota, by # Nobody, Enqueue(by, status, quota)
      PROVE  RemovalInv'
  <2>1. /\ DOMAIN queue' = DOMAIN queue \cup {Len(queue) + 1}
        /\ \A i \in DOMAIN queue : queue'[i] = queue[i]
        /\ queue'[Len(queue) + 1].by # Nobody
    BY <1>2, Enqueued
  <2>. QED  BY <2>1 DEF RemovalInv
<1>. QED  BY <1>1, <1>2

LEMMA TaskStepsWriters ==
    ASSUME TypeOK, WritersInv, NEW k \in Tasks, TaskSteps(k)
    PROVE  WritersInv'
<1>1. /\ UNCHANGED <<main, replay, awaited, session>>
      /\ \A j \in Tasks \ {k} : task'[j] = task[j]
  BY DEF TaskSteps, TaskShows, TaskShown, TaskStats, TaskWrites, TaskDeletes, TaskEnds, Goes,
         Ends, RecordsStatus, Enqueue, TypeOK, mainVars, replayVars, sessionVars
<1>2. TaskEnds(k) \/ task[k].at # "record"
  BY DEF TaskSteps, TaskShows, TaskShown, TaskStats, TaskWrites, TaskDeletes
<1>3. Recorded(k)
  BY <1>2 DEF TaskEnds, Recorded, WritersInv, QueueInv, Awaits
<1>4. queue' = queue \/ RecordsStatus(k)
  BY DEF TaskSteps, TaskShows, TaskShown, TaskStats, TaskWrites, TaskDeletes, TaskEnds,
         sessionVars
<1>5. CASE RecordsStatus(k)
  <2>1. Enqueue(k, "kept", Reports(task[k].does)) /\ task'[k].at = "record"
    <3>1. task[k] \in TaskStates /\ task'[k] = [task[k] EXCEPT !.at = "record"]
      BY <1>5 DEF RecordsStatus, Goes, TypeOK
    <3>. QED  BY <1>5, <3>1 DEF RecordsStatus, TaskStates
  <2>2. Awaits(k)'
    BY <2>1, WritersDiffer DEF Awaits
  <2>. QED  BY <1>1, <1>3, <2>1, <2>2, WritersDiffer, QueueKept, RemovalKept
            DEF WritersInv, QueueInv, Awaits, Recorded
<1>6. CASE queue' = queue
  BY <1>1, <1>3, <1>6, QueueKept, RemovalKept DEF WritersInv, QueueInv, Awaits, Recorded
<1>. QED  BY <1>4, <1>5, <1>6

(* Publications that begin.                                                *)
LEMMA BeginWriters ==
    ASSUME TypeOK, WritersInv, UNCHANGED <<main, replay, awaited, sessionVars>>,
           \/ UNCHANGED task
           \/ \E k \in Tasks : Rests(k) /\ \E does, a : Begin(k, does, a)
    PROVE  WritersInv'
<1>1. \A j \in Tasks : task[j].at = "record" => task'[j] = task[j]
  BY DEF Begin, Rests, Resting, TypeOK
<1>2. \A by : ~Recorded(by) => Awaits(by)'
  BY <1>1 DEF WritersInv, QueueInv, Recorded, Awaits
<1>. QED  BY <1>2, QueueKept, RemovalKept DEF WritersInv, sessionVars

LEMMA SupervisionWriters ==
    ASSUME TypeOK, SupervisionInv, WritersInv, Starting \/ \E c \in Candidates : Living(c)
    PROVE  WritersInv'
<1>1. CASE Starting
  <2>1. UNCHANGED <<main, replay, awaited, sessionVars>>
    BY <1>1 DEF Starting, StartResolvesNothing, StartReturns, StartGivesUp, StartReported,
                RetryElapses, StartResolves, ProviderStarts, ProviderStartFails, mainVars,
                replayVars
  <2>2. UNCHANGED task \/ (start.at # "reporting" /\ Begin(Start, "unavailable", None))
    BY <1>1 DEF Starting, StartResolvesNothing, StartReturns, StartGivesUp, StartReported,
                RetryElapses, StartResolves, ProviderStarts, ProviderStartFails
  <2>3. UNCHANGED task \/ (Rests(Start) /\ Begin(Start, "unavailable", None))
    BY <2>2 DEF SupervisionInv, TaskInv
  <2>. QED  BY <2>1, <2>3, TaskKinds, BeginWriters
<1>2. ASSUME NEW c \in Candidates, Living(c)
      PROVE  WritersInv'
  <2>1. UNCHANGED <<main, replay, awaited, sessionVars>>
    BY <1>2 DEF Living, ProviderDies, RecoveryReports, RecoveryEnds, CandidateStops,
                CandidateForgotten, Publishes, mainVars, replayVars
  <2>2. \/ UNCHANGED task
        \/ recovery[c] # "reporting" /\ Begin(Recovery(c), "unavailable", None)
        \/ Rests(Feed(c)) /\ \E does, a : Begin(Feed(c), does, a)
    BY <1>2 DEF Living, ProviderDies, RecoveryReports, RecoveryEnds, CandidateStops,
                CandidateForgotten, Publishes
  <2>3. recovery[c] # "reporting" => Rests(Recovery(c))
    BY DEF SupervisionInv, TaskInv
  <2>. QED  BY <2>1, <2>2, <2>3, TaskKinds, BeginWriters
<1>. QED  BY <1>1, <1>2

LEMMA ReplayingWriters ==
    ASSUME TypeOK, WritersInv, Replaying
    PROVE  WritersInv'
<1>1. UNCHANGED <<main, task, awaited, session>>
  BY DEF Replaying, CacheLoads, ReplayBegins, ReplayChecks, ReplayDeletes, ReplayShown,
         ReplayEnds, Enqueue, mainVars, sessionVars
<1>2. \A by : ~Recorded(by) => Awaits(by)'
  <2>1. UNCHANGED replay \/ replay # "record" \/ (ReplayEnds /\ Recorded(Replay))
    BY DEF Replaying, CacheLoads, ReplayBegins, ReplayChecks, ReplayDeletes, ReplayShown,
           ReplayEnds
  <2>. QED  BY <1>1, <2>1 DEF WritersInv, QueueInv, Recorded, Awaits
<1>3. CASE ReplayShown
  <2>1. Enqueue(Replay, "kept", "cached") /\ replay' = "record"
    BY <1>3 DEF ReplayShown
  <2>2. Awaits(Replay)'
    BY <2>1, WritersDiffer DEF Awaits
  <2>. QED  BY <1>1, <1>2, <2>1, <2>2, WritersDiffer, QueueKept, RemovalKept DEF WritersInv
<1>4. CASE queue' = queue
  BY <1>1, <1>2, <1>4, QueueKept, RemovalKept DEF WritersInv
<1>5. ReplayShown \/ queue' = queue
  BY DEF Replaying, CacheLoads, ReplayBegins, ReplayChecks, ReplayDeletes, ReplayEnds,
         sessionVars
<1>. QED  BY <1>3, <1>4, <1>5

(* The updates themselves.                                                 *)
LEMMA DequeueWriters ==
    ASSUME TypeOK, WritersInv, queue # <<>>, Dequeue, UNCHANGED <<main, task, replay>>,
           session'.exists \/ UNCHANGED session
    PROVE  WritersInv'
<1>1. QueueInv'
  BY QueueKept DEF WritersInv, QueueInv, Recorded, Awaits
<1>2. /\ \A i \in DOMAIN queue' : i \in Nat /\ i + 1 \in DOMAIN queue /\ queue'[i] = queue[i + 1]
      /\ awaited' = IF awaited = 0 THEN 0 ELSE awaited - 1
      /\ awaited \in Nat
  <2>1. DOMAIN queue' = 1..(Len(queue) - 1) /\ Len(queue) \in Nat
    BY Dequeued, QueueDomain
  <2>. QED  BY <2>1, Dequeued DEF TypeOK
<1>3. \A i \in Nat : i + 1 <= awaited => i <= awaited'
  BY <1>2
<1>4. RemovalInv'
  BY <1>2, <1>3 DEF WritersInv, RemovalInv
<1>. QED  BY <1>1, <1>4 DEF WritersInv

LEMMA UpdatingWriters ==
    ASSUME TypeInv, WritersInv, Updating
    PROVE  WritersInv'
<1>. USE DEF TypeInv
<1>1. CASE UpdateReads
  <2>1. UNCHANGED <<main, task, replay, session>> /\ queue # <<>>
    BY <1>1 DEF UpdateReads, replayVars
  <2>2. CASE Dequeue
    BY <2>1, <2>2, DequeueWriters
  <2>3. CASE UNCHANGED <<queue, awaited>>
    BY <2>1, <2>3 DEF WritersInv, QueueInv, RemovalInv, Awaits
  <2>. QED  BY <1>1, <2>2, <2>3 DEF UpdateReads
<1>2. CASE UpdateWrites
  <2>1. UNCHANGED <<main, task, replay>> /\ queue # <<>> /\ Dequeue
    BY <1>2 DEF UpdateWrites, replayVars, WritingInv
  <2>2. session'.exists
    BY <1>2 DEF UpdateWrites, Patched
  <2>. QED  BY <2>1, <2>2, DequeueWriters
<1>. QED  BY <1>1, <1>2 DEF Updating

LEMMA BeatWriters ==
    ASSUME TypeOK, WritersInv, Beat
    PROVE  WritersInv'
<1>1. /\ UNCHANGED <<main, task, replay, awaited>> /\ Enqueue(Nobody, "kept", "kept")
      /\ main \notin {"awaitWrites", "remove", "ended"}
  BY DEF Beat, mainVars, replayVars
<1>2. Awaits(Nobody)'
  BY WritersDiffer DEF Awaits
<1>3. QueueInv'
  BY <1>1, <1>2, QueueKept DEF WritersInv, QueueInv, Recorded, Awaits
<1>4. RemovalInv'
  BY <1>1 DEF WritersInv, RemovalInv, Enqueue
<1>. QED  BY <1>3, <1>4 DEF WritersInv

(* daemonCommand itself.                                                   *)
LEMMA CommandingWriters ==
    ASSUME TypeOK, CacheInv, WritersInv, Commanding
    PROVE  WritersInv'
<1>. USE WritersDiffer
<1>1. /\ UNCHANGED task
      /\ UNCHANGED replay \/ replay = "unset"
  BY DEF Commanding, BridgeStarts, StartupFails, WatcherFailedEarly, Fails, Ready, Stops,
         ShutdownBegins, ReplayAwaited, StartAwaited, CoordinatorAwaited, CleanedUp, WritesAwaited,
         RemoveSession, replayVars, CacheInv
<1>2. \/ UNCHANGED main
      \/ main \notin {"recordReady", "recordStop"}
      \/ Recorded(Main)
  BY DEF Commanding, BridgeStarts, StartupFails, WatcherFailedEarly, Ready, Stops,
         ShutdownBegins, ReplayAwaited, StartAwaited, CoordinatorAwaited, CleanedUp, WritesAwaited,
         RemoveSession
<1>3. \A by : ~Recorded(by) => Awaits(by)'
  BY <1>1, <1>2 DEF WritersInv, QueueInv, Recorded, Awaits
<1>4. \/ queue' = queue
      \/ /\ main' \in {"recordReady", "recordStop"} /\ main # "ended"
         /\ UNCHANGED awaited
         /\ \E status, quota : Enqueue(Main, status, quota)
  BY DEF Commanding, BridgeStarts, StartupFails, WatcherFailedEarly, Fails, Ready, Stops,
         ShutdownBegins, ReplayAwaited, StartAwaited, CoordinatorAwaited, CleanedUp, WritesAwaited,
         RemoveSession, sessionVars
<1>5. QueueInv'
  <2>1. main' \in {"recordReady", "recordStop"} => Awaits(Main)'
    BY DEF Awaits
  <2>. QED  BY <1>3, <1>4, <2>1, QueueKept DEF WritersInv
<1>6. RemovalInv'
  <2>1. CASE /\ main' \in {"recordReady", "recordStop"} /\ main # "ended" /\ UNCHANGED awaited
             /\ \E status, quota : Enqueue(Main, status, quota)
    <3>1. UNCHANGED session
      BY <2>1 DEF Enqueue
    <3>. QED  BY <2>1, <3>1, RemovalKept DEF WritersInv
  <2>2. CASE queue' = queue /\ CleanedUp
    BY <2>2, QueueDomain DEF CleanedUp, WritersInv, RemovalInv, sessionVars
  <2>3. CASE queue' = queue /\ (WritesAwaited \/ RemoveSession)
    BY <2>3 DEF WritesAwaited, WritesOver, RemoveSession, WritersInv, RemovalInv, sessionVars
  <2>4. CASE /\ queue' = queue /\ UNCHANGED <<awaited, session>>
             /\ main' \notin {"awaitWrites", "remove", "ended"} /\ main # "ended"
    BY <2>4, RemovalKept DEF WritersInv
  <2>5. \/ CleanedUp \/ WritesAwaited \/ RemoveSession
        \/ /\ UNCHANGED <<awaited, session>>
           /\ main' \notin {"awaitWrites", "remove", "ended"} /\ main # "ended"
    BY DEF Commanding, BridgeStarts, StartupFails, WatcherFailedEarly, Fails, Ready, Stops,
           ShutdownBegins, ReplayAwaited, StartAwaited, CoordinatorAwaited, Enqueue, sessionVars
  <2>. QED  BY <1>4, <2>1, <2>2, <2>3, <2>4, <2>5
<1>. QED  BY <1>5, <1>6 DEF WritersInv

LEMMA NextWriters ==
    ASSUME TypeInv, SupervisionInv, CacheInv, WritersInv, [Next]_vars
    PROVE  WritersInv'
<1>1. CASE Signals \/ AccountChanges \/ UNCHANGED vars
  <2>1. UNCHANGED <<main, task, replay, awaited, queue, session>>
    BY <1>1 DEF Signals, StopSignalled, AccountChanges, vars, mainVars, replayVars, sessionVars
  <2>. QED  BY <2>1 DEF WritersInv, QueueInv, RemovalInv, Awaits
<1>. QED  BY <1>1, TaskStepsWriters, SupervisionWriters, ReplayingWriters, CommandingWriters,
            UpdatingWriters, BeatWriters DEF Next, TypeInv

LEMMA WritersInductive == Spec => [](TypeInv /\ SupervisionInv /\ WritersInv)
<1>. DEFINE Inv == TypeInv /\ SupervisionInv /\ CacheInv /\ WritersInv
<1>1. Init => Inv
  BY InitTypes, InitSupervision, InitCache, InitWriters
<1>2. Inv /\ [Next]_vars => WritersInv'
  BY NextWriters
<1>. QED  BY CacheInductive, <1>1, <1>2, PTL DEF Spec

-----------------------------------------------------------------------------

(* After removeSession only the patch of a recovery that was under way     *)
(* before the stop can bring the record back: the shutdown has awaited     *)
(* every other update, of daemonCommand, of the replay, of a start and of  *)
(* the heartbeat.                                                          *)
THEOREM OnlyRecoveryRevivesHolds == Spec => OnlyRecoveryRevives
<1>1. ASSUME TypeInv, SupervisionInv, WritersInv, [Next]_vars, ~session.exists, session'.exists
      PROVE  \E c \in Candidates :
                 recovery[c] # "none" /\ Head(queue).by \in {Feed(c), Recovery(c)}
  <2>1. UpdateWrites
    <3>1. ASSUME NEW k \in Tasks, TaskSteps(k)
          PROVE  UNCHANGED session
      BY <3>1 DEF TaskSteps, TaskShows, TaskShown, TaskStats, TaskWrites, TaskDeletes,
                  TaskEnds, RecordsStatus, Enqueue, sessionVars
    <3>2. (\E c \in Candidates : Living(c)) \/ Starting => UNCHANGED session
      BY DEF Living, ProviderDies, RecoveryReports, RecoveryEnds, CandidateStops,
             CandidateForgotten, Publishes, Starting, StartResolvesNothing, StartReturns,
             StartGivesUp, StartReported, RetryElapses, StartResolves, ProviderStarts,
             ProviderStartFails, sessionVars
    <3>3. Replaying => UNCHANGED session
      BY DEF Replaying, CacheLoads, ReplayBegins, ReplayChecks, ReplayDeletes, ReplayShown,
             ReplayEnds, Enqueue, sessionVars
    <3>4. Commanding => UNCHANGED session \/ ~session'.exists
      <4>1. RemoveSession => ~session'.exists
        BY <1>1 DEF RemoveSession, TypeInv, TypeOK, Records
      <4>. QED  BY <4>1 DEF Commanding, BridgeStarts, StartupFails, WatcherFailedEarly, Fails,
             Ready, Stops, ShutdownBegins, ReplayAwaited, StartAwaited, CoordinatorAwaited,
             CleanedUp, WritesAwaited, Enqueue, sessionVars
    <3>5. Beat \/ Signals \/ AccountChanges \/ UNCHANGED vars \/ UpdateReads => UNCHANGED session
      BY DEF Beat, Signals, StopSignalled, AccountChanges, vars, UpdateReads, Enqueue, sessionVars
    <3>. QED  BY <1>1, <3>1, <3>2, <3>3, <3>4, <3>5 DEF Next, Updating
  <2>2. main = "ended" /\ awaited = 0
    BY <1>1 DEF WritersInv, RemovalInv
  <2>3. queue # <<>> /\ 1 \in DOMAIN queue /\ Head(queue) = queue[1] /\ Head(queue) \in Patches
    <3>1. queue # <<>> /\ Dequeue
      BY <1>1, <2>1 DEF UpdateWrites, TypeInv, WritingInv
    <3>2. 1 \in DOMAIN queue /\ Head(queue) = queue[1]
      BY <1>1, <3>1, Dequeued DEF TypeInv
    <3>. QED  BY <1>1, <3>1, <3>2 DEF TypeInv, TypeOK
  <2>. DEFINE by == Head(queue).by
  <2>4. start.at = "none" /\ coordinator = None /\ ReplayOver
    BY <1>1, <2>2 DEF SupervisionInv, MainInv, Shutdown
  <2>5. by \in Tasks
    <3>1. Awaits(by)
      BY <1>1, <2>3 DEF WritersInv, QueueInv
    <3>2. by # Main /\ by # Replay
      BY <2>2, <2>4, <3>1 DEF Awaits, ReplayOver
    <3>3. by # Nobody
      BY <1>1, <2>2, <2>3 DEF WritersInv, RemovalInv
    <3>. QED  BY <2>3, <3>2, <3>3 DEF Patches
  <2>6. ~Rests(by)
    BY <1>1, <2>3, <2>5 DEF WritersInv, QueueInv, Awaits, Rests, Resting
  <2>7. by # Start
    BY <1>1, <2>4, <2>6 DEF SupervisionInv, TaskInv
  <2>8. PICK c \in Candidates : by \in {Feed(c), Recovery(c)}
    BY <2>5, <2>7 DEF Tasks
  <2>9. recovery[c] # "none"
    <3>1. CASE by = Recovery(c)
      BY <1>1, <2>6, <3>1 DEF SupervisionInv, TaskInv
    <3>2. CASE by = Feed(c)
      <4>1. candidate[c] \in {"running", "stopping"}
        BY <1>1, <2>6, <3>2 DEF SupervisionInv, TaskInv
      <4>2. candidate[c] # "running"
        BY <1>1, <2>4, NoneIsNoCandidate DEF SupervisionInv, ChargeInv, OneProviderAtWork
      <4>. QED  BY <1>1, <2>2, <2>4, <4>1, <4>2 DEF SupervisionInv, StoppingInv
    <3>. QED  BY <2>8, <3>1, <3>2
  <2>. QED  BY <2>8, <2>9
<1>2. TypeInv /\ SupervisionInv /\ WritersInv /\ [Next]_vars
        => [~session.exists /\ session'.exists =>
               \E c \in Candidates :
                   recovery[c] # "none" /\ Head(queue).by \in {Feed(c), Recovery(c)}]_vars
  BY <1>1
<1>. QED  BY WritersInductive, <1>2, PTL DEF Spec, OnlyRecoveryRevives

-----------------------------------------------------------------------------
(* What the session record tells.                                          *)

(* What is shown, what quotaStatus tells of it, and who is showing it.     *)
ShownInv ==
    /\ quotaStatus = CASE shown.what = "nothing" -> "loading"
                       [] shown.what = "live" -> "available"
                       [] OTHER -> shown.what
    /\ ~ReplayOver => \A k \in Tasks : task[k].at \in {"rest", "awaitReplay"}
    /\ \A k \in Tasks : task[k].at \in {"show", "stat", "write"} => task[k].does # "unstable"
    /\ ~crossed => \A k \in Tasks : Shows(k) => quotaStatus = Reports(task[k].does)
    /\ replay = "show" => quotaStatus = "cached"

LEMMA InitShown == Init => ShownInv
BY DEF Init, ShownInv, Shows, Resting, ReplayOver

LEMMA ShownUnchanged ==
    ASSUME TypeOK, ShownInv, UNCHANGED <<replay, shownVars>>,
           \/ UNCHANGED task
           \/ \E k \in Tasks : \E does, a : Begin(k, does, a)
           \/ \E k \in Tasks : Ends(k)
    PROVE  ShownInv'
<1>1. \A j \in Tasks : \/ task'[j] = task[j]
                       \/ task'[j].at \in {"rest", "awaitReplay"}
  BY DEF Begin, Ends, Resting, TypeOK
<1>. QED  BY <1>1 DEF ShownInv, Shows, ReplayOver, shownVars

(* What Goes makes of a task.                                              *)
LEMMA GoesMeans ==
    ASSUME TypeOK, NEW k \in Tasks, NEW stage, Goes(k, stage)
    PROVE  /\ task'[k].at = stage
           /\ task'[k].does = task[k].does
           /\ \A j \in Tasks \ {k} : task'[j] = task[j]
<1>1. task[k] \in TaskStates /\ task'[k] = [task[k] EXCEPT !.at = stage]
  BY DEF Goes, TypeOK
<1>. QED  BY <1>1 DEF Goes, TaskStates, TypeOK

(* What writeQuotaCache makes of the context it has read.                  *)
LEMMA StatsMeans ==
    ASSUME TypeOK, NEW k \in Tasks, TaskStats(k)
    PROVE  /\ task'[k].at \in {"write", "delete"}
           /\ task'[k].does = task[k].does
           /\ \A j \in Tasks \ {k} : task'[j] = task[j]
<1>1. ASSUME NEW context \in Captured,
             task' = [task EXCEPT ![k].at = "write", ![k].context = context]
      PROVE  /\ task'[k].at = "write"
             /\ task'[k].does = task[k].does
             /\ \A j \in Tasks \ {k} : task'[j] = task[j]
  <2>1. task[k] \in TaskStates
    BY DEF TypeOK
  <2>2. task'[k] = [task[k] EXCEPT !.at = "write", !.context = context]
    BY <1>1 DEF TypeOK
  <2>3. task'[k].at = "write" /\ task'[k].does = task[k].does
    BY <2>1, <2>2 DEF TaskStates
  <2>4. \A j \in Tasks \ {k} : task'[j] = task[j]
    BY <1>1 DEF TypeOK
  <2>. QED  BY <2>3, <2>4
<1>2. CASE Goes(k, "delete")
  BY <1>2, GoesMeans
<1>. QED  BY <1>1, <1>2 DEF TaskStats

(* A publication that has been shown runs its course.                      *)
LEMMA ShownGoes ==
    ASSUME TypeOK, ShownInv, NEW k \in Tasks, UNCHANGED <<replay, shownVars>>,
           \/ task[k].at \in {"show", "stat", "write"}
           \/ task[k].at = "delete" /\ task[k].does # "unstable",
           task'[k].does = task[k].does,
           \A j \in Tasks \ {k} : task'[j] = task[j]
    PROVE  ShownInv'
<1>1. ReplayOver
  BY DEF ShownInv
<1>2. /\ task[k].does # "unstable" /\ ~crossed => quotaStatus = Reports(task[k].does)
  BY DEF ShownInv, Shows
<1>. QED  BY <1>1, <1>2 DEF ShownInv, Shows, ReplayOver, shownVars

LEMMA TaskStepsShown ==
    ASSUME TypeOK, ShownInv, NEW k \in Tasks, TaskSteps(k)
    PROVE  ShownInv'
<1>0. UNCHANGED replay
  BY DEF TaskSteps, TaskShows, TaskShown, TaskStats, TaskWrites, TaskDeletes, TaskEnds,
         replayVars
<1>1. CASE TaskShows(k) /\ task[k].does = "unstable" /\ Goes(k, "delete")
  <2>1. UNCHANGED shownVars /\ ReplayOver
    BY <1>1 DEF TaskShows
  <2>2. task'[k].at = "delete" /\ task'[k].does = "unstable"
        /\ \A j \in Tasks \ {k} : task'[j] = task[j]
    BY <1>1, GoesMeans
  <2>. QED  BY <1>0, <2>1, <2>2 DEF ShownInv, Shows, ReplayOver, shownVars
<1>2. CASE TaskShows(k) /\ task[k].does # "unstable"
  <2>1. /\ ReplayOver /\ Goes(k, "show") /\ quotaStatus' = Reports(task[k].does)
        /\ shown'.what = IF task[k].does = "unavailable" THEN "unavailable" ELSE "live"
        /\ crossed' = Contradicts(k)
    BY <1>2 DEF TaskShows
  <2>2. task'[k].at = "show" /\ task'[k].does = task[k].does
        /\ \A j \in Tasks \ {k} : task'[j] = task[j]
    BY <2>1, GoesMeans
  <2>3. \A j \in Tasks \ {k} : Shows(j)' <=> Shows(j)
    BY <2>2 DEF Shows
  <2>4. ~crossed' => \A j \in Tasks : Shows(j)' => Reports(task'[j].does) = quotaStatus'
    BY <2>1, <2>2, <2>3 DEF Contradicts
  <2>5. quotaStatus' = CASE shown'.what = "nothing" -> "loading"
                         [] shown'.what = "live" -> "available"
                         [] OTHER -> shown'.what
    BY <2>1 DEF Reports
  <2>. QED  BY <1>0, <1>2, <2>1, <2>2, <2>4, <2>5 DEF ShownInv, ReplayOver
<1>3. CASE TaskShown(k) \/ TaskWrites(k)
  <2>1. Goes(k, "stat") \/ Goes(k, "delete") \/ Goes(k, "record")
    BY <1>3 DEF TaskShown, TaskWrites, RecordsStatus
  <2>. QED  BY <1>0, <1>3, <2>1, GoesMeans, ShownGoes DEF TaskShown, TaskWrites
<1>4. CASE TaskStats(k)
  <2>1. task[k].at = "stat" /\ UNCHANGED shownVars
    BY <1>4 DEF TaskStats
  <2>. QED  BY <1>0, <1>4, <2>1, StatsMeans, ShownGoes
<1>5. CASE TaskDeletes(k) /\ task[k].does # "unstable"
  <2>1. Goes(k, "record") /\ task[k].at = "delete" /\ UNCHANGED shownVars
    BY <1>5 DEF TaskDeletes, RecordsStatus
  <2>. QED  BY <1>0, <1>5, <2>1, GoesMeans, ShownGoes
<1>6. CASE Ends(k) /\ UNCHANGED shownVars
  BY <1>0, <1>6, ShownUnchanged
<1>. QED  BY <1>1, <1>2, <1>3, <1>4, <1>5, <1>6
          DEF TaskSteps, TaskShows, TaskDeletes, TaskEnds

LEMMA ReplayingShown ==
    ASSUME TypeOK, ShownInv, Replaying
    PROVE  ShownInv'
<1>0. UNCHANGED task
  BY DEF Replaying, CacheLoads, ReplayBegins, ReplayChecks, ReplayDeletes, ReplayShown,
         ReplayEnds
<1>1. CASE ReplayChecks /\ replay' = "show"
  <2>1. /\ quotaStatus' = "cached" /\ shown'.what = "cached"
        /\ ~ReplayOver
    BY <1>1 DEF ReplayChecks, ReplayOver
  <2>2. \A k \in Tasks : ~Shows(k)'
    BY <1>0, <2>1 DEF ShownInv, Shows
  <2>. QED  BY <1>0, <1>1, <2>1, <2>2 DEF ShownInv
<1>2. CASE UNCHANGED shownVars /\ replay' # "show"
  BY <1>0, <1>2 DEF ShownInv, Shows, ReplayOver, shownVars, Replaying, CacheLoads, ReplayBegins,
                    ReplayChecks, ReplayDeletes, ReplayShown, ReplayEnds
<1>3. CASE UNCHANGED <<shownVars, replay>>
  BY <1>0, <1>3, ShownUnchanged
<1>. QED  BY <1>1, <1>2, <1>3 DEF Replaying, CacheLoads, ReplayBegins, ReplayChecks,
             ReplayDeletes, ReplayShown, ReplayEnds, shownVars

LEMMA CommandingShown ==
    ASSUME TypeOK, SupervisionInv, ShownInv, Commanding
    PROVE  ShownInv'
<1>1. UNCHANGED <<task, shownVars>>
  BY DEF Commanding, BridgeStarts, StartupFails, WatcherFailedEarly, Fails, Ready, Stops,
         ShutdownBegins, ReplayAwaited, StartAwaited, CoordinatorAwaited, CleanedUp, WritesAwaited,
         RemoveSession
<1>2. UNCHANGED replay \/ (main = "startBridge" /\ replay' = "load")
  BY DEF Commanding, BridgeStarts, StartupFails, WatcherFailedEarly, Fails, Ready, Stops,
         ShutdownBegins, ReplayAwaited, StartAwaited, CoordinatorAwaited, CleanedUp, WritesAwaited,
         RemoveSession, replayVars
<1>3. CASE UNCHANGED replay
  BY <1>1, <1>3, ShownUnchanged
<1>4. CASE main = "startBridge" /\ replay' = "load"
  <2>1. \A k \in Tasks : task[k].at = "rest"
    BY <1>4, NothingPublishedEarly DEF Rests, Resting
  <2>. QED  BY <1>1, <1>4, <2>1 DEF ShownInv, Shows, shownVars
<1>. QED  BY <1>2, <1>3, <1>4

LEMMA NextShown ==
    ASSUME TypeOK, SupervisionInv, ShownInv, [Next]_vars
    PROVE  ShownInv'
<1>1. CASE Starting \/ \E c \in Candidates : Living(c)
  <2>1. UNCHANGED <<replay, shownVars>>
    BY <1>1 DEF Living, ProviderDies, RecoveryReports, RecoveryEnds, CandidateStops,
                CandidateForgotten, Publishes, Starting, StartResolvesNothing, StartReturns,
                StartGivesUp, StartReported, RetryElapses, StartResolves, ProviderStarts,
                ProviderStartFails, replayVars
  <2>2. UNCHANGED task \/ \E k \in Tasks : \E does, a : Begin(k, does, a)
    <3>1. CASE Starting
      <4>1. UNCHANGED task \/ Begin(Start, "unavailable", None)
        BY <3>1 DEF Starting, StartResolvesNothing, StartReturns, StartGivesUp, StartReported,
                    RetryElapses, StartResolves, ProviderStarts, ProviderStartFails
      <4>. QED  BY <4>1, TaskKinds
    <3>2. ASSUME NEW c \in Candidates, Living(c)
          PROVE  UNCHANGED task \/ \E k \in Tasks : \E does, a : Begin(k, does, a)
      <4>1. \/ UNCHANGED task
            \/ Begin(Recovery(c), "unavailable", None)
            \/ \E does, a : Begin(Feed(c), does, a)
        BY <3>2 DEF Living, ProviderDies, RecoveryReports, RecoveryEnds, CandidateStops,
                    CandidateForgotten, Publishes
      <4>. QED  BY <4>1, TaskKinds
    <3>. QED  BY <1>1, <3>1, <3>2
  <2>. QED  BY <2>1, <2>2, ShownUnchanged
<1>2. CASE Updating \/ Beat \/ Signals \/ AccountChanges \/ UNCHANGED vars
  <2>1. UNCHANGED <<replay, shownVars, task>>
    BY <1>2 DEF Updating, UpdateReads, UpdateWrites, Beat, Signals, StopSignalled,
                AccountChanges, vars, replayVars
  <2>. QED  BY <2>1, ShownUnchanged
<1>. QED  BY <1>1, <1>2, TaskStepsShown, ReplayingShown, CommandingShown DEF Next

-----------------------------------------------------------------------------
(* The record.                                                             *)

(* The last status among the updates is q, or there is none, and the       *)
(* record has it.                                                          *)
Tells(updates, recorded, q) ==
    \/ \E i \in DOMAIN updates :
          /\ updates[i].quota = q
          /\ \A j \in DOMAIN updates : i < j => updates[j].quota = "kept"
    \/ (\A i \in DOMAIN updates : updates[i].quota = "kept") /\ recorded = q

LEMMA TellsEnqueued ==
    ASSUME TypeOK, NEW by, NEW status, NEW quota, Enqueue(by, status, quota), NEW q, NEW r,
           quota = q \/ (quota = "kept" /\ Tells(queue, r, q))
    PROVE  Tells(queue', r, q)
<1>1. /\ DOMAIN queue' = DOMAIN queue \cup {Len(queue) + 1}
      /\ \A i \in DOMAIN queue : queue'[i] = queue[i] /\ i < Len(queue) + 1
      /\ queue'[Len(queue) + 1].quota = quota
      /\ Len(queue) \in Nat /\ DOMAIN queue = 1..Len(queue)
  BY Enqueued, QueueDomain
<1>2. CASE quota = q
  <2>1. \A j \in DOMAIN queue' : ~(Len(queue) + 1 < j)
    BY <1>1
  <2>. QED  BY <1>1, <1>2, <2>1 DEF Tells
<1>3. CASE quota = "kept" /\ Tells(queue, r, q)
  BY <1>1, <1>3 DEF Tells
<1>. QED  BY <1>2, <1>3

(* The first update is written: `recorded' before, `written' after.        *)
LEMMA TellsDequeued ==
    ASSUME TypeOK, queue # <<>>, Dequeue, NEW recorded, NEW q, q # "kept",
           Tells(queue, recorded, q)
    PROVE  Tells(queue', IF Head(queue).quota = "kept" THEN recorded ELSE Head(queue).quota, q)
<1>. DEFINE written == IF Head(queue).quota = "kept" THEN recorded ELSE Head(queue).quota
<1>1. /\ DOMAIN queue' = 1..(Len(queue) - 1) /\ DOMAIN queue = 1..Len(queue)
      /\ \A i \in DOMAIN queue' : queue'[i] = queue[i + 1]
      /\ 1 \in DOMAIN queue /\ Head(queue) = queue[1]
      /\ Len(queue) \in Nat
  BY Dequeued, QueueDomain
<1>2. ASSUME NEW i \in DOMAIN queue, i # 1
      PROVE  i - 1 \in DOMAIN queue' /\ queue'[i - 1] = queue[i]
  <2>1. i - 1 \in DOMAIN queue' /\ (i - 1) + 1 = i
    BY <1>1, <1>2
  <2>. QED  BY <1>1, <2>1
<1>3. CASE \A i \in DOMAIN queue : queue[i].quota = "kept"
  BY <1>1, <1>3 DEF Tells
<1>4. ASSUME NEW i \in DOMAIN queue, queue[i].quota = q,
             \A j \in DOMAIN queue : i < j => queue[j].quota = "kept"
      PROVE  Tells(queue', written, q)
  <2>1. CASE i = 1
    <3>1. \A j \in DOMAIN queue' : queue'[j].quota = "kept"
      BY <1>1, <1>4, <2>1
    <3>. QED  BY <1>1, <1>4, <2>1, <3>1 DEF Tells
  <2>2. CASE i # 1
    <3>1. i - 1 \in DOMAIN queue' /\ queue'[i - 1].quota = q
      BY <1>2, <1>4, <2>2
    <3>2. \A j \in DOMAIN queue' : i - 1 < j => queue'[j].quota = "kept"
      BY <1>1, <1>4
    <3>. QED  BY <3>1, <3>2 DEF Tells
  <2>. QED  BY <2>1, <2>2
<1>. QED  BY <1>3, <1>4 DEF Tells

(* The session has not become ready, and will not.                         *)
Unready ==
    /\ session.status \in {"starting", "error"}
    /\ main \notin {"recordReady", "serve"}
    /\ \A i \in DOMAIN queue : queue[i].status \in {"error", "kept"}

Gone == ~session.exists /\ writing = None

(* Nothing has been shown that is not in the queue yet, and nothing        *)
(* contradicts what has been shown last.                                   *)
Settled == ~crossed /\ (\A k \in Tasks : ~Shows(k)) /\ replay # "show"

RecordInv ==
    /\ writing # None => writing.status = session.status /\ writing.quota = session.quota
    /\ main = "startBridge" => Unready
    /\ \/ Unready
       \/ Gone
       \/ Settled => Tells(queue, session.quota, quotaStatus)

LEMMA InitRecord == Init => RecordInv
BY DEF Init, RecordInv, Unready

(* Steps that leave the record as it is, and enqueue at most one update.   *)
LEMMA RecordKept ==
    ASSUME TypeOK, RecordInv, UNCHANGED writing,
           session'.status = session.status, session'.quota = session.quota,
           session'.exists => session.exists,
           main' = "startBridge" => main = "startBridge",
           main' \in {"recordReady", "serve"} => main \in {"recordReady", "serve"},
           \/ UNCHANGED <<queue, quotaStatus>> /\ (Settled' => Settled)
           \/ UNCHANGED queue /\ ~Settled'
           \/ \E by, status, quota :
                 /\ Enqueue(by, status, quota)
                 /\ status \in {"error", "kept"} \/ main \in {"recordReady", "serve"}
                 /\ \/ quota = quotaStatus' \/ ~Settled'
                    \/ quota = "kept" /\ UNCHANGED quotaStatus /\ (Settled' => Settled)
    PROVE  RecordInv'
<1>1. CASE /\ UNCHANGED queue
           /\ \/ ~Settled'
              \/ UNCHANGED quotaStatus /\ (Settled' => Settled)
  <2>1. Unready => Unready'
    BY <1>1 DEF Unready
  <2>2. Gone => Gone'
    BY DEF Gone
  <2>3. (Settled => Tells(queue, session.quota, quotaStatus))
           => (Settled' => Tells(queue', session'.quota, quotaStatus'))
    BY <1>1
  <2>. QED  BY <2>1, <2>2, <2>3 DEF RecordInv
<1>2. ASSUME NEW by, NEW status, NEW quota, Enqueue(by, status, quota),
             status \in {"error", "kept"} \/ main \in {"recordReady", "serve"},
             \/ quota = quotaStatus' \/ ~Settled'
             \/ quota = "kept" /\ UNCHANGED quotaStatus /\ (Settled' => Settled)
      PROVE  RecordInv'
  <2>1. Unready => Unready'
    <3>1. /\ DOMAIN queue' = DOMAIN queue \cup {Len(queue) + 1}
          /\ \A i \in DOMAIN queue : queue'[i] = queue[i]
          /\ queue'[Len(queue) + 1].status = status
      BY <1>2, Enqueued
    <3>. QED  BY <1>2, <3>1 DEF Unready
  <2>2. Gone => Gone'
    BY DEF Gone
  <2>3. CASE quota = quotaStatus'
    <3>1. Tells(queue', session'.quota, quotaStatus')
      BY <1>2, <2>3, TellsEnqueued
    <3>. QED  BY <2>1, <2>2, <3>1 DEF RecordInv
  <2>4. CASE quota = "kept" /\ UNCHANGED quotaStatus /\ (Settled' => Settled)
    <3>1. Tells(queue, session.quota, quotaStatus) => Tells(queue', session.quota, quotaStatus)
      BY <1>2, <2>4, TellsEnqueued
    <3>. QED  BY <2>1, <2>2, <2>4, <3>1 DEF RecordInv
  <2>5. CASE ~Settled'
    BY <2>1, <2>2, <2>5 DEF RecordInv
  <2>. QED  BY <1>2, <2>3, <2>4, <2>5
<1>. QED  BY <1>1, <1>2

LEMMA TaskStepsRecord ==
    ASSUME TypeOK, ShownInv, RecordInv, NEW k \in Tasks, TaskSteps(k)
    PROVE  RecordInv'
<1>0. UNCHANGED <<main, session, writing, replay>>
  BY DEF TaskSteps, TaskShows, TaskShown, TaskStats, TaskWrites, TaskDeletes, TaskEnds, Goes,
         Ends, RecordsStatus, Enqueue, mainVars, replayVars, sessionVars
<1>1. CASE RecordsStatus(k) /\ Shows(k) /\ UNCHANGED shownVars
  <2>1. /\ Enqueue(k, "kept", Reports(task[k].does))
        /\ Reports(task[k].does) = quotaStatus' \/ ~Settled'
    BY <1>1 DEF RecordsStatus, ShownInv, Settled, shownVars
  <2>. QED  BY <1>0, <2>1, RecordKept
<1>2. CASE UNCHANGED queue /\ Shows(k)'
  <2>1. ~Settled'
    BY <1>2 DEF Settled
  <2>. QED  BY <1>0, <1>2, <2>1, RecordKept
<1>3. CASE /\ UNCHANGED <<queue, shownVars>> /\ ~Shows(k)
           /\ \A j \in Tasks \ {k} : task'[j] = task[j]
  <2>1. Settled' => Settled
    BY <1>0, <1>3 DEF Settled, Shows, shownVars
  <2>. QED  BY <1>0, <1>3, <2>1, RecordKept DEF shownVars
<1>4. CASE TaskShows(k)
  <2>1. task[k].at = "awaitReplay" /\ UNCHANGED queue
    BY <1>4 DEF TaskShows, sessionVars
  <2>2. CASE task[k].does = "unstable"
    <3>1. UNCHANGED shownVars /\ (Goes(k, "delete") \/ Ends(k))
      BY <1>4, <2>2 DEF TaskShows
    <3>2. \A j \in Tasks \ {k} : task'[j] = task[j]
      BY <3>1, GoesMeans DEF Ends, TypeOK
    <3>. QED  BY <1>3, <2>1, <3>1, <3>2 DEF Shows
  <2>3. CASE task[k].does # "unstable"
    <3>1. Goes(k, "show")
      BY <1>4, <2>3 DEF TaskShows
    <3>2. Shows(k)'
      BY <2>3, <3>1, GoesMeans DEF Shows
    <3>. QED  BY <1>2, <2>1, <3>2
  <2>. QED  BY <2>2, <2>3
<1>5. CASE TaskShown(k)
  <2>1. Shows(k) /\ UNCHANGED shownVars
    BY <1>5 DEF TaskShown, Shows, ShownInv
  <2>2. CASE UNCHANGED sessionVars /\ (Goes(k, "stat") \/ Goes(k, "delete"))
    <3>1. Shows(k)'
      BY <2>1, <2>2, GoesMeans DEF Shows
    <3>. QED  BY <1>2, <2>2, <3>1 DEF sessionVars
  <2>. QED  BY <1>1, <1>5, <2>1, <2>2 DEF TaskShown
<1>6. CASE TaskStats(k)
  <2>1. task[k].does # "unstable" /\ UNCHANGED queue
    BY <1>6 DEF TaskStats, ShownInv, sessionVars
  <2>2. Shows(k)'
    BY <1>6, <2>1, StatsMeans DEF Shows
  <2>. QED  BY <1>2, <2>1, <2>2
<1>7. CASE TaskWrites(k)
  BY <1>1, <1>7 DEF TaskWrites, Shows, ShownInv
<1>8. CASE TaskDeletes(k)
  <2>1. CASE task[k].does = "unstable"
    <3>1. Ends(k) /\ UNCHANGED <<queue, shownVars>>
      BY <1>8, <2>1 DEF TaskDeletes, sessionVars
    <3>. QED  BY <1>3, <2>1, <3>1 DEF Ends, Shows, TypeOK
  <2>2. CASE task[k].does # "unstable"
    BY <1>1, <1>8, <2>2 DEF TaskDeletes, Shows
  <2>. QED  BY <2>1, <2>2
<1>9. CASE TaskEnds(k)
  <2>1. Ends(k) /\ UNCHANGED <<queue, shownVars>> /\ task[k].at = "record"
    BY <1>9 DEF TaskEnds, sessionVars
  <2>. QED  BY <1>3, <2>1 DEF Ends, Shows, TypeOK
<1>. QED  BY <1>4, <1>5, <1>6, <1>7, <1>8, <1>9 DEF TaskSteps

(* Publications begin, candidates and starts come and go.                  *)
LEMMA SupervisionRecord ==
    ASSUME TypeOK, SupervisionInv, RecordInv, Starting \/ \E c \in Candidates : Living(c)
    PROVE  RecordInv'
<1>1. UNCHANGED <<main, session, writing, queue, replay, quotaStatus, crossed>>
  BY DEF Living, ProviderDies, RecoveryReports, RecoveryEnds, CandidateStops,
         CandidateForgotten, Publishes, Starting, StartResolvesNothing, StartReturns,
         StartGivesUp, StartReported, RetryElapses, StartResolves, ProviderStarts,
         ProviderStartFails, mainVars, replayVars, sessionVars, shownVars
<1>2. \A k \in Tasks : Shows(k) => Shows(k)'
  <2>1. ASSUME NEW k \in Tasks, Rests(k), NEW does, NEW a, Begin(k, does, a)
        PROVE  \A j \in Tasks : Shows(j) => Shows(j)'
    BY <2>1 DEF Begin, Rests, Resting, Shows, TypeOK
  <2>2. CASE Starting
    <3>1. UNCHANGED task \/ (start.at # "reporting" /\ Begin(Start, "unavailable", None))
      BY <2>2 DEF Starting, StartResolvesNothing, StartReturns, StartGivesUp, StartReported,
                  RetryElapses, StartResolves, ProviderStarts, ProviderStartFails
    <3>2. UNCHANGED task \/ (Rests(Start) /\ Begin(Start, "unavailable", None))
      BY <3>1 DEF SupervisionInv, TaskInv
    <3>. QED  BY <2>1, <3>2, TaskKinds DEF Shows
  <2>3. ASSUME NEW c \in Candidates, Living(c)
        PROVE  \A j \in Tasks : Shows(j) => Shows(j)'
    <3>1. \/ UNCHANGED task
          \/ recovery[c] # "reporting" /\ Begin(Recovery(c), "unavailable", None)
          \/ Rests(Feed(c)) /\ \E does, a : Begin(Feed(c), does, a)
      BY <2>3 DEF Living, ProviderDies, RecoveryReports, RecoveryEnds, CandidateStops,
                  CandidateForgotten, Publishes
    <3>2. recovery[c] # "reporting" => Rests(Recovery(c))
      BY DEF SupervisionInv, TaskInv
    <3>. QED  BY <2>1, <3>1, <3>2, TaskKinds DEF Shows
  <2>. QED  BY <2>2, <2>3
<1>3. Settled' => Settled
  BY <1>1, <1>2 DEF Settled
<1>. QED  BY <1>1, <1>3, RecordKept

LEMMA ReplayingRecord ==
    ASSUME TypeOK, ShownInv, RecordInv, Replaying
    PROVE  RecordInv'
<1>0. UNCHANGED <<main, session, writing, task>>
  BY DEF Replaying, CacheLoads, ReplayBegins, ReplayChecks, ReplayDeletes, ReplayShown,
         ReplayEnds, Enqueue, mainVars, sessionVars
<1>1. CASE ReplayShown
  <2>1. Enqueue(Replay, "kept", "cached") /\ quotaStatus' = "cached"
    BY <1>1 DEF ReplayShown, ShownInv, shownVars
  <2>. QED  BY <1>0, <2>1, RecordKept
<1>2. CASE ReplayChecks /\ replay' = "show"
  <2>1. ~Settled' /\ UNCHANGED queue
    BY <1>2 DEF Settled, ReplayChecks, sessionVars
  <2>. QED  BY <1>0, <2>1, RecordKept
<1>3. CASE UNCHANGED <<queue, quotaStatus, crossed>> /\ replay # "show"
  <2>1. Settled' => Settled
    BY <1>0, <1>3 DEF Settled, Shows
  <2>. QED  BY <1>0, <1>3, <2>1, RecordKept
<1>4. CASE CacheLoads
  <2>1. UNCHANGED <<queue, quotaStatus, crossed, replay>>
    BY <1>4 DEF CacheLoads, sessionVars, shownVars
  <2>2. Settled' => Settled
    BY <1>0, <2>1 DEF Settled, Shows
  <2>. QED  BY <1>0, <2>1, <2>2, RecordKept
<1>. QED  BY <1>1, <1>2, <1>3, <1>4 DEF Replaying, ReplayBegins, ReplayChecks, ReplayDeletes,
             ReplayEnds, sessionVars, shownVars

(* daemonCommand itself.                                                   *)
LEMMA CommandingRecord ==
    ASSUME TypeOK, RecordInv, Commanding
    PROVE  RecordInv'
<1>0. UNCHANGED <<writing, task, quotaStatus, crossed>> /\ main' # "startBridge"
  BY DEF Commanding, BridgeStarts, StartupFails, WatcherFailedEarly, Fails, Ready, Stops,
         ShutdownBegins, ReplayAwaited, StartAwaited, CoordinatorAwaited, CleanedUp, WritesAwaited,
         RemoveSession, Enqueue, shownVars, sessionVars
<1>1. CASE BridgeStarts
  <2>1. Enqueue(Main, "ready", quotaStatus)
    BY <1>1 DEF BridgeStarts
  <2>2. Tells(queue', session.quota, quotaStatus) /\ UNCHANGED session
    BY <2>1, TellsEnqueued DEF Enqueue
  <2>. QED  BY <1>0, <2>2 DEF RecordInv
<1>2. CASE StartupFails \/ WatcherFailedEarly
  <2>1. Unready /\ main' \notin {"recordReady", "serve"}
    BY <1>2 DEF StartupFails, WatcherFailedEarly, Fails, RecordInv
  <2>2. UNCHANGED sessionVars \/ Enqueue(Main, "error", "kept")
    BY <1>2 DEF StartupFails, WatcherFailedEarly, Fails
  <2>3. UNCHANGED session /\ \A i \in DOMAIN queue' : queue'[i].status \in {"error", "kept"}
    <3>1. CASE UNCHANGED sessionVars
      BY <2>1, <3>1 DEF Unready, sessionVars
    <3>2. CASE Enqueue(Main, "error", "kept")
      <4>1. /\ DOMAIN queue' = DOMAIN queue \cup {Len(queue) + 1}
            /\ \A i \in DOMAIN queue : queue'[i] = queue[i]
            /\ queue'[Len(queue) + 1].status = "error"
        BY <3>2, Enqueued
      <4>. QED  BY <2>1, <3>2, <4>1 DEF Unready, Enqueue
    <3>. QED  BY <2>2, <3>1, <3>2
  <2>. QED  BY <1>0, <2>1, <2>3 DEF RecordInv, Unready
<1>3. ASSUME UNCHANGED replay PROVE Settled' => Settled
  BY <1>0, <1>3 DEF Settled, Shows
<1>4. CASE Stops
  <2>1. /\ main = "serve" /\ main' = "recordStop" /\ UNCHANGED replay
        /\ \E status : Enqueue(Main, status, "kept")
    BY <1>4 DEF Stops, replayVars
  <2>2. UNCHANGED session
    BY <2>1 DEF Enqueue
  <2>. QED  BY <1>0, <1>3, <2>1, <2>2, RecordKept
<1>5. CASE RemoveSession
  <2>1. /\ session'.status = session.status /\ session'.quota = session.quota
        /\ ~session'.exists /\ main' = "ended"
        /\ UNCHANGED <<queue, replay>>
    BY <1>5 DEF RemoveSession, TypeOK, Records, replayVars
  <2>. QED  BY <1>0, <1>3, <2>1, RecordKept
<1>6. CASE \/ Ready \/ ShutdownBegins \/ ReplayAwaited \/ StartAwaited \/ CoordinatorAwaited
           \/ CleanedUp \/ WritesAwaited
  <2>1. /\ UNCHANGED <<session, queue, replay>>
        /\ main' \in {"recordReady", "serve"} => main \in {"recordReady", "serve"}
    BY <1>6 DEF Ready, ShutdownBegins, ReplayAwaited, StartAwaited, CoordinatorAwaited, CleanedUp,
                WritesAwaited, sessionVars, replayVars
  <2>. QED  BY <1>0, <1>3, <2>1, RecordKept
<1>. QED  BY <1>1, <1>2, <1>4, <1>5, <1>6 DEF Commanding

(* The updates themselves.                                                 *)
LEMMA UpdatingRecord ==
    ASSUME TypeInv, RecordInv, Updating
    PROVE  RecordInv'
<1>0. UNCHANGED <<main, task, replay, quotaStatus, crossed>>
  BY DEF Updating, UpdateReads, UpdateWrites, mainVars, replayVars, shownVars
<1>1. ASSUME queue # <<>>, Dequeue, Unready,
             \/ session'.status = session.status
             \/ session'.status = Head(queue).status /\ Head(queue).status # "kept"
      PROVE  Unready'
  <2>1. /\ \A i \in DOMAIN queue' : i + 1 \in DOMAIN queue /\ queue'[i] = queue[i + 1]
        /\ 1 \in DOMAIN queue /\ Head(queue) = queue[1]
    BY <1>1, Dequeued DEF TypeInv
  <2>. QED  BY <1>0, <1>1, <2>1 DEF Unready
<1>2. CASE UpdateReads /\ session.exists
  BY <1>0, <1>2 DEF UpdateReads, RecordInv, Unready, Gone, Settled, Shows
<1>3. CASE UpdateReads /\ ~session.exists
  <2>1. queue # <<>> /\ Dequeue /\ UNCHANGED session /\ writing' = None
    BY <1>3 DEF UpdateReads
  <2>2. Gone' /\ (Unready => Unready')
    BY <1>1, <1>3, <2>1 DEF Gone
  <2>. QED  BY <1>0, <2>1, <2>2 DEF RecordInv
<1>4. CASE UpdateWrites
  <2>1. /\ queue # <<>> /\ Dequeue /\ writing' = None /\ writing # None
        /\ session' = Patched(writing, Head(queue))
        /\ writing.status = session.status /\ writing.quota = session.quota
    BY <1>4 DEF UpdateWrites, TypeInv, WritingInv, RecordInv
  <2>2. /\ session'.status = IF Head(queue).status = "kept" THEN session.status
                             ELSE Head(queue).status
        /\ session'.quota = IF Head(queue).quota = "kept" THEN session.quota
                            ELSE Head(queue).quota
    BY <2>1 DEF Patched
  <2>3. Unready => Unready'
    BY <1>1, <2>1, <2>2
  <2>4. ASSUME Tells(queue, session.quota, quotaStatus)
        PROVE  Tells(queue', session'.quota, quotaStatus')
    <3>1. quotaStatus # "kept"
      BY DEF TypeInv, TypeOK, QuotaStatuses
    <3>2. Tells(queue', IF Head(queue).quota = "kept" THEN session.quota ELSE Head(queue).quota,
                quotaStatus)
      BY <2>1, <2>4, <3>1, TellsDequeued DEF TypeInv
    <3>. QED  BY <1>0, <2>2, <3>2
  <2>5. ~Gone /\ (Settled' => Settled)
    BY <1>0, <2>1 DEF Gone, Settled, Shows
  <2>. QED  BY <1>0, <2>1, <2>3, <2>4, <2>5 DEF RecordInv
<1>. QED  BY <1>2, <1>3, <1>4 DEF Updating

LEMMA NextRecord ==
    ASSUME TypeInv, SupervisionInv, ShownInv, RecordInv, [Next]_vars
    PROVE  RecordInv'
<1>1. CASE Beat
  <2>1. /\ Enqueue(Nobody, "kept", "kept")
        /\ UNCHANGED <<main, task, replay, session, writing, quotaStatus, crossed>>
    BY <1>1 DEF Beat, Enqueue, mainVars, replayVars, shownVars
  <2>2. Settled' => Settled
    BY <2>1 DEF Settled, Shows
  <2>. QED  BY <2>1, <2>2, RecordKept DEF TypeInv
<1>2. CASE Signals \/ AccountChanges \/ UNCHANGED vars
  <2>1. UNCHANGED <<main, task, replay, session, writing, queue, quotaStatus, crossed>>
    BY <1>2 DEF Signals, StopSignalled, AccountChanges, vars, mainVars, replayVars, shownVars,
                sessionVars
  <2>2. Settled' => Settled
    BY <2>1 DEF Settled, Shows
  <2>. QED  BY <2>1, <2>2, RecordKept DEF TypeInv
<1>. QED  BY <1>1, <1>2, TaskStepsRecord, SupervisionRecord, ReplayingRecord, CommandingRecord,
            UpdatingRecord DEF Next, TypeInv

LEMMA RecordTells ==
    ASSUME ShownInv, RecordInv
    PROVE  RecordTellsWhatIsShown
<1>. SUFFICES ASSUME ~crossed, session.exists, session.status \in {"ready", "stopping"}, queue = <<>>,
                     ReplayOver, \A k \in Tasks : Rests(k)
              PROVE  session.quota = quotaStatus
  BY DEF RecordTellsWhatIsShown, ShownInv
<1>1. ~Unready /\ ~Gone
  BY DEF Unready, Gone
<1>2. Settled
  BY DEF Settled, Shows, Rests, Resting, ReplayOver
<1>3. DOMAIN queue = {}
  OBVIOUS
<1>. QED  BY <1>1, <1>2, <1>3 DEF RecordInv, Tells

(* When nothing is under way, session.json tells what the panels show,     *)
(* unless the last publication shown contradicts one that had been shown   *)
(* and not recorded: the report of a provider that closed, and the figures *)
(* of the next one.                                                        *)
THEOREM RecordTellsWhatIsShownHolds == Spec => []RecordTellsWhatIsShown
<1>. DEFINE Inv == ShownInv /\ RecordInv
<1>1. Init => Inv
  BY InitShown, InitRecord
<1>2. TypeInv /\ SupervisionInv /\ Inv /\ [Next]_vars => Inv'
  BY NextShown, NextRecord DEF TypeInv
<1>3. Inv => RecordTellsWhatIsShown
  BY RecordTells
<1>. HIDE DEF Inv
<1>. QED  BY Supervision, <1>1, <1>2, <1>3, PTL DEF Spec

-----------------------------------------------------------------------------
(* With one candidate publications never contradict each other: the        *)
(* exception needs two of them.                                            *)

(* Publications that are under way at once tell the same.                  *)
Agree ==
    \A j, k \in Tasks : Shows(j) /\ Shows(k) => Reports(task[j].does) = Reports(task[k].does)

AloneInv ==
    /\ \A c \in Candidates :
          /\ recovery[c] # "none" => coordinator # c
          /\ recovery[c] = "reporting" => candidate[c] = "stopped"
          /\ ~Rests(Feed(c)) => ~retry /\ start.at \in {"none", "starting"}
          /\ ~Rests(Recovery(c)) => task[Recovery(c)].does = "unavailable"
    /\ ~Rests(Start) => task[Start].does = "unavailable"

LEMMA InitAlone == Init => AloneInv
BY TaskKinds, NoneIsNoCandidate DEF Init, AloneInv, Rests

LEMMA AloneUnchanged ==
    ASSUME TypeOK, AloneInv, UNCHANGED supervisionVars,
           \A k \in Tasks : Rests(k)' \/ (~Rests(k) /\ task'[k].does = task[k].does)
    PROVE  AloneInv'
BY TaskKinds DEF AloneInv, supervisionVars

LEMMA TaskStepsAlone ==
    ASSUME TypeOK, AloneInv, NEW k \in Tasks, TaskSteps(k)
    PROVE  AloneInv'
<1>1. UNCHANGED supervisionVars
  BY DEF TaskSteps, TaskShows, TaskShown, TaskStats, TaskWrites, TaskDeletes, TaskEnds
<1>2. ~Rests(k)
  BY DEF TaskSteps, TaskShows, TaskShown, TaskStats, TaskWrites, TaskDeletes, TaskEnds, Rests,
         Resting
<1>3. \/ Ends(k)
      \/ TaskStats(k)
      \/ \E stage : Goes(k, stage)
  BY DEF TaskSteps, TaskShows, TaskShown, TaskWrites, TaskDeletes, TaskEnds, RecordsStatus
<1>4. /\ \A j \in Tasks \ {k} : task'[j] = task[j]
      /\ task'[k] = Resting \/ task'[k].does = task[k].does
  <2>1. CASE Ends(k)
    BY <2>1 DEF Ends, TypeOK
  <2>. QED  BY <1>3, <2>1, GoesMeans, StatsMeans
<1>5. \A j \in Tasks : Rests(j)' \/ (~Rests(j) /\ task'[j].does = task[j].does)
  BY <1>2, <1>4 DEF Rests
<1>. QED  BY <1>1, <1>5, AloneUnchanged

LEMMA StartingAlone ==
    ASSUME NEW only, Candidates = {only}, TypeOK, SupervisionInv, AloneInv, Starting
    PROVE  AloneInv'
<1>. USE TaskKinds, TasksDiffer, NoneIsNoCandidate
     DEF Rests, SupervisionInv, Supervised, ChargeInv, StoppingInv, TaskInv, OneProviderAtWork,
         AloneInv, TypeOK
<1>1. CASE StartResolvesNothing
  BY <1>1, StartEndsMeans DEF StartResolvesNothing, Begin
<1>2. CASE StartReturns
  <2>1. /\ start.of = only /\ Rests(Feed(only)) /\ UNCHANGED <<task, recovery>>
        /\ candidate[only] # "stopped" \/ UNCHANGED candidate
        /\ coordinator' \in {coordinator, None}
    BY <1>2 DEF StartReturns
  <2>2. candidate' = candidate \/ candidate[only] = "running"
    BY <1>2, <2>1 DEF StartReturns
  <2>. QED  BY <2>1, <2>2
<1>3. CASE StartGivesUp
  BY <1>3, StartEndsMeans DEF StartGivesUp, Begin
<1>4. CASE StartReported
  BY <1>4, StartEndsMeans DEF StartReported
<1>5. CASE RetryElapses
  BY <1>5 DEF RetryElapses
<1>6. CASE \E c \in Candidates : StartResolves(c)
  BY <1>6 DEF StartResolves
<1>7. CASE \E c \in Candidates : ProviderStarts(c)
  BY <1>7 DEF ProviderStarts
<1>8. CASE \E c \in Candidates : ProviderStartFails(c)
  BY <1>8 DEF ProviderStartFails
<1>. QED  BY <1>1, <1>2, <1>3, <1>4, <1>5, <1>6, <1>7, <1>8 DEF Starting

LEMMA LivingAlone ==
    ASSUME NEW only, Candidates = {only}, TypeOK, SupervisionInv, AloneInv,
           NEW c \in Candidates, Living(c)
    PROVE  AloneInv'
<1>. USE TaskKinds, TasksDiffer, NoneIsNoCandidate
     DEF Rests, SupervisionInv, Supervised, ChargeInv, StoppingInv, TaskInv, OneProviderAtWork,
         AloneInv, TypeOK
<1>1. CASE ProviderDies(c)
  BY <1>1 DEF ProviderDies
<1>2. CASE RecoveryReports(c)
  BY <1>2 DEF RecoveryReports, Begin
<1>3. CASE RecoveryEnds(c)
  BY <1>3 DEF RecoveryEnds
<1>4. CASE CandidateStops(c)
  BY <1>4 DEF CandidateStops
<1>5. CASE CandidateForgotten(c)
  BY <1>5 DEF CandidateForgotten
<1>6. CASE \E does \in {"live", "unbound", "unstable", "unavailable"} : Publishes(c, does)
  <2>1. coordinator = c /\ ~retry /\ start.at \in {"none", "starting"}
    BY <1>6 DEF Publishes
  <2>2. UNCHANGED <<start, coordinator, retry, candidate, recovery>>
    BY <1>6 DEF Publishes, supervisionVars
  <2>3. \A k \in Tasks \ {Feed(c)} : task'[k] = task[k]
    <3>1. PICK does, a : Begin(Feed(c), does, a)
      BY <1>6, Zenon DEF Publishes
    <3>. QED  BY <3>1 DEF Begin
  <2>. QED  BY <2>1, <2>2, <2>3
<1>. QED  BY <1>1, <1>2, <1>3, <1>4, <1>5, <1>6 DEF Living

LEMMA CommandingAlone ==
    ASSUME NEW only, Candidates = {only}, TypeOK, SupervisionInv, AloneInv, Commanding
    PROVE  AloneInv'
<1>1. CASE BridgeStarts \/ WatcherFailedEarly
  <2>1. /\ UNCHANGED <<task, coordinator, candidate, recovery>>
        /\ \A k \in Tasks : Rests(k)
    BY <1>1, NothingPublishedEarly DEF BridgeStarts, WatcherFailedEarly, Fails
  <2>. QED  BY <2>1, TaskKinds DEF AloneInv, Rests
<1>2. CASE StartAwaited
  BY <1>2, NoneIsNoCandidate
     DEF StartAwaited, AloneInv, SupervisionInv, StoppingInv, Rests, TypeOK
<1>3. CASE CoordinatorAwaited
  BY <1>3, NoneIsNoCandidate DEF CoordinatorAwaited, AloneInv, Rests
<1>4. CASE /\ UNCHANGED <<task, start, coordinator, candidate, recovery>>
           /\ retry' = retry \/ ~retry'
  BY <1>4 DEF AloneInv, Rests
<1>5. \/ BridgeStarts \/ WatcherFailedEarly \/ StartAwaited \/ CoordinatorAwaited
      \/ /\ UNCHANGED <<task, start, coordinator, candidate, recovery>>
         /\ retry' = retry \/ ~retry'
  BY DEF Commanding, StartupFails, Fails, Ready, Stops, ShutdownBegins, ReplayAwaited, CleanedUp,
         WritesAwaited, RemoveSession, supervisionVars
<1>. QED  BY <1>1, <1>2, <1>3, <1>4, <1>5

LEMMA NextAlone ==
    ASSUME NEW only, Candidates = {only}, TypeOK, SupervisionInv, AloneInv, [Next]_vars
    PROVE  AloneInv'
<1>1. CASE Replaying \/ Updating \/ Beat \/ Signals \/ AccountChanges \/ UNCHANGED vars
  <2>1. UNCHANGED <<supervisionVars, task>>
    BY <1>1 DEF Replaying, CacheLoads, ReplayBegins, ReplayChecks, ReplayDeletes, ReplayShown,
                ReplayEnds, Updating, UpdateReads, UpdateWrites, Beat, Signals, StopSignalled,
                AccountChanges, vars
  <2>. QED  BY <2>1, AloneUnchanged DEF Rests
<1>. QED  BY <1>1, TaskStepsAlone, StartingAlone, LivingAlone, CommandingAlone DEF Next

LEMMA AloneAgrees ==
    ASSUME NEW only, Candidates = {only}, SupervisionInv, AloneInv
    PROVE  Agree
<1>1. \A k \in Tasks : Shows(k) => ~Rests(k)
  BY DEF Shows, Rests, Resting
<1>2. CASE ~Rests(Feed(only))
  <2>1. Rests(Recovery(only)) /\ Rests(Start)
    BY <1>2 DEF SupervisionInv, TaskInv, AloneInv
  <2>. QED  BY <1>1, <2>1 DEF Agree, Tasks
<1>3. CASE Rests(Feed(only))
  BY <1>1, <1>3 DEF Agree, AloneInv, Tasks
<1>. QED  BY <1>2, <1>3

(* A step shows what contradicts the rest only in a state where            *)
(* publications disagree.                                                  *)
LEMMA CrossedDisagrees ==
    ASSUME TypeOK, ~crossed, [Next]_vars, Agree'
    PROVE  ~crossed'
<1>1. ASSUME NEW k \in Tasks, TaskShows(k), task[k].does # "unstable"
      PROVE  ~crossed'
  <2>1. Goes(k, "show") /\ crossed' = Contradicts(k) /\ task[k].at = "awaitReplay"
    BY <1>1 DEF TaskShows
  <2>2. /\ task'[k].at = "show" /\ task'[k].does = task[k].does
        /\ \A j \in Tasks \ {k} : task'[j] = task[j]
    BY <2>1, GoesMeans
  <2>3. Shows(k)' /\ ~Shows(k) /\ \A j \in Tasks \ {k} : Shows(j)' <=> Shows(j)
    BY <1>1, <2>1, <2>2 DEF Shows
  <2>. QED  BY <2>1, <2>2, <2>3 DEF Agree, Contradicts
<1>2. CASE \E k \in Tasks : TaskSteps(k)
  BY <1>1, <1>2 DEF TaskSteps, TaskShows, TaskShown, TaskStats, TaskWrites, TaskDeletes, TaskEnds,
                    shownVars
<1>3. CASE Starting \/ \E c \in Candidates : Living(c)
  BY <1>3 DEF Living, ProviderDies, RecoveryReports, RecoveryEnds, CandidateStops,
              CandidateForgotten, Publishes, Starting, StartResolvesNothing, StartReturns,
              StartGivesUp, StartReported, RetryElapses, StartResolves, ProviderStarts,
              ProviderStartFails, shownVars
<1>4. CASE Commanding
  BY <1>4 DEF Commanding, BridgeStarts, StartupFails, WatcherFailedEarly, Fails, Ready, Stops,
              ShutdownBegins, ReplayAwaited, StartAwaited, CoordinatorAwaited, CleanedUp,
              WritesAwaited, RemoveSession, shownVars
<1>5. CASE Replaying \/ Updating \/ Beat \/ Signals \/ AccountChanges \/ UNCHANGED vars
  BY <1>5 DEF Replaying, CacheLoads, ReplayBegins, ReplayChecks, ReplayDeletes, ReplayShown,
              ReplayEnds, Updating, UpdateReads, UpdateWrites, Beat, Signals, StopSignalled,
              AccountChanges, shownVars, vars
<1>. QED  BY <1>2, <1>3, <1>4, <1>5 DEF Next

(* The exception of RecordTellsWhatIsShown is met only where one candidate *)
(* is given up beside another at work.                                     *)
THEOREM NeverCrossedAlone ==
    ASSUME NEW only, Candidates = {only}
    PROVE  Spec => []~crossed
<1>1. Init => AloneInv /\ ~crossed
  BY InitAlone DEF Init
<1>2. TypeInv /\ SupervisionInv /\ AloneInv /\ [Next]_vars => AloneInv'
  BY NextAlone DEF TypeInv
<1>3. SupervisionInv /\ AloneInv => Agree
  BY AloneAgrees
<1>4. TypeInv /\ ~crossed /\ [Next]_vars /\ Agree' => ~crossed'
  BY CrossedDisagrees DEF TypeInv
<1>. QED  BY Supervision, <1>1, <1>2, <1>3, <1>4, PTL DEF Spec
=============================================================================
