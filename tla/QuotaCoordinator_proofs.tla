----------------------- MODULE QuotaCoordinator_proofs -----------------------
(***************************************************************************)
(* Proofs about QuotaCoordinator, for every number of retry delays and     *)
(* every number of account changes: its type invariant, an inductive       *)
(* invariant that implies each safety invariant of the module, and the     *)
(* safety half of its implementing QuotaFeed.                              *)
(***************************************************************************)
EXTENDS QuotaCoordinator, TLAPS

(* RoundEnds, Fails and Refresh keep the types of what they assign.        *)
LEMMA RoundEndsType ==
    ASSUME TypeOK, NEW waiting \in BOOLEAN, RoundEnds(waiting)
    PROVE  /\ phase' \in Phases
           /\ read' = NoRead
           /\ queuedReason' \in BOOLEAN
           /\ retryWaiting' \in BOOLEAN
           /\ driver' \in {"starting", "awaiting", "delay", "ended"}
BY DEF TypeOK, RoundEnds, NextRound, Settles, Phases

LEMMA NoReadType == NoRead \in [before : Contexts, snapshot : Contexts, after : Contexts]
BY DEF NoRead, Contexts

LEMMA RecordFailureType ==
    ASSUME TypeOK, RecordFailure
    PROVE  /\ consecutiveFailures' \in 0..RetryDelays
           /\ retryTimer' = consecutiveFailures'
           /\ RetryDelays # 0 => retryTimer' # 0
           /\ RetryDelays = 0 => consecutiveFailures' = 0
BY RetryDelaysAssumption DEF TypeOK, RecordFailure

LEMMA FailsType ==
    ASSUME TypeOK, Fails
    PROVE  /\ phase' \in Phases
           /\ read' = NoRead
           /\ queuedReason' \in BOOLEAN
           /\ retryWaiting' \in BOOLEAN
           /\ driver' \in {"starting", "awaiting", "delay", "ended"}
           /\ consecutiveFailures' \in 0..RetryDelays
           /\ retryTimer' \in 0..RetryDelays
<1>1. CASE ~Running
  BY <1>1, RoundEndsType DEF Fails, TypeOK
<1>2. CASE Running
  <2>1. RecordFailure
    BY <1>2 DEF Fails
  <2>2. consecutiveFailures' \in 0..RetryDelays /\ retryTimer' \in 0..RetryDelays
    BY <2>1, RecordFailureType
  <2>3. CASE ReportsUnavailable
    BY <1>2, <2>2, <2>3 DEF Fails, TypeOK, Phases
  <2>4. CASE ~ReportsUnavailable
    BY <1>2, <2>2, <2>4, RoundEndsType DEF Fails
  <2>. QED  BY <2>3, <2>4
<1>. QED  BY <1>1, <1>2

LEMMA RefreshType ==
    ASSUME TypeOK, Refresh
    PROVE  phase' \in Phases /\ queuedReason' \in BOOLEAN
BY DEF TypeOK, Refresh, Queue, Phases

LEMMA InitType == Init => TypeOK
<1>. SUFFICES ASSUME Init
              PROVE  TypeOK
  OBVIOUS
<1>1. 0 \in 0..RetryDelays /\ 0 \in Accounts
  BY RetryDelaysAssumption, MaxAccountAssumption DEF Accounts
<1>. QED  BY <1>1, NoReadType DEF Init, TypeOK, Phases

LEMMA TypeStep ==
    ASSUME TypeOK, [Next]_vars
    PROVE  TypeOK'
<1>. USE DEF stopVars, streakVars, retryVars, envVars
<1>1. CASE Refreshing
  <2>1. CASE ContextBeforeCaptured
    <3>1. read' \in [before : Contexts, snapshot : Contexts, after : Contexts]
      <4>1. PICK context \in Captured : read' = [read EXCEPT !.before = context]
        BY <2>1 DEF ContextBeforeCaptured
      <4>2. context \in Contexts
        BY <4>1 DEF TypeOK, Captured, Contexts
      <4>. QED  BY <4>1, <4>2 DEF TypeOK
    <3>2. owed' \in BOOLEAN
      BY <2>1, Zenon DEF ContextBeforeCaptured
    <3>. QED  BY <2>1, <3>1, <3>2 DEF ContextBeforeCaptured, TypeOK, Phases
  <2>2. CASE ReadReturns
    BY <2>2 DEF ReadReturns, TypeOK, Phases
  <2>3. CASE ReadFails
    BY <2>3, FailsType, NoReadType DEF ReadFails, TypeOK
  <2>4. CASE ContextAfterCaptured /\ ~Running
    BY <2>4, RoundEndsType, NoReadType DEF ContextAfterCaptured, TypeOK
  <2>5. CASE ContextAfterCaptured /\ Running
    <3>1. PICK context \in Captured :
             /\ read' = [read EXCEPT !.after = context]
             /\ queuedReason' = (queuedReason \/ ~SameContext(read.before, context))
      BY <2>5 DEF ContextAfterCaptured
    <3>2. context \in Contexts
      BY <3>1 DEF TypeOK, Captured, Contexts
    <3>3. read' \in [before : Contexts, snapshot : Contexts, after : Contexts]
      BY <3>1, <3>2 DEF TypeOK
    <3>. QED  BY <2>5, <3>1, <3>3 DEF ContextAfterCaptured, TypeOK, Phases
  <2>6. CASE Published
    <3>1. RoundEnds(FALSE)
      BY <2>6 DEF Published
    <3>2. /\ consecutiveFailures' \in {0, consecutiveFailures}
          /\ retryTimer' \in {0, retryTimer}
          /\ lastSuccess' \in {"recent", lastSuccess}
      BY <2>6, Zenon DEF Published, RecordSuccess
    <3>3. /\ consecutiveFailures' \in 0..RetryDelays
          /\ retryTimer' \in 0..RetryDelays
          /\ lastSuccess' \in {"never", "recent", "stale"}
      BY <3>2, RetryDelaysAssumption DEF TypeOK
    <3>4. unavailablePublished' \in BOOLEAN /\ resetTimer' \in BOOLEAN
      BY <2>6, Zenon DEF Published, RecordSuccess, ScheduleResetRefresh, TypeOK
    <3>. QED  BY <2>6, <3>1, <3>3, <3>4, RoundEndsType, NoReadType
              DEF Published, TypeOK
  <2>7. CASE Discarded
    BY <2>7, RoundEndsType, NoReadType DEF Discarded, TypeOK
  <2>8. CASE PublishThrows
    BY <2>8, FailsType, NoReadType DEF PublishThrows, TypeOK
  <2>9. CASE UnavailablePublished
    BY <2>9, RoundEndsType, NoReadType DEF UnavailablePublished, TypeOK
  <2>10. CASE UnavailableThrows
    BY <2>10, RoundEndsType, NoReadType DEF UnavailableThrows, TypeOK
  <2>. QED  BY <1>1, <2>1, <2>2, <2>3, <2>4, <2>5, <2>6, <2>7, <2>8, <2>9, <2>10
            DEF Refreshing
<1>2. CASE Lifetime
  <2>1. CASE StartSucceeds
    BY <2>1, RefreshType DEF StartSucceeds, TypeOK
  <2>2. CASE StartFails
    BY <2>2 DEF StartFails, TypeOK
  <2>3. CASE Stop
    <3>1. retryWaiting' \in BOOLEAN /\ resetTimer' \in BOOLEAN /\ subscribed' \in BOOLEAN
      BY <2>3, Zenon DEF Stop
    <3>. QED  BY <2>3, <3>1, RetryDelaysAssumption DEF Stop, TypeOK
  <2>4. CASE ProviderCloses
    BY <2>4 DEF ProviderCloses, TypeOK
  <2>5. CASE StopSettles
    BY <2>5 DEF StopSettles, TypeOK
  <2>. QED  BY <1>2, <2>1, <2>2, <2>3, <2>4, <2>5 DEF Lifetime
<1>3. CASE Triggers
  <2>1. CASE Changed
    BY <2>1, RefreshType DEF Changed, TypeOK
  <2>2. CASE PollElapses
    BY <2>2, RefreshType DEF PollElapses, TypeOK
  <2>3. CASE RetryElapses
    <3>1. phase' \in Phases /\ queuedReason' \in BOOLEAN /\ retryWaiting' \in BOOLEAN
      BY <2>3, RefreshType DEF RetryElapses, TypeOK
    <3>. QED  BY <2>3, <3>1, RetryDelaysAssumption DEF RetryElapses, TypeOK
  <2>4. CASE ResetElapses
    <3>1. resetTimer' \in BOOLEAN
      BY <2>4, Zenon DEF ResetElapses
    <3>. QED  BY <2>4, <3>1, RefreshType DEF ResetElapses, TypeOK
  <2>. QED  BY <1>3, <2>1, <2>2, <2>3, <2>4 DEF Triggers
<1>4. CASE World
  <2>1. CASE ServerAnswers
    BY <2>1 DEF ServerAnswers, TypeOK, Contexts
  <2>2. CASE SuccessGrowsStale
    BY <2>2 DEF SuccessGrowsStale, TypeOK
  <2>3. CASE AccountChanges
    BY <2>3, MaxAccountAssumption DEF AccountChanges, TypeOK, Accounts
  <2>4. CASE HealthChanges
    BY <2>4 DEF HealthChanges, TypeOK
  <2>. QED  BY <1>4, <2>1, <2>2, <2>3, <2>4 DEF World
<1>5. CASE UNCHANGED vars
  BY <1>5 DEF vars, TypeOK
<1>. QED  BY <1>1, <1>2, <1>3, <1>4, <1>5 DEF Next

(* Every variable stays in its type, whatever the order in which timers,   *)
(* notifications, answers and stop() reach the coordinator.                *)
THEOREM TypeCorrect == Spec => []TypeOK
<1>1. TypeOK /\ [Next]_vars => TypeOK'
  BY TypeStep
<1>. QED  BY InitType, <1>1, PTL DEF Spec

-----------------------------------------------------------------------------
(* The inductive invariant.  The safety invariants of QuotaCoordinator are *)
(* consequences of it, but not inductive alone:                            *)
(*   - the retry chain survives a discarded snapshot only because an       *)
(*     unstable context has queued another round, and a report of          *)
(*     unavailability only because its retry is already on its way;        *)
(*   - nothing runs after stop() because stop() cleared the timers and     *)
(*     nothing arms one afterwards;                                        *)
(*   - a snapshot lies between the two contexts captured around it.        *)

DiscardedIsReadAgain ==
    phase = "publishing" /\ Running /\ ~ContextStable => queuedReason

ReportedIsRetried ==
    phase = "publishingUnavailable" /\ Running /\ consecutiveFailures # 0 =>
        retryTimer # 0 \/ retryWaiting

StoppedIsDisarmed ==
    ~Running => /\ retryTimer = 0 /\ ~retryWaiting /\ ~resetTimer
                /\ driver # "delay"

StopAwaitsTheLoop == stop = "stopped" => phase = "idle"

ReadInOrder ==
    /\ phase \in {"idle", "contextBefore", "publishingUnavailable"} => read = NoRead
    /\ phase \in {"contextAfter", "publishing"} => read.snapshot # NoContext
    /\ read.before # NoContext => read.before <= account
    /\ read.snapshot # NoContext => read.snapshot <= account
    /\ read.before # NoContext /\ read.snapshot # NoContext =>
          read.before <= read.snapshot
    /\ read.after # NoContext =>
          read.snapshot # NoContext /\ read.snapshot <= read.after

ReportsAreStale ==
    /\ shown = "unavailable" => unavailablePublished /\ lastSuccess # "recent"
    /\ phase = "publishingUnavailable" => shown # "unavailable" /\ lastSuccess # "recent"

LoopInv ==
    /\ NoChangeLost
    /\ RetryChain
    /\ NobodyWaitsForever
    /\ DiscardedIsReadAgain
    /\ ReportedIsRetried
    /\ StoppedIsDisarmed
    /\ StopAwaitsTheLoop

Inv == TypeOK /\ LoopInv /\ ReadInOrder /\ ReportsAreStale

(* The loop, its queue, the timers and stop().                             *)
LEMMA LoopStep ==
    ASSUME TypeOK, LoopInv, [Next]_vars
    PROVE  LoopInv'
<1>. USE DEF stopVars, streakVars, retryVars, envVars, LoopInv, NoChangeLost, RetryChain,
             NobodyWaitsForever, DiscardedIsReadAgain, ReportedIsRetried,
             StoppedIsDisarmed, StopAwaitsTheLoop, Running, ContextStable, SameContext
<1>1. CASE Refreshing
  <2>1. CASE ContextBeforeCaptured
    BY <2>1, RetryDelaysAssumption DEF ContextBeforeCaptured, TypeOK
  <2>2. CASE ReadReturns
    BY <2>2, RetryDelaysAssumption DEF ReadReturns, TypeOK
  <2>3. CASE ReadFails
    BY <2>3, RetryDelaysAssumption
       DEF ReadFails, TypeOK, Fails, RecordFailure, RoundEnds, NextRound, Settles
  <2>4. CASE ContextAfterCaptured
    <3>1. CASE ~Running
      BY <2>4, <3>1, RetryDelaysAssumption
         DEF ContextAfterCaptured, TypeOK, RoundEnds, NextRound, Settles
    <3>2. CASE Running
      <4>1. PICK context \in Captured :
               /\ read' = [read EXCEPT !.after = context]
               /\ queuedReason' = (queuedReason \/ ~SameContext(read.before, context))
        BY <2>4, <3>2 DEF ContextAfterCaptured
      <4>2. read'.before = read.before /\ read'.after = context
        BY <4>1 DEF TypeOK
      <4>3. DiscardedIsReadAgain'
        BY <4>1, <4>2
      <4>. QED  BY <2>4, <3>2, <4>1, <4>3 DEF ContextAfterCaptured, TypeOK
    <3>. QED  BY <3>1, <3>2
  <2>5. CASE Published
    BY <2>5, RetryDelaysAssumption
       DEF Published, TypeOK, RecordSuccess, RoundEnds, NextRound, Settles
  <2>6. CASE Discarded
    BY <2>6, RetryDelaysAssumption DEF Discarded, TypeOK, RoundEnds, NextRound, Settles
  <2>7. CASE PublishThrows
    BY <2>7, RetryDelaysAssumption
       DEF PublishThrows, TypeOK, Fails, RecordFailure, RoundEnds, NextRound, Settles
  <2>8. CASE UnavailablePublished
    BY <2>8, RetryDelaysAssumption DEF UnavailablePublished, TypeOK, RoundEnds, NextRound, Settles
  <2>9. CASE UnavailableThrows
    BY <2>9, RetryDelaysAssumption DEF UnavailableThrows, TypeOK, RoundEnds, NextRound, Settles
  <2>. QED  BY <1>1, <2>1, <2>2, <2>3, <2>4, <2>5, <2>6, <2>7, <2>8, <2>9 DEF Refreshing
<1>2. CASE Lifetime
  <2>1. CASE StartSucceeds
    BY <2>1, RetryDelaysAssumption DEF StartSucceeds, TypeOK, Refresh, Queue
  <2>2. CASE StartFails
    BY <2>2, RetryDelaysAssumption DEF StartFails, TypeOK
  <2>3. CASE Stop
    BY <2>3, RetryDelaysAssumption DEF Stop, TypeOK
  <2>4. CASE ProviderCloses
    BY <2>4, RetryDelaysAssumption DEF ProviderCloses, TypeOK
  <2>5. CASE StopSettles
    BY <2>5, RetryDelaysAssumption DEF StopSettles, TypeOK
  <2>. QED  BY <1>2, <2>1, <2>2, <2>3, <2>4, <2>5 DEF Lifetime
<1>3. CASE Triggers
  <2>1. CASE Changed
    BY <2>1, RetryDelaysAssumption DEF Changed, TypeOK, Refresh, Queue
  <2>2. CASE PollElapses
    BY <2>2, RetryDelaysAssumption DEF PollElapses, TypeOK, Refresh, Queue
  <2>3. CASE RetryElapses
    BY <2>3, RetryDelaysAssumption DEF RetryElapses, TypeOK, Refresh, Queue
  <2>4. CASE ResetElapses
    BY <2>4, RetryDelaysAssumption DEF ResetElapses, TypeOK, Refresh, Queue
  <2>. QED  BY <1>3, <2>1, <2>2, <2>3, <2>4 DEF Triggers
<1>4. CASE World
  <2>1. CASE ServerAnswers
    BY <2>1, RetryDelaysAssumption DEF ServerAnswers, TypeOK
  <2>2. CASE SuccessGrowsStale
    BY <2>2, RetryDelaysAssumption DEF SuccessGrowsStale, TypeOK
  <2>3. CASE AccountChanges
    BY <2>3, RetryDelaysAssumption DEF AccountChanges, TypeOK
  <2>4. CASE HealthChanges
    BY <2>4, RetryDelaysAssumption DEF HealthChanges, TypeOK
  <2>. QED  BY <1>4, <2>1, <2>2, <2>3, <2>4 DEF World
<1>5. CASE UNCHANGED vars
  BY <1>5 DEF vars, ContextStable
<1>. QED  BY <1>1, <1>2, <1>3, <1>4, <1>5 DEF Next

(* What a round has read, against the account as it moves.                *)
LEMMA ReadStep ==
    ASSUME TypeOK, ReadInOrder, [Next]_vars
    PROVE  ReadInOrder'
<1>. USE DEF stopVars, streakVars, retryVars, envVars, ReadInOrder, NoRead, TypeOK, Contexts,
             Accounts
<1>1. CASE Refreshing
  <2>1. CASE ContextBeforeCaptured
    BY <2>1, NoContextAssumption, MaxAccountAssumption DEF ContextBeforeCaptured, Captured
  <2>2. CASE ReadReturns
    BY <2>2, NoContextAssumption, MaxAccountAssumption DEF ReadReturns
  <2>3. CASE ReadFails
    BY <2>3, NoContextAssumption, MaxAccountAssumption
       DEF ReadFails, Fails, RoundEnds, NextRound, Settles
  <2>4. CASE ContextAfterCaptured
    BY <2>4, NoContextAssumption, MaxAccountAssumption
       DEF ContextAfterCaptured, RoundEnds, NextRound, Settles, Captured
  <2>5. CASE Published
    BY <2>5, NoContextAssumption, MaxAccountAssumption
       DEF Published, RecordSuccess, RoundEnds, NextRound, Settles
  <2>6. CASE Discarded
    BY <2>6, NoContextAssumption, MaxAccountAssumption
       DEF Discarded, RoundEnds, NextRound, Settles
  <2>7. CASE PublishThrows
    BY <2>7, NoContextAssumption, MaxAccountAssumption
       DEF PublishThrows, Fails, RoundEnds, NextRound, Settles
  <2>8. CASE UnavailablePublished
    BY <2>8, NoContextAssumption, MaxAccountAssumption
       DEF UnavailablePublished, RoundEnds, NextRound, Settles
  <2>9. CASE UnavailableThrows
    BY <2>9, NoContextAssumption, MaxAccountAssumption
       DEF UnavailableThrows, RoundEnds, NextRound, Settles
  <2>. QED  BY <1>1, <2>1, <2>2, <2>3, <2>4, <2>5, <2>6, <2>7, <2>8, <2>9 DEF Refreshing
<1>2. CASE Lifetime
  <2>1. CASE StartSucceeds
    BY <2>1, NoContextAssumption, MaxAccountAssumption DEF StartSucceeds, Refresh
  <2>2. CASE StartFails
    BY <2>2, NoContextAssumption, MaxAccountAssumption DEF StartFails
  <2>3. CASE Stop
    BY <2>3, NoContextAssumption, MaxAccountAssumption DEF Stop
  <2>4. CASE ProviderCloses
    BY <2>4, NoContextAssumption, MaxAccountAssumption DEF ProviderCloses
  <2>5. CASE StopSettles
    BY <2>5, NoContextAssumption, MaxAccountAssumption DEF StopSettles
  <2>. QED  BY <1>2, <2>1, <2>2, <2>3, <2>4, <2>5 DEF Lifetime
<1>3. CASE Triggers
  <2>1. CASE Changed
    BY <2>1, NoContextAssumption, MaxAccountAssumption DEF Changed, Refresh
  <2>2. CASE PollElapses
    BY <2>2, NoContextAssumption, MaxAccountAssumption DEF PollElapses, Refresh
  <2>3. CASE RetryElapses
    BY <2>3, NoContextAssumption, MaxAccountAssumption DEF RetryElapses, Refresh
  <2>4. CASE ResetElapses
    BY <2>4, NoContextAssumption, MaxAccountAssumption DEF ResetElapses, Refresh
  <2>. QED  BY <1>3, <2>1, <2>2, <2>3, <2>4 DEF Triggers
<1>4. CASE World
  <2>1. CASE ServerAnswers
    BY <2>1, NoContextAssumption, MaxAccountAssumption DEF ServerAnswers
  <2>2. CASE SuccessGrowsStale
    BY <2>2, NoContextAssumption, MaxAccountAssumption DEF SuccessGrowsStale
  <2>3. CASE AccountChanges
    BY <2>3, NoContextAssumption, MaxAccountAssumption DEF AccountChanges
  <2>4. CASE HealthChanges
    BY <2>4, NoContextAssumption, MaxAccountAssumption DEF HealthChanges
  <2>. QED  BY <1>4, <2>1, <2>2, <2>3, <2>4 DEF World
<1>5. CASE UNCHANGED vars
  BY <1>5 DEF vars
<1>. QED  BY <1>1, <1>2, <1>3, <1>4, <1>5 DEF Next

(* Reports of unavailability, against the age of the figures.              *)
LEMMA ReportStep ==
    ASSUME TypeOK, ReportsAreStale, [Next]_vars
    PROVE  ReportsAreStale'
<1>. USE DEF stopVars, streakVars, retryVars, envVars, ReportsAreStale
<1>1. CASE Refreshing
  <2>1. CASE ContextBeforeCaptured
    BY <2>1 DEF ContextBeforeCaptured
  <2>2. CASE ReadReturns
    BY <2>2 DEF ReadReturns
  <2>3. CASE ReadFails
    BY <2>3 DEF ReadFails, Fails, RoundEnds, NextRound, Settles, ReportsUnavailable
  <2>4. CASE ContextAfterCaptured
    BY <2>4 DEF ContextAfterCaptured, RoundEnds, NextRound, Settles
  <2>5. CASE Published
    BY <2>5 DEF Published, RecordSuccess, RoundEnds, NextRound, Settles
  <2>6. CASE Discarded
    BY <2>6 DEF Discarded, RoundEnds, NextRound, Settles
  <2>7. CASE PublishThrows
    BY <2>7 DEF PublishThrows, Fails, RoundEnds, NextRound, Settles, ReportsUnavailable
  <2>8. CASE UnavailablePublished
    BY <2>8 DEF UnavailablePublished, RoundEnds, NextRound, Settles
  <2>9. CASE UnavailableThrows
    BY <2>9 DEF UnavailableThrows, RoundEnds, NextRound, Settles
  <2>. QED  BY <1>1, <2>1, <2>2, <2>3, <2>4, <2>5, <2>6, <2>7, <2>8, <2>9 DEF Refreshing
<1>2. CASE Lifetime
  <2>1. CASE StartSucceeds
    BY <2>1 DEF StartSucceeds, Refresh
  <2>2. CASE StartFails
    BY <2>2 DEF StartFails
  <2>3. CASE Stop
    BY <2>3 DEF Stop
  <2>4. CASE ProviderCloses
    BY <2>4 DEF ProviderCloses
  <2>5. CASE StopSettles
    BY <2>5 DEF StopSettles
  <2>. QED  BY <1>2, <2>1, <2>2, <2>3, <2>4, <2>5 DEF Lifetime
<1>3. CASE Triggers
  <2>1. CASE Changed
    BY <2>1 DEF Changed, Refresh
  <2>2. CASE PollElapses
    BY <2>2 DEF PollElapses, Refresh
  <2>3. CASE RetryElapses
    BY <2>3 DEF RetryElapses, Refresh
  <2>4. CASE ResetElapses
    BY <2>4 DEF ResetElapses, Refresh
  <2>. QED  BY <1>3, <2>1, <2>2, <2>3, <2>4 DEF Triggers
<1>4. CASE World
  <2>1. CASE ServerAnswers
    BY <2>1 DEF ServerAnswers
  <2>2. CASE SuccessGrowsStale
    BY <2>2 DEF SuccessGrowsStale
  <2>3. CASE AccountChanges
    BY <2>3 DEF AccountChanges
  <2>4. CASE HealthChanges
    BY <2>4 DEF HealthChanges
  <2>. QED  BY <1>4, <2>1, <2>2, <2>3, <2>4 DEF World
<1>5. CASE UNCHANGED vars
  BY <1>5 DEF vars
<1>. QED  BY <1>1, <1>2, <1>3, <1>4, <1>5 DEF Next

LEMMA InitInv == Init => Inv
<1>. SUFFICES ASSUME Init
              PROVE  Inv
  OBVIOUS
<1>1. TypeOK
  BY InitType
<1>2. LoopInv
  BY DEF Init, LoopInv, NoChangeLost, RetryChain, NobodyWaitsForever,
         DiscardedIsReadAgain, ReportedIsRetried, StoppedIsDisarmed, StopAwaitsTheLoop, Running
<1>3. ReadInOrder
  BY DEF Init, ReadInOrder, NoRead
<1>4. ReportsAreStale
  BY DEF Init, ReportsAreStale
<1>. QED  BY <1>1, <1>2, <1>3, <1>4 DEF Inv

(* The invariant is inductive.                                             *)
THEOREM Invariance == Spec => []Inv
<1>1. Inv /\ [Next]_vars => Inv'
  BY TypeStep, LoopStep, ReadStep, ReportStep DEF Inv
<1>. QED  BY InitInv, <1>1, PTL DEF Spec

(* A change announced during a refresh is read by a round that begins      *)
(* after it: the queue of refresh() loses none.                            *)
THEOREM NoChangeLostHolds == Spec => []NoChangeLost
<1>1. Inv => NoChangeLost
  BY DEF Inv, LoopInv
<1>. QED  BY <1>1, Invariance, PTL

(* In a streak of failures exactly one retry is on its way, for any list   *)
(* of retry delays, and outside a streak none.                             *)
THEOREM RetryChainHolds == Spec => []RetryChain
<1>1. Inv => RetryChain
  BY DEF Inv, LoopInv
<1>. QED  BY <1>1, Invariance, PTL

(* No caller is left waiting for a refresh that is over.                   *)
THEOREM NobodyWaitsForeverHolds == Spec => []NobodyWaitsForever
<1>1. Inv => NobodyWaitsForever
  BY DEF Inv, LoopInv
<1>. QED  BY <1>1, Invariance, PTL

(* After stop() has settled nothing of the coordinator runs again.         *)
THEOREM StopQuiescesHolds == Spec => []StopQuiesces
<1>1. Inv => StopQuiesces
  <2>. SUFFICES ASSUME Inv, stop = "stopped"
                PROVE  /\ phase = "idle"
                       /\ retryTimer = 0 /\ ~retryWaiting /\ ~resetTimer
                       /\ driver \in {"starting", "ended"}
    BY DEF StopQuiesces
  <2>1. phase = "idle"
    BY DEF Inv, LoopInv, StopAwaitsTheLoop
  <2>2. retryTimer = 0 /\ ~retryWaiting /\ ~resetTimer /\ driver # "delay"
    BY DEF Inv, LoopInv, StoppedIsDisarmed, Running
  <2>3. driver # "awaiting"
    BY <2>1 DEF Inv, LoopInv, NobodyWaitsForever
  <2>. QED  BY <2>1, <2>2, <2>3 DEF Inv, TypeOK
<1>. QED  BY <1>1, Invariance, PTL

(* A snapshot published as stable belongs to the account whose context it  *)
(* is published with: the account may change at any moment of the round.   *)
THEOREM PublishedForItsAccountHolds == Spec => []PublishedForItsAccount
<1>1. Inv => PublishedForItsAccount
  <2>. SUFFICES ASSUME Inv, phase = "publishing", read.before = read.after,
                       read.after # NoContext
                PROVE  read.snapshot = read.after
    BY DEF PublishedForItsAccount, ContextStable, SameContext
  <2>1. /\ read.before <= read.snapshot
        /\ read.snapshot <= read.after
    BY DEF Inv, ReadInOrder
  <2>2. read.snapshot \in Nat /\ read.after \in Nat
    BY MaxAccountAssumption DEF Inv, ReadInOrder, TypeOK, Contexts, Accounts
  <2>. QED  BY <2>1, <2>2
<1>. QED  BY <1>1, Invariance, PTL

(* The consumer hears of unavailability once per streak, and only when the *)
(* figures it has are stale.                                               *)
THEOREM UnavailableOnlyWhenStaleHolds == Spec => []UnavailableOnlyWhenStale
<1>1. Inv => UnavailableOnlyWhenStale
  BY DEF Inv, ReportsAreStale, UnavailableOnlyWhenStale
<1>. QED  BY <1>1, Invariance, PTL

-----------------------------------------------------------------------------
(* The refinement: each step of the coordinator is a step of the feed, or  *)
(* leaves the feed as it is.                                               *)

LEMMA FeedInit == Init => Feed!Init
BY DEF Init, Feed!Init, Activity

LEMMA FeedStep ==
    ASSUME TypeOK, StopAwaitsTheLoop, ReportsAreStale, [Next]_vars
    PROVE  [Feed!Next]_(Feed!vars)
<1>. USE DEF stopVars, streakVars, retryVars, envVars, Running, StopAwaitsTheLoop,
             ReportsAreStale, Activity, Feed!Next, Feed!vars
<1>1. CASE Refreshing
  <2>1. CASE ContextBeforeCaptured
    BY <2>1 DEF ContextBeforeCaptured, Feed!BeginRead, TypeOK, Phases
  <2>2. CASE ReadReturns
    BY <2>2 DEF ReadReturns, TypeOK, Phases
  <2>3. CASE ReadFails
    BY <2>3 DEF ReadFails, Fails, ReportsUnavailable, RoundEnds, NextRound, Settles, Feed!Work,
                Feed!EndRead, TypeOK, Phases
  <2>4. CASE ContextAfterCaptured
    BY <2>4 DEF ContextAfterCaptured, RoundEnds, NextRound, Settles, Feed!Work, Feed!EndRead,
                TypeOK, Phases
  <2>5. CASE Published
    BY <2>5 DEF Published, RoundEnds, NextRound, Settles, Feed!Work, Feed!EndPublish, TypeOK,
                Phases
  <2>6. CASE Discarded
    BY <2>6 DEF Discarded, RoundEnds, NextRound, Settles, Feed!Work, Feed!EndPublish, TypeOK,
                Phases
  <2>7. CASE PublishThrows
    BY <2>7 DEF PublishThrows, Fails, ReportsUnavailable, RoundEnds, NextRound, Settles,
                Feed!Work, Feed!EndPublish, TypeOK, Phases
  <2>8. CASE UnavailablePublished
    BY <2>8 DEF UnavailablePublished, RoundEnds, NextRound, Settles, Feed!Work, Feed!EndReport,
                TypeOK, Phases
  <2>9. CASE UnavailableThrows
    BY <2>9 DEF UnavailableThrows, RoundEnds, NextRound, Settles, Feed!Work, Feed!EndReport,
                TypeOK, Phases
  <2>. QED  BY <1>1, <2>1, <2>2, <2>3, <2>4, <2>5, <2>6, <2>7, <2>8, <2>9 DEF Refreshing
<1>2. CASE Lifetime
  <2>1. CASE StartSucceeds
    BY <2>1 DEF StartSucceeds, Refresh, TypeOK, Phases
  <2>2. CASE StartFails
    BY <2>2 DEF StartFails, TypeOK, Phases
  <2>3. CASE Stop
    BY <2>3 DEF Stop, TypeOK, Phases
  <2>4. CASE ProviderCloses
    BY <2>4 DEF ProviderCloses, TypeOK, Phases
  <2>5. CASE StopSettles
    BY <2>5 DEF StopSettles, Feed!Close, TypeOK, Phases
  <2>. QED  BY <1>2, <2>1, <2>2, <2>3, <2>4, <2>5 DEF Lifetime
<1>3. CASE Triggers
  <2>1. CASE Changed
    BY <2>1 DEF Changed, Refresh, Feed!Ask, TypeOK, Phases
  <2>2. CASE PollElapses
    BY <2>2 DEF PollElapses, Refresh, TypeOK, Phases
  <2>3. CASE RetryElapses
    BY <2>3 DEF RetryElapses, Refresh, TypeOK, Phases
  <2>4. CASE ResetElapses
    BY <2>4 DEF ResetElapses, Refresh, TypeOK, Phases
  <2>. QED  BY <1>3, <2>1, <2>2, <2>3, <2>4 DEF Triggers
<1>4. CASE World
  <2>1. CASE ServerAnswers
    BY <2>1 DEF ServerAnswers, TypeOK, Phases
  <2>2. CASE SuccessGrowsStale
    BY <2>2 DEF SuccessGrowsStale, TypeOK, Phases
  <2>3. CASE AccountChanges
    BY <2>3 DEF AccountChanges, TypeOK, Phases
  <2>4. CASE HealthChanges
    BY <2>4 DEF HealthChanges, TypeOK, Phases
  <2>. QED  BY <1>4, <2>1, <2>2, <2>3, <2>4 DEF World
<1>5. CASE UNCHANGED vars
  BY <1>5 DEF vars
<1>. QED  BY <1>1, <1>2, <1>3, <1>4, <1>5 DEF Next

(* The coordinator keeps every safety promise of the feed: one read at a   *)
(* time, unavailability reported at most once between two snapshots, and   *)
(* nothing after the shutdown.                                             *)
THEOREM FeedRefinement == Spec => Feed!Init /\ [][Feed!Next]_(Feed!vars)
<1>1. Inv /\ [Next]_vars => [Feed!Next]_(Feed!vars)
  BY FeedStep DEF Inv, LoopInv
<1>. QED  BY FeedInit, <1>1, Invariance, PTL DEF Spec

=============================================================================
