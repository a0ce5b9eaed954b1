-------------------------- MODULE QuotaCoordinator --------------------------
(***************************************************************************)
(* QuotaCoordinator of src/host/quota-coordinator.mjs: the one refresh     *)
(* loop that reads the quotas from the provider and publishes them, the    *)
(* reasons to refresh that reach it while it is busy, its retry timer, its *)
(* reset-boundary timer, its poll loop, start() and stop().                *)
(*                                                                         *)
(* An action is what runs between two awaits.  The code after an await     *)
(* that only promise continuations can run (the end of the refresh loop,   *)
(* `.finally`, the poll loop and the retry callbacks that await the        *)
(* refresh) is part of the action that settles the promise: no timer or    *)
(* provider event can run in between.                                      *)
(*                                                                         *)
(* A reason is only ever tested for being there, so `queuedReason' is a    *)
(* Boolean.  A retry delay is its index in retryDelaysMs, so a failure     *)
(* count saturated at the number of delays chooses the same delays as the  *)
(* code's.                                                                 *)
(***************************************************************************)
EXTENDS Naturals

CONSTANTS
    RetryDelays,  \* the length of retryDelaysMs
    MaxAccount,   \* bound: how often auth.json changes
    NoContext     \* the null account context (auth.json cannot be read)

ASSUME RetryDelaysAssumption == RetryDelays \in Nat
ASSUME MaxAccountAssumption == MaxAccount \in Nat
ASSUME NoContextAssumption == NoContext \notin Nat

VARIABLES
    phase,               \* the await the refresh loop stands at; "idle": #refreshing is null
    read,                \* the contexts and the snapshot refreshOnce holds
    queuedReason,        \* #queuedReason is set
    driver,              \* start() and, after it, #pollLoop()
    subscribed,          \* the "changed" handler is registered
    stop,                \* "running", "stopping" (#stopped), "stopped" (stop() settled)
    providerClosed,      \* provider.close() has settled
    consecutiveFailures, \* saturated at RetryDelays
    unavailablePublished,\* #unavailablePublishedForFailureStreak
    lastSuccess,         \* the age of #lastSuccessAtMs, against staleAfterMs
    retryTimer,          \* 0, or the index of the delay the retry timer runs
    retryWaiting,        \* a retry callback of this generation awaits the active refresh
    resetTimer,          \* the reset-boundary timer is armed
    account,             \* external: the version of auth.json
    healthy,             \* external: auth.json, the provider and the publisher do their part
    owed,                \* history: a change was announced since the last read began
    shown                \* history: what the consumer was last told

retryVars == <<retryTimer, retryWaiting>>
streakVars == <<consecutiveFailures, unavailablePublished, lastSuccess>>
stopVars == <<stop, providerClosed, subscribed>>
envVars == <<account, healthy>>
vars == <<phase, read, queuedReason, driver, stopVars, streakVars, retryVars,
          resetTimer, envVars, owed, shown>>

-----------------------------------------------------------------------------

Accounts == 0..MaxAccount
Contexts == Accounts \cup {NoContext}
NoRead == [before |-> NoContext, snapshot |-> NoContext, after |-> NoContext]

Phases == {"idle", "contextBefore", "reading", "contextAfter", "publishing",
           "publishingUnavailable"}

TypeOK ==
    /\ phase \in Phases
    /\ read \in [before : Contexts, snapshot : Contexts, after : Contexts]
    /\ queuedReason \in BOOLEAN
    /\ driver \in {"starting", "awaiting", "delay", "ended"}
    /\ subscribed \in BOOLEAN
    /\ stop \in {"running", "stopping", "stopped"}
    /\ providerClosed \in BOOLEAN
    /\ consecutiveFailures \in 0..RetryDelays
    /\ unavailablePublished \in BOOLEAN
    /\ lastSuccess \in {"never", "recent", "stale"}
    /\ retryTimer \in 0..RetryDelays
    /\ retryWaiting \in BOOLEAN
    /\ resetTimer \in BOOLEAN
    /\ account \in Accounts
    /\ healthy \in BOOLEAN
    /\ owed \in BOOLEAN
    /\ shown \in {"nothing", "snapshot", "unavailable"}

Running == stop = "running"

(* start() has been called and awaits provider.start().                    *)
Init ==
    /\ phase = "idle"
    /\ read = NoRead
    /\ queuedReason = FALSE
    /\ driver = "starting"
    /\ subscribed = FALSE
    /\ stop = "running"
    /\ providerClosed = FALSE
    /\ consecutiveFailures = 0
    /\ unavailablePublished = FALSE
    /\ lastSuccess = "never"
    /\ retryTimer = 0
    /\ retryWaiting = FALSE
    /\ resetTimer = FALSE
    /\ account = 0
    /\ healthy = TRUE
    /\ owed = FALSE
    /\ shown = "nothing"

-----------------------------------------------------------------------------
(* refresh(reason): nothing once stopped; queued behind the active loop;   *)
(* otherwise a new loop, which runs up to its first await.                 *)

(* Faulty: a reason that arrives during a refresh is dropped.              *)
QueueDropped == UNCHANGED queuedReason

(* queueRefresh: a reason stays queued, whichever of two takes the slot.   *)
Queue == queuedReason' = TRUE

Refresh ==
    \/ /\ ~Running
       /\ UNCHANGED <<phase, queuedReason>>
    \/ /\ Running
       /\ phase # "idle"
       /\ Queue
       /\ UNCHANGED phase
    \/ /\ Running
       /\ phase = "idle"
       /\ phase' = "contextBefore"
       /\ queuedReason' = FALSE

(* The end of refreshOnce and the head of the loop.  A queued reason       *)
(* starts the next round.  Without one the refresh settles, and with it    *)
(* those that await it: start() and the poll loop go on to the next delay, *)
(* and a retry callback still of this generation (`waiting') refreshes.    *)
NextRound(waiting) ==
    /\ Running /\ queuedReason
    /\ phase' = "contextBefore"
    /\ queuedReason' = FALSE
    /\ retryWaiting' = waiting
    /\ UNCHANGED driver

(* Faulty: the refresh ends without waking a retry callback.               *)
SettlesSilently(waiting) ==
    /\ ~(Running /\ queuedReason)
    /\ phase' = "idle"
    /\ retryWaiting' = waiting
    /\ driver' = IF driver # "awaiting" THEN driver
                 ELSE IF Running THEN "delay" ELSE "ended"
    /\ UNCHANGED queuedReason

Settles(waiting) ==
    /\ ~(Running /\ queuedReason)
    /\ phase' = IF Running /\ waiting THEN "contextBefore" ELSE "idle"
    /\ retryWaiting' = FALSE
    /\ driver' = IF driver # "awaiting" THEN driver
                 ELSE IF Running THEN "delay" ELSE "ended"
    /\ UNCHANGED queuedReason

RoundEnds(waiting) ==
    /\ read' = NoRead
    /\ NextRound(waiting) \/ Settles(waiting)

(* Faulty: the index of the delay is not clamped to the last delay.        *)
RecordFailureUnclamped ==
    /\ consecutiveFailures' = consecutiveFailures + 1
    /\ retryTimer' = consecutiveFailures + 1

(* Faulty: once the last delay has been used, no timer is armed again.     *)
RecordFailureGivesUp ==
    IF consecutiveFailures < RetryDelays
    THEN RecordFailureUnclamped
    ELSE UNCHANGED <<consecutiveFailures, retryTimer>>

(* recordFailure: the n-th failure in a row arms the n-th delay, and the   *)
(* last one from then on.                                                  *)
RecordFailure ==
    LET failures == IF consecutiveFailures < RetryDelays
                    THEN consecutiveFailures + 1 ELSE consecutiveFailures
    IN  /\ consecutiveFailures' = failures
        /\ retryTimer' = failures

(* Faulty: told again at every failure of the streak.                      *)
ReportsEveryFailure == ~queuedReason /\ lastSuccess # "recent"

ReportsUnavailable ==
    ~queuedReason /\ ~unavailablePublished /\ lastSuccess # "recent"

(* The catch of refreshOnce.  Arming the timer starts a new retry          *)
(* generation, which drops a callback that waits.                          *)
Fails ==
    \/ /\ ~Running
       /\ RoundEnds(FALSE)
       /\ UNCHANGED <<consecutiveFailures, retryTimer>>
    \/ /\ Running
       /\ RecordFailure
       /\ \/ /\ ReportsUnavailable
             /\ phase' = "publishingUnavailable"
             /\ read' = NoRead
             /\ retryWaiting' = FALSE
             /\ UNCHANGED <<queuedReason, driver>>
          \/ /\ ~ReportsUnavailable
             /\ RoundEnds(FALSE)

-----------------------------------------------------------------------------
(* start(), the "changed" handler, and the timers.                         *)

StartSucceeds ==
    /\ driver = "starting"
    /\ subscribed' = TRUE
    /\ Refresh
    /\ driver' = IF Running THEN "awaiting" ELSE "ended"
    /\ UNCHANGED <<read, stop, providerClosed, streakVars, retryVars, resetTimer,
                   envVars, owed, shown>>

StartFails ==
    /\ driver = "starting"
    /\ ~healthy \/ providerClosed
    /\ driver' = "ended"
    /\ UNCHANGED <<phase, read, queuedReason, stopVars, streakVars, retryVars,
                   resetTimer, envVars, owed, shown>>

Changed ==
    /\ subscribed
    /\ Refresh
    /\ owed' = (owed \/ Running)
    /\ UNCHANGED <<read, driver, stopVars, streakVars, retryVars, resetTimer,
                   envVars, shown>>

PollElapses ==
    /\ driver = "delay"
    /\ Refresh
    /\ driver' = "awaiting"
    /\ UNCHANGED <<read, stopVars, streakVars, retryVars, resetTimer, envVars,
                   owed, shown>>

(* The retry callback.  A superseded timer has been cleared and never      *)
(* runs it.                                                                *)
RetryElapses ==
    /\ retryTimer # 0
    /\ retryTimer' = 0
    /\ \/ /\ phase = "idle"
          /\ Refresh
          /\ UNCHANGED retryWaiting
       \/ /\ phase # "idle"
          /\ retryWaiting' = TRUE
          /\ UNCHANGED <<phase, queuedReason>>
    /\ UNCHANGED <<read, driver, stopVars, streakVars, resetTimer, envVars, owed,
                   shown>>

ResetElapses ==
    /\ resetTimer
    /\ resetTimer' = FALSE
    /\ Refresh
    /\ UNCHANGED <<read, driver, stopVars, streakVars, retryVars, envVars, owed,
                   shown>>

-----------------------------------------------------------------------------
(* refreshOnce, await by await.                                            *)

(* readContext: what auth.json says, or null when it cannot be read.       *)
Captured == IF healthy THEN {account} ELSE {account, NoContext}

(* The context is there: the read begins, stopped or not.                  *)
ContextBeforeCaptured ==
    /\ phase = "contextBefore"
    /\ \E context \in Captured : read' = [read EXCEPT !.before = context]
    /\ phase' = "reading"
    /\ owed' = FALSE
    /\ UNCHANGED <<queuedReason, driver, stopVars, streakVars, retryVars,
                   resetTimer, envVars, shown>>

(* External: the app-server reads the quotas of the current account.       *)
ServerAnswers ==
    /\ phase = "reading"
    /\ read.snapshot = NoContext
    /\ ~providerClosed
    /\ read' = [read EXCEPT !.snapshot = account]
    /\ UNCHANGED <<phase, queuedReason, driver, stopVars, streakVars, retryVars,
                   resetTimer, envVars, owed, shown>>

ReadReturns ==
    /\ phase = "reading"
    /\ read.snapshot # NoContext
    /\ phase' = "contextAfter"
    /\ UNCHANGED <<read, queuedReason, driver, stopVars, streakVars, retryVars,
                   resetTimer, envVars, owed, shown>>

(* An error, a timeout, or the rejection of what a closed client awaits.   *)
ReadFails ==
    /\ phase = "reading"
    /\ ~healthy \/ providerClosed
    /\ Fails
    /\ UNCHANGED <<stopVars, unavailablePublished, lastSuccess, resetTimer,
                   envVars, owed, shown>>

(* Faulty: any two contexts that could be captured are taken for the same. *)
BothCaptured(before, after) == NoContext \notin {before, after}

SameContext(before, after) == before = after

(* An account that moved under the read queues another one.                *)
ContextAfterCaptured ==
    /\ phase = "contextAfter"
    /\ \/ /\ ~Running
          /\ RoundEnds(retryWaiting)
       \/ /\ Running
          /\ phase' = "publishing"
          /\ \E context \in Captured :
                /\ read' = [read EXCEPT !.after = context]
                /\ queuedReason' = (queuedReason \/ ~SameContext(read.before, context))
          /\ UNCHANGED <<driver, retryWaiting>>
    /\ UNCHANGED <<stopVars, streakVars, retryTimer, resetTimer, envVars, owed,
                   shown>>

ContextStable == SameContext(read.before, read.after)

-----------------------------------------------------------------------------
(* The answer of publish, and of publishUnavailable.                       *)

(* Faulty: the next streak of failures is not reported.                    *)
RecordSuccessKeepsFlag ==
    /\ consecutiveFailures' = 0
    /\ retryTimer' = 0
    /\ UNCHANGED unavailablePublished

RecordSuccess ==
    /\ consecutiveFailures' = 0
    /\ retryTimer' = 0
    /\ unavailablePublished' = FALSE

(* A stable snapshot replaces the reset timer: armed when one of its       *)
(* windows resets in the future.                                           *)
ScheduleResetRefresh ==
    IF ContextStable THEN resetTimer' \in BOOLEAN ELSE UNCHANGED resetTimer

Published ==
    /\ phase = "publishing"
    /\ shown' = "snapshot"
    /\ \/ /\ ~Running
          /\ RoundEnds(FALSE)
          /\ UNCHANGED <<streakVars, retryTimer, resetTimer>>
       \/ /\ Running
          /\ lastSuccess' = "recent"
          /\ RecordSuccess
          /\ ScheduleResetRefresh
          /\ RoundEnds(FALSE)
    /\ UNCHANGED <<stopVars, envVars, owed>>

(* publish answered false: the daemon's publisher does so for a snapshot   *)
(* whose context was not stable, and for no other.                         *)
Discarded ==
    /\ phase = "publishing"
    /\ ~ContextStable
    /\ RoundEnds(retryWaiting)
    /\ UNCHANGED <<stopVars, streakVars, retryTimer, resetTimer, envVars, owed,
                   shown>>

PublishThrows ==
    /\ phase = "publishing"
    /\ ~healthy
    /\ Fails
    /\ UNCHANGED <<stopVars, unavailablePublished, lastSuccess, resetTimer,
                   envVars, owed, shown>>

UnavailablePublished ==
    /\ phase = "publishingUnavailable"
    /\ shown' = "unavailable"
    /\ unavailablePublished' = TRUE
    /\ RoundEnds(retryWaiting)
    /\ UNCHANGED <<stopVars, consecutiveFailures, lastSuccess, retryTimer,
                   resetTimer, envVars, owed>>

UnavailableThrows ==
    /\ phase = "publishingUnavailable"
    /\ RoundEnds(retryWaiting)
    /\ UNCHANGED <<stopVars, streakVars, retryTimer, resetTimer, envVars, owed,
                   shown>>

-----------------------------------------------------------------------------
(* stop(): a second call returns at once.                                  *)

Stop ==
    /\ Running
    /\ stop' = "stopping"
    /\ retryTimer' = 0
    /\ retryWaiting' = FALSE
    /\ resetTimer' = FALSE
    /\ subscribed' = FALSE
    /\ driver' = IF driver = "delay" THEN "ended" ELSE driver
    /\ UNCHANGED <<phase, read, queuedReason, providerClosed, streakVars, envVars,
                   owed, shown>>

ProviderCloses ==
    /\ stop = "stopping"
    /\ ~providerClosed
    /\ providerClosed' = TRUE
    /\ UNCHANGED <<phase, read, queuedReason, driver, stop, subscribed, streakVars,
                   retryVars, resetTimer, envVars, owed, shown>>

(* Faulty: stop() does not await the active refresh.                       *)
StopSettlesEarly ==
    /\ stop = "stopping"
    /\ providerClosed
    /\ stop' = "stopped"
    /\ UNCHANGED <<phase, read, queuedReason, driver, providerClosed, subscribed,
                   streakVars, retryVars, resetTimer, envVars, owed, shown>>

(* Promise.allSettled of the close and of the refresh that was active.     *)
StopSettles ==
    /\ stop = "stopping"
    /\ providerClosed
    /\ phase = "idle"
    /\ stop' = "stopped"
    /\ UNCHANGED <<phase, read, queuedReason, driver, providerClosed, subscribed,
                   streakVars, retryVars, resetTimer, envVars, owed, shown>>

-----------------------------------------------------------------------------
(* The world: time, the user's account, and the health of the provider and *)
(* of the publisher.                                                       *)

SuccessGrowsStale ==
    /\ lastSuccess = "recent"
    /\ lastSuccess' = "stale"
    /\ UNCHANGED <<phase, read, queuedReason, driver, stopVars, consecutiveFailures,
                   unavailablePublished, retryVars, resetTimer, envVars, owed, shown>>

AccountChanges ==
    /\ account < MaxAccount
    /\ account' = account + 1
    /\ UNCHANGED <<phase, read, queuedReason, driver, stopVars, streakVars,
                   retryVars, resetTimer, healthy, owed, shown>>

HealthChanges ==
    /\ healthy' = ~healthy
    /\ UNCHANGED <<phase, read, queuedReason, driver, stopVars, streakVars,
                   retryVars, resetTimer, account, owed, shown>>

-----------------------------------------------------------------------------

Refreshing ==
    \/ ContextBeforeCaptured \/ ReadReturns \/ ReadFails \/ ContextAfterCaptured
    \/ Published \/ Discarded \/ PublishThrows
    \/ UnavailablePublished \/ UnavailableThrows

Lifetime ==
    \/ StartSucceeds \/ StartFails \/ Stop \/ ProviderCloses \/ StopSettles

Triggers == Changed \/ PollElapses \/ RetryElapses \/ ResetElapses

World == ServerAnswers \/ SuccessGrowsStale \/ AccountChanges \/ HealthChanges

Next == Refreshing \/ Lifetime \/ Triggers \/ World

Spec == Init /\ [][Next]_vars

(* Every await of the loop settles: a read is answered, or times out in    *)
(* the client; closing the client ends with its process killed.  The retry *)
(* timer fires.  The publisher of unavailability does not throw for ever.  *)
(* Nothing is assumed of the poll loop (the retry chain has to do without  *)
(* it), of the account, the health, the changes announced or stop().       *)
Fairness ==
    /\ WF_vars(Refreshing)
    /\ WF_vars(ServerAnswers)
    /\ WF_vars(StartSucceeds \/ StartFails)
    /\ WF_vars(RetryElapses)
    /\ WF_vars(ProviderCloses)
    /\ WF_vars(StopSettles)
    /\ SF_vars(UnavailablePublished)

FairSpec == Spec /\ Fairness

-----------------------------------------------------------------------------
(* A change announced while a refresh is under way is not lost: until a    *)
(* read begins that covers it, the loop is at the await before its read,   *)
(* or a reason is queued that makes it read again.                         *)
NoChangeLost ==
    owed /\ Running =>
        \/ phase = "contextBefore"
        \/ phase # "idle" /\ queuedReason

(* The retry chain: in a streak of failures one retry, and only one, is    *)
(* always on its way (the timer armed with the delay of the streak's       *)
(* length, or a callback that waits for the active refresh, or the refresh *)
(* itself); without a streak, none is.                                     *)
RetryChain ==
    /\ ~(retryTimer # 0 /\ retryWaiting)
    /\ retryTimer \in {0, consecutiveFailures}
    /\ retryWaiting => consecutiveFailures # 0
    /\ Running /\ consecutiveFailures # 0 /\ phase = "idle" => retryTimer # 0

(* Nobody awaits a refresh that is over: the poll loop and a retry         *)
(* callback are woken by every way a refresh can end.                      *)
NobodyWaitsForever == driver = "awaiting" \/ retryWaiting => phase # "idle"

(* Once stop() has settled nothing of the coordinator is left to run: no   *)
(* round of the loop, no timer, no waiting callback, no poll.              *)
StopQuiesces ==
    stop = "stopped" =>
        /\ phase = "idle"
        /\ retryTimer = 0 /\ ~retryWaiting /\ ~resetTimer
        /\ driver \in {"starting", "ended"}

(* A snapshot handed to the publisher as stable, with an account context,  *)
(* was read for that account: the publisher may cache it under the         *)
(* context.                                                                *)
PublishedForItsAccount ==
    phase = "publishing" /\ ContextStable /\ read.after # NoContext =>
        read.snapshot = read.after

(* The consumer is told "unavailable" only in a streak of failures that    *)
(* has lasted since figures grew stale (or since there were none), and     *)
(* told so once.                                                           *)
UnavailableOnlyWhenStale ==
    /\ shown = "unavailable" => unavailablePublished /\ lastSuccess # "recent"
    /\ phase = "publishingUnavailable" => shown # "unavailable"

-----------------------------------------------------------------------------
(* What QuotaFeed promises, of this state.                                 *)

Activity ==
    CASE phase \in {"idle", "contextBefore"} -> "idle"
      [] phase \in {"reading", "contextAfter"} -> "reading"
      [] phase = "publishing" -> "publishing"
      [] phase = "publishingUnavailable" -> "reporting"

Feed == INSTANCE QuotaFeed WITH
            owed <- owed,
            activity <- Activity,
            shown <- shown,
            closed <- stop = "stopped"

(* The coordinator implements the feed: one read at a time, each covering  *)
(* the changes announced before it, unavailability reported at most once   *)
(* between two snapshots, nothing after the shutdown, and every change     *)
(* that is announced is read in the end, or the feed is shut down.         *)
ImplementsFeed == Feed!Spec

(* Once the world stays healthy, the retry chain ends a streak of failures *)
(* by itself.                                                              *)
StreakEnds == <>[]healthy => []<>(consecutiveFailures = 0 \/ ~Running)

(* Figures that stay stale are reported: if from some moment on every      *)
(* round fails with stale figures, and reasons to refresh do not keep      *)
(* arriving, the consumer is told, in every such streak, or the            *)
(* coordinator is stopped.                                                 *)
StaleIsReported ==
    <>[](consecutiveFailures # 0 /\ lastSuccess # "recent" /\ ~queuedReason)
        => []<>(shown = "unavailable" \/ ~Running)

=============================================================================
