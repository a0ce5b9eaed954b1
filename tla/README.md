# QuotaPeek: a TLA+ verification project

QuotaPeek shows the Codex app's rate limits in a panel inside the app. A
background *daemon* reads the quotas from a Codex *app-server* child process
and draws them, over the Chrome DevTools Protocol (CDP), into the pages of the
running app. This directory holds TLA+ models of that program, the TLC
configurations that check them on small instances, and theorems about them
that TLAPS checks for every value of the constants.

Paths below are those of the repository; `src/` is its source directory.

## 1. The system

```
 Codex app-server  --JSONL-->  AppServerClient / AppServerProvider
                                      | read(), "changed", "closed"
                                      v
  auth.json --stat-->          QuotaCoordinator   (one refresh loop)
                                      | publish(), publishUnavailable()
                                      v
  quota-cache.json  <------>   QuotaDaemon        (supervision, cache, session record)
  session.json, daemon.lock           | publish(), unavailable(), heartbeat(), cleanup()
                                      v
                               RendererBridge     (remembers the last call)
                                      | evaluateAll(), replay
                                      v
                               CdpWatcher / CdpSession   (pages of the app)
                                      | Runtime.evaluate
                                      v
                               Panel              (code inside each page)
```

Everything from the provider to the watcher runs on one Node event loop: code
between two awaits is atomic, everything else interleaves. The commands
(`start`, `uninstall`, `install`, `doctor`) are other processes; they meet the
daemon in files.

| component | source | state it keeps | operations | what makes it correct |
|---|---|---|---|---|
| QuotaCoordinator | `src/host/quota-coordinator.mjs` | the active refresh, a queued reason, the failure streak, a retry timer and its generation, a reset timer, a poll delay | `start`, `refresh`, "changed", timers, `stop` | no announced change is lost; one retry and only one during a streak; nothing runs after `stop`; figures are bound to the account they were read for; unavailability is reported when figures are stale, and once |
| QuotaDaemon | `src/host/daemon.mjs` | the coordinator in charge, a provider-start promise, a retry timer, the cache replay, the queue of session writes | provider supervision, `publish`, `publishUnavailable`, cache replay, heartbeats, shutdown | a provider that is gone is replaced; cached figures never overtake live ones; nothing is left running or written after the shutdown |
| QuotaCache | `src/host/quota-cache.mjs` | `quota-cache.json`: snapshot and account context | write, read, remove | a snapshot is rendered only for the account it was read for |
| RendererBridge | `src/host/renderer-bridge.mjs` | the last renderer call and its revision | `publish`, `publishCached`, `unavailable`, `heartbeat`, `cleanup`, replay on a page | every page shows the last call, however pages come and go |
| CdpWatcher | `src/cdp/watcher.mjs` | pages, active pages, ignored targets, generations, the poll-failure run | discovery, validation, injection, replay, `evaluateAll`, `close` | the panel is put only into the app's main surface; pages catch up; closing ends and cleans |
| CdpSession | `src/cdp/session.mjs` | pending commands of one socket | `send`, timeouts, `close` | every command settles once |
| AppServerClient, AppServerProvider | `src/app-server/*.mjs` | the child process, pending requests, "started"/"closing" | `start`, requests, notifications, `close` | every request settles once; the end of the child is announced and the child is ended |
| Normalization | `src/app-server/normalize.mjs`, `src/contracts.mjs` | none | buckets and windows from an answer | one general bucket, bounded output |
| StartCommand, UninstallCommand, InstallCommand | `src/commands/*.mjs`, `src/fs-utils.mjs`, `src/session-state.mjs` | `start.lock`, `daemon.lock`, `session.json`, `stop.request`, the runtime directory | start and hand-over, stop and removal, staging and roll-back | one daemon; a session record that tells the truth; a removal that does not race a start |
| NativeSuppressor | `src/cdp/native-suppressor.mjs`, `src/renderer/native-card-suppress.js` | attempts per page | find and close the app's own card | bounded attempts, never on another page |
| Panel | `src/renderer/panel-inject.js` | the mounted host, the snapshot, its freshness, remount timers | update, unavailable, heartbeat, reconcile, cleanup | mounted while its anchor is there; freshness tells the truth; cleanup leaves nothing |
| DaemonProcess, AppServerRuntime, WindowsLauncher, Shortcuts, Logger, DoctorCommand, CLI, ReleaseTools | see `PROJECT.json` | none between calls | process discovery, trust checks, logging, dispatch | input and output only |

### What is hard here

* **Awaits.** Every await of the refresh loop, of the supervision and of the
  page validation is a place where a timer, a notification, a navigation or a
  stop can run; guards read before it may be stale after it.
* **Two clocks of staleness.** `auth.json` may move between the two captures
  of the account context, in any order with the app-server's answer.
* **Pages that come and go.** A page can navigate between probe, injection and
  replay; can be lost, time out, disappear, or hang; several callers
  (publisher, heartbeat, replay, cleanup) evaluate on the same page.
* **Retries on retries.** The coordinator retries a read, the daemon retries a
  provider, the watcher retries targets and polls.
* **Files shared by processes** that can die between any two writes.

`PROJECT.json` lists the hazards, each at its line, with the properties that
would catch it going wrong.

## 2. The plan

| # | module | composes / refines | state |
|---|---|---|---|
| 1 | `QuotaFeed` | the abstract promise of a feed | done |
| 2 | `QuotaCoordinator` | refines `QuotaFeed` | done, proved |
| 3 | `PanelPages` | RendererBridge, CdpWatcher, CdpSession and their pages | done, proved |
| 4 | `QuotaDaemon` | supervision, the cache and its replay, the session record; uses `QuotaFeed`'s promise of a coordinator | done, proved |
| 5 | `AppServer` | client and provider against a child that dies or errs | done, proved |
| 6 | `Lifecycle` | `start`, `install` and `uninstall`, the daemon's gate, locks, records, crashes | done, proved |
| 7 | `Panel` | where one page's panel is put, and what takes it away | done, proved |

`MCPanelPages`, `MCLifecycle` and `MCPanel` hold what only TLC needs: symmetry,
views, and a constraint. `NativeSuppressor`, the search for the runtime and the
pure rules (buckets, thresholds) will not be modelled; section 6 says why.

"Proved" means every safety property that the module's runs check. What may
still be proved: that `AppServer`'s provider is what `QuotaCoordinator` takes
it for (a read that settles, one "closed", silence after it), as an abstract
specification of its own.

## 3. The modules

### QuotaFeed

What the refresher promises to whoever uses it: somebody *asks*; a later read
answers everything asked before it began; what is read is published, dropped,
or turned into one report of unavailability; a closed feed does nothing. Its
fairness says that it never rests on a request and never stays in one
activity.

### QuotaCoordinator

One action is what runs between two awaits. Code after an await that only
promise continuations can run (the end of the loop, `.finally`, the poll loop
and retry callbacks that await the refresh) belongs to the action that settles
the promise, since no timer or provider event can run in between.

| code | model |
|---|---|
| `#refreshing`, and where `#refreshOnce` stands | `phase` |
| `before`, `snapshot`, `after` of `#refreshOnce` | `read` |
| `#queuedReason` | `queuedReason`, a Boolean: reasons only differ in the log |
| `start()` and `#pollLoop` | `driver` |
| the provider's "changed" subscription | `subscribed` |
| `#stopped`, the progress of `stop()` | `stop`, `providerClosed` |
| `#consecutiveFailures` | the same, saturated at the number of delays |
| `#retryTimer`, `#retryGeneration` | `retryTimer` (the index of its delay), and `retryWaiting` for a callback of this generation that awaits the active refresh |
| `#lastSuccessAtMs` against `staleAfterMs` | `lastSuccess`: never, recent, stale |
| `auth.json`, the provider's and the publisher's health | `account`, `healthy`: external |
| - | `owed`, `shown`: history variables for the properties |

`healthy` being TRUE means that no capture, read or publication fails; a
report of unavailability may fail at any time. The publisher answers as the
daemon's does: it discards a snapshot whose context was not stable, and no
other.

### PanelPages

The bridge, the watcher, the session of each page, and the pages themselves,
which are external. A session is two queues: `sent` (commands the page has not
evaluated) and `wire` (answers and events the watcher has not handled). A
command carries who awaits it. The watcher compares generations only for
equality, so a generation is not a number here: revalidation turns a command
that the current validation awaits into a "stale" one if somebody still acts
on its answer (a skipped replay revalidates whatever its generation), else
into one nobody awaits.

| code | model |
|---|---|
| `#pages`, `#activePages`, a page's validation | `stage` (untracked, connecting, settling, probing, bootstrapping, replaying, ready, removing) |
| `page.fingerprint` | `known`, a version of the target's URL |
| `#ignoredTargets` | `ignored` |
| `syncTargets` | `list`, `todo`, `connecting` |
| `#watchLoop` | `loop`, `failures` |
| `#abort` | `aborted` |
| `#revision`, `#lastRendererCall` | `revision` |
| `evaluateAll`, one run per caller | `runs` |
| the timers of commands that an end is waited for (`watcher.mjs:594`, `session.mjs:152`) | `ClosingExpires`, for pages that hang (`Hung`); every other timeout is a trouble |

Abstractions, with their reason:

* Publications are serialized. The daemon's publications await one another
  (the refresh loop awaits `publish`); the one window in which two can overlap
  is the report of a provider that closed beside the first snapshot of its
  successor: `QuotaDaemon` has that overlap, this module does not.
* A continuation runs in the action that handles its message. The code may
  handle one more message of the same socket first; its check of the
  generation then finds what this order finds.
* A closed session drops the commands the page had not evaluated (external).
* Panels that were mounted when their session was lost, or on a page that was
  not active when it was closed, are remembered in `orphan`; nobody can clean
  them.
* The endpoint change of a target that keeps its id, the suppressor script
  added at document start, and `status()` are left out.

### QuotaDaemon

`daemonCommand` from the moment it owns the session record: the supervision of
providers, the publishers, the restart cache and its replay, the session
record, the shutdown. One action is what runs between two awaits.

| code | model |
|---|---|
| the await at which `daemonCommand` stands | `main` |
| `stopWait`, `normalStop` | `stop`, `normalStop` |
| `providerStartPromise`, and where `startProvider` stands | `start` |
| `coordinator`, `providerRetryTimer` | `coordinator`, `retry` |
| a coordinator with its provider, from creation to the end of `stop()` | `candidate` |
| `recoverProvider` | `recovery` |
| the calls of `publish` and `publishUnavailable` in progress: of a coordinator, of a recovery, of a failed start | `task` |
| `cachedEntryPromise`, `cacheReplayPromise` | `loading`, `entry`; `replay` |
| `liveSnapshotPublished`, `quotaStatus`, the bridge's last call | `live`, `quotaStatus`, `shown` |
| `quota-cache.json` | `cache`: the account it is filed under, and the account its figures were read for |
| `session.json`, `sessionWriteQueue` | `session`; `queue`, `writing`, and `awaited`, the updates that the shutdown's await of the queue covers |
| `auth.json` | `account`: external |
| - | `accountAtReplay`, `crossed`: history variables |

Abstractions, with their reason:

* A candidate's coordinator is what `QuotaFeed` promises, which
  `QuotaCoordinator` is proved to keep: one publication or report at a time,
  none begun after `stop()`, and `stop()` settles when it rests. A stable
  snapshot is of the current account at the moment it is published
  (`PublishedForItsAccount`). The account may change right after.
* A candidate that has stopped and that nobody refers to is forgotten and may
  stand for the next one, so that the daemon's life is not bounded.
* Nobody acts on the end of a provider that is closed, or that ends while the
  daemon stops: such an end is no step.
* The read of `auth.json` and the comparison with it are one step, the write of
  the cache is the next: between them the account may change.
* An error of an update of the session record is logged and leaves the record
  as it is; only the error "the record is gone" is modelled, because a record
  that is gone must stay gone.
* The daemon's lock, the parent's identity gate and the session's other fields
  are not here; of the heartbeat and of the first page that is ready, only the
  update of the record is.

### AppServer

One provider, its client and the child process, as the coordinator uses them:
it starts the provider once, reads when nothing else is being read, and closes
it once its start is over.

Here the order in which promises continue matters, so an action is not what
runs between two awaits but a smaller step. A callback runs first (a chunk of
output message by message, a timer, an event of the child); then what awaits a
promise that it settled; the next callback has to wait for both (`Idle`). That
order decides what a client that closes in the middle of a chunk does to a
start whose answer was in the same chunk.

| code | model |
|---|---|
| what the coordinator has asked of the provider | `call` |
| `#started`, whether the provider has listeners, `#closing` | `started`, `listening`, `closing` |
| the await at which `start()` or `close()` stands | `awaits` |
| `#initialized`, `#closed`, `#closeEmitted` of the client | `initialized`, `closed`, `closeEmitted` |
| `#pending`, and the promise of each request | `request` |
| the race between the child and the grace in `close()` | `grace` |
| `child`, its stdin, the signal sent to it | `child`, `stdinEnded`, `killed` |
| the stdout pipe, and the lines of the chunk being parsed | `output`, `chunk` |
| the child's side of the protocol | `asked`: external |
| - | `lastEvent`, `protocolError`, `unheard`: history variables |

Abstractions, with their reason:

* A message is its kind: an answer that resolves, that is refused for its
  shape, or that is an error; a notification; garbage; more output than the
  buffer holds. The last closes the client before any line of the chunk is
  parsed. What the client refuses or ignores (requests of the server, unknown
  notifications, answers to what it never asked) changes no state and is no
  step; a late answer is one.
* The child does nothing during a callback: what it does then it may as well
  do after it.
* A read's name may be used again once nobody will answer it.
* `read()` of a provider that has not started, or whose client has closed,
  throws and changes nothing: it is no step.

### Lifecycle

Processes that share a directory: a step is one access to a file, or one wait.
Commands take `start.lock` and daemons `daemon.lock` by the same code
(`acquireFileLock`), so a process is a kind and a name, and the daemon that the
start `c` spawns is named `c`, as its session's nonce is. Every process may die
between two steps, and the first state may hold what an earlier run left: a
lock of a dead process, an empty lock file, a record in two conditions, an
installed engine.

| code | model |
|---|---|
| the next file access of a process | `pc` |
| what it has read and will write or compare | `seen` |
| `start.lock`, `daemon.lock`: whose, and whether its PID is in it yet | `lock` |
| `session.json`: nonce, status, whether the daemon's PID is in it, the port | `session` |
| `stop.request`, `install.json` | `stopRequest`, `config` |
| the engine directories that are complete | `engines` |
| `writeJsonAtomic`, where Windows refuses to rename over a file | `RemoveToReplace` |
| `isProcessRunning` | `RunningAnswers` |
| - | `activated`, `raced`: history variables |

Abstractions, with their reason:

* The PID of a dead process may be reused at any moment: it then counts as
  running, and no inspection takes it for a daemon. A live process is never
  taken for a dead one.
* What `start` reports (reuse, mismatch, a timeout) and `--foreground` change no
  file; a start that ends in any of these releases its lock. "releasing" stands
  for the wait for a terminal status as well.
* The port of a pending record is another than the recorded one if `--port`
  gives one or if none is recorded, else it is the recorded one
  (`start.mjs:355`). Which free port is chosen, and whether a port is in the
  allowed range, are left out.
* An unreadable `daemon.lock` is a held one for `start` and none for
  `uninstall`, as in the code.
* A daemon is here what it does to the files: its updates of the record before,
  at and after readiness, its failure, its stop. `QuotaDaemon` has the rest.
* `rm(root)` removes what it finds in any order, and may fail halfway.
* The check of a staged engine against its manifest is a choice of outcome.

The locks are not exclusive in every case, and the model says where. A stale
lock is judged first and removed by name afterwards, so one of two processes
that judged it may remove the other's new lock (`fs-utils.mjs:52-55`); a lock
is released by name (66); and an uninstall removes its own lock, or that of a
late daemon, with the root. `raced` records that one of these has happened, and
the properties except what follows. `daemon.mjs:27-29` calls the daemon "the
sole session writer": it is, but for these.

### Panel

The controller that `panel-inject.js` leaves in one page. It is sequential, so
an action is one callback or one call of its API to its end, and its functions
are operators from a page and a controller to the next controller. The page is
external: up to two sidebars, docked and floating, that the app shows, hides,
resizes, redraws, turns into its settings and removes.

| code | model |
|---|---|
| the sidebars' elements and geometry | `dom`: a look, a layout, and a form |
| `validateLayout`'s verdict, `findAnchor`, `findProvisionalHostSlot` | `layout`: good, pending, bad; bare; slotless; settings |
| `sidebarIsEligible`, `sidebarIsVisible` | `look`: absent, hidden, visible |
| `state` | `panel`, a record; its fields have the code's names or name them |
| the host, where it is and whether it sits before its anchor | `host`, `anchored` |
| `layoutSettleStartedAtMs` and the 600 ms of grace | `settle` |
| `layoutBlockedSidebar`; `layoutBlockedContainer`, `...Anchor`, `...ScrollDock` | `blocked`; `from`, the sidebar these three are of: the one the host was in, which need not be the blocked one |
| `currentPanelLayoutSignature()` | `signature` |
| `mountRetryTimer`, `reconcileTimer`, the frames, the intervals | `retry`, `reconcile`, `frame`, `intervals` |
| `MutationObserver`, `ResizeObserver` | `observed`, `watching`, and the record of the host's own moves, `moved` |

Abstractions, with their reason:

* Geometry is its verdict. A layout may change its verdict with a mutation, a
  resize, or, inside the scroll region, with nothing that is observed
  (`Unseen`).
* `form` stands for the elements a sidebar is made of and its size: it tells
  the changes that lift a block from those that do not.
* A mutation is delivered before another callback runs, a resize before the
  next frame. What is drawn, in which words and colours, is left out, and so
  are the handler that waits for the document, a page without a body, and the
  replacement of an older version's controller.

Corners that the model shows: with two sidebars, the panel stays in one that
turns into the settings while it settles for the other (the third finding). A
block is released by a change of the sidebar the host came from, or by its
removal, although the blocked one is as it was. A hidden sidebar may have its
panel validated without the latest figures, and the clock of settling runs on
while its sidebar is hidden.

## 4. The runs

| run | instance | checks |
|---|---|---|
| `coordinator` | three delays, two account switches, `FairSpec` | `NoChangeLost`, `RetryChain`, `NobodyWaitsForever`, `StopQuiesces`, `PublishedForItsAccount`, `UnavailableOnlyWhenStale`, `ImplementsFeed`, `StreakEnds`, `StaleIsReported` |
| `pages` | one page, two publications, two troubles | `ClosedForgets`, `PanelsCleaned`, `InjectedIntoMainOnly`, `NeverShowsOlder` |
| `pages_two` | two pages, symmetric, one trouble | `ReadyPagesShowLatest` |
| `pages_live` | one page, which may hang, one publication, one trouble, `FairSpec` | `MainPagesCatchUp`, `ClosingTerminates` |
| `daemon` | two candidates, no cache | `Supervised`, `OneProviderAtWork`, `RecordTellsWhatIsShown`, `ShutdownComplete`, `OnlyRecoveryRevives` |
| `daemon_cache` | one candidate, the cache, two account switches | `CacheOfItsAccount`, `CachedForCurrentAccount`, `CachedComesFirst` |
| `daemon_live` | one candidate, no cache, `FairSpec` | `KeepsTrying`, `ShutdownTerminates` |
| `daemon_removal` | one candidate, no cache | `SessionRemoved` is violated: a finding |
| `app_server` | two reads, two messages in the pipe, `FairSpec` | `NoRequestOutlivesClient`, `EndIsAnnounced`, `ChildIsEnded`, `QuietAfterEnd`, `CallsSettle` |
| `app_server_unheard` | one read, two messages in the pipe | `UnexpectedCloseReported` is violated: a finding |
| `lifecycle` | three commands of any kind, one that dies | `OneAtATime`, `OwnerIsRecorded`, `UninstallsIdle`, `EngineIsThere`, `PortRecoverable` |
| `panel` | two sidebars, two changes of the page, one retry | `SettingsIsClear`, `BlockedStaysAway`, `NeverBlinks`, `OneCallIsEnough` |

Each module states its `TypeOK`. It is proved (`TypeCorrect`) for all six, and
no run repeats it.

**Bounds.** Three retry delays are the daemon's default and the smallest list
with a first, a middle and a last delay. Two account switches let an account
move both before and after the app-server's answer, and back to a stable read.
A "trouble" is a navigation, a route change, a lost session, a timeout, a
target that closes, a failed connection or poll, or a lost anchor: two of them
on one page cover every pair (a navigation during the recovery from a timeout,
say), and the troubles are the only reason for a validation to start again.
Two publications let an older call cross with a newer one (`pages`). Pages interact only
through the sync loop and `evaluateAll`, which two pages exercise.

Two candidates let a start run beside the recovery of its predecessor, and
beside the shutdown, and let the report of the one cross the publication of the
other. The order in which those two calls reach the bridge is then not the
order in which their updates reach the record. A publication that contradicts
one that was shown and is not recorded yet is what `crossed` records, and
`RecordTellsWhatIsShown` excepts what is shown by such a one, until the next
that contradicts none. The code lets record and panels differ there, and
neither it nor its documents promise more, so it is no finding. With the cache,
one candidate is enough for what a coordinator writes to cross with the replay
and with the account.

Two reads let the answer of one that timed out come during the next; two
messages in the pipe let one chunk hold an answer and a notification or a
protocol error behind it.

Three commands are what a hand-over needs: one whose leavings are met, one that
meets them, and one that comes between. They are exchangeable, so the run takes
them up to symmetry, and its view drops what a process has read and will not
use again. One process dies in it, which with the leftovers of the first state
makes two. Its constraint stops at the first race, behind which no property
claims anything, and after a death once every command has begun.

Two sidebars let one come while the other goes, or settle while the other
turns into the settings. Two changes of the page, each of which may change a
sidebar in every way at once, with any number of timers, frames and calls
between and after them, are a change and another that meets what the first has
left. The list of retry delays is one long, so that it runs out. The view drops
what makes no difference to what follows (a signature that blocks nothing, the
target of a settling that is over, a sidebar's form, whose changes matter and
not its value).

**Deadlock.** The coordinator's runs check deadlock. The pages' do not: a
watcher that has closed stops. Nor do the daemon's and the app-server's: a
daemon that has ended stops, and a provider that is closed is not used again;
nor does `lifecycle`: a command ends. `panel` checks it.

**Fairness.** The coordinator's: each await of the loop settles (client
requests have timeouts), the retry timer fires, closing a client ends with its
process killed, and publishing unavailability does not throw for ever (strong
fairness, since rounds in which it could happen come and go; the daemon's
`publishUnavailable` catches every error). No fairness for the poll loop, so
that the retry chain has to do without it, nor for anything the world does.
The pages': timers fire, those of the commands that an end waits for included
(the removal's second, the bridge's and the route check's timeouts); the browser
lists its targets and opens a connection, or fails to; the loop goes on. Nobody
has to publish, to send heartbeats or to stop, and no page has to answer:
`ClosingTerminates` holds for pages that hang at any await, and
`MainPagesCatchUp` has it as its condition that open pages evaluate what they
are sent (`PagesAnswer`), as a page that does not can show nothing. The daemon's:
files are read and written, the replay and the bridge's calls end (each has a
timeout), a search for the runtime and a start of the app-server end, one way
or the other, and the start's first refresh ends, though publications come and
go while it is awaited (strong fairness on `StartReturns`: a feed promises that
a refresh settles). A provider need never start, publish, live or die. The
app-server's: callbacks come to their end, and the timers of requests and of
`close()` have their turn however much the child says (strong fairness, since a
timer has to wait for the callback that runs: Node serves timers between two
chunks). The child need never answer, exit or be quiet.
`Lifecycle` and `Panel` have none. Of the commands nothing is promised in the
end: each wait has a timeout, after which the command gives up. Of the panel it
would say little, as the app may change its page for ever; `OneCallIsEnough` is
stronger, and as long as the host is in the page its countdown makes such a
call every 30 s.

**Three findings.** `daemon_removal` shows that a normal stop may leave
`session.json` behind. The shutdown awaits the updates of the record that are
in the queue (`daemon.mjs:379`) and removes the record, but nobody awaits a
`recoverProvider` (147-154) that began before the stop. The report it makes, or
the publication it waits for, can enqueue an update after line 379; if that
update has read the record before the removal (`session-state.mjs:32`), it
writes it again after it (35), with the status "stopping".
`test/daemon.test.mjs:96` expects of a stop that the record is gone.
`OnlyRecoveryRevives` shows that this is the only way.

`app_server_unheard` shows that a provider may start over a client that has
closed, and never say so. If the chunk that carries the answer to
`account/read` goes on with a line that is no JSON, one callback settles the
request and closes the client (`client.mjs:216-221`); the client's "close"
finds `#started` false (`provider.mjs:36`), and then `start()` sets it (53)
without a look at the client. Every `read()` of that provider throws, and since
"closed" was not emitted the daemon does not replace it.
`test/app-server-provider.test.mjs:85` says that a provider "reports an
unexpected app-server close". `EndIsAnnounced` shows that this is the only way.

The third is a divergence from the documents that a passing run shows. The
README says that "Entering Settings parks the custom card before the Settings
frame is painted" (`README.md:55-56`), the changelog that it does so "in the
first DOM mutation callback" (`CHANGELOG.md:11-12`). `SettingsIsClear` holds with
two exceptions, and `panel` finds it violated without either. When the sidebar
the panel is in turns into the settings while another one is active that has no
place to dock the panel yet, `mount()` settles for that one and leaves the panel
where it is (`panel-inject.js:2178-2180`), seen in the settings if both sidebars
are, for up to 600 ms. And when a sidebar that has become the settings in this way
is then made the active one by a resize, the resize's callback only schedules a
reconcile (1881, 1722-1728): the panel is seen in the settings for 80 ms more.

`ChildIsEnded` has an exception that no document speaks of: a protocol error
closes the client as if the child had ended (`client.mjs:285`), so the
`close()` that follows returns at once, with the child still running and its
stdin open.

## 5. What is proved

`QuotaCoordinator_proofs` proves, for any number of retry delays and of
account switches:

* `TypeCorrect`, and the invariants `NoChangeLost`, `RetryChain`,
  `NobodyWaitsForever`, `StopQuiesces`, `PublishedForItsAccount`,
  `UnavailableOnlyWhenStale`, each as `Spec => []...`;
* `FeedRefinement`: the coordinator implements the safety part of `QuotaFeed`
  (initial states map to initial states, each step to a step or a stutter).

The only assumptions are on the constants: `RetryDelays` and `MaxAccount` are
natural numbers and `NoContext` is none. The bound on account switches is a
constant of the model, not a restriction: the theorems hold for all of them.

The argument is one inductive invariant, `Inv`, the conjunction of

* `TypeOK`;
* `LoopInv`: which awaits, timers and callbacks can exist together (who awaits
  a refresh while the loop is idle; one retry at most; none without a streak;
  what `stop()` has cleared stays clear). The runs' invariants about the loop
  are its conjuncts or follow from them;
* `ReadInOrder`: of the two captures and the answer, the account each saw is
  no earlier than the one before. Needed because `PublishedForItsAccount`
  itself says nothing of the two awaits before the publication: it follows as
  equal ends of an ordered triple squeeze its middle;
* `ReportsAreStale`: the flag of the streak and the age of the figures at the
  await of the report, without which a report could not be told from one made
  after a success.

Each action of the loop is a step of each conjunct's proof; the shared ends of a round (`NextRound`, `Settles`,
`Fails`) have lemmas of their own.

`QuotaDaemon_proofs` proves, for any candidates, any number of account
switches, with the cache and without:

* `TypeCorrect`; `SupervisedHolds`, `OneProviderAtWorkHolds` and
  `ShutdownCompleteHolds`, from `Supervision`;
* `CacheOfItsAccountHolds`, `CachedForCurrentAccountHolds` and
  `CachedComesFirstHolds`.

It assumes that `None` is no candidate and no number, that `CacheEnabled` is a
Boolean and `MaxAccount` a natural number.

`Supervised` says that a serving daemon has a provider in charge or somebody at
work on one, and that a retry's timer is never armed beside a provider in
charge, a start or a stop. It does not say that these exclude one another: a
provider is in charge while it starts, and a recovery may stand beside any. The
supervision's invariant adds to it what it says nothing of:
which candidate a start is of, and that none is in charge while one is given
up (`ChargeInv`); that somebody awaits each candidate that stops, and that only
what was stopped is recovered (`StoppingInv`); that every publication under way
is of somebody who is awaited (`TaskInv`); and what each await of the shutdown
has established for the next ones (`MainInv`), which is how the end of the
command comes to know that nothing is left. `CacheInv` adds that an entry that
is loaded, and a write that has passed the comparison, are of their own
account, and that nothing is shown before the replay has begun; it rests on
the supervision, since nobody can publish before the bridge has started.

`QuotaDaemonRecord_proofs` goes on from it, about the session record:

* `OnlyRecoveryRevivesHolds`, an action property, for any candidates;
* `RecordTellsWhatIsShownHolds`: for any candidates, the record tells what is
  shown when nothing is under way, unless what is shown has crossed another;
* `NeverCrossedAlone`: that exception takes two candidates. With one no
  publication ever contradicts one that is not recorded yet.

The first is the reach of the known gap. `WritersInv` says whose updates may
still be in the queue: whoever enqueued one is at the await of it, or is
nobody, and the shutdown's own count covers those of nobody. By the time the
record is removed every publisher has been awaited but a recovery. For the
second, the invariant follows each status from what is shown to the update that
will carry it, past those that come before it in the queue; what has crossed is
taken up again with the next publication that contradicts none. The third shows
that the exception is no wider than it must be: an invariant of its own
(`AloneInv`) says that the one candidate's coordinator, its recovery and its
start report one at a time, or the same.

`AppServer_proofs` proves, for any set of reads and any capacity of the pipe:

* `TypeCorrect`; `NoRequestOutlivesClientHolds`, `EndIsAnnouncedHolds` and
  `ChildIsEndedHolds`, from `Invariance`;
* `QuietAfterEndHolds`, an action property, from the same invariant.

It assumes that `Reads` holds neither of the two requests of the start (nor
`"none"`), and that `MaxOutput` is a natural number. The invariant says what
the awaits of `start()` and `close()` tell of the provider (`CallInv`); that
the client closes once and handles nothing after, so that a chunk is only
there while it is open (`ClosedInv`); and who has heard of the end
(`HeardInv`). The last needs the window of the finding as a conjunct: a start
whose account is answered over a closed client is "unheard" before it goes on.

`PanelPages_proofs` proves, for any pages and any number of publications,
troubles and tolerated failures:

* `TypeCorrect`;
* `ClosedForgetsHolds`, and `InjectedIntoMainOnlyHolds` and
  `NeverShowsOlderHolds`, two action properties, from `Invariance`;
* `ReadyPagesShowLatestHolds` and `PanelsCleanedHolds`, from `PagesOk`.

It assumes that the three bounds are natural numbers, which the theorems hold
for all of.

`Invariance` says nothing of what the sessions bring back: whatever answer or
event a watcher may find there, and whatever it takes an answer to be of, what
follows from it holds. `SessionInv` says of the commands a page has still to
evaluate that what they show is in the order of publication and no older than
what the page shows (`Ordered`): a continuation only ever appends the bridge's
last call, or renames who awaits a command. `StageInv` relates a page's stage to
the rest: no session before it is connected, nothing connecting outside a sync.
What a step does to a page is the same for all continuations (`Continued`), so
that each has a lemma of a few lines, and the handlers share one.

`PagesOk` is about what the sessions bring back. `Sound` says that whoever was
injected still has its controller, and whoever was replayed to shows that, or
the watcher will hear of what has happened to the page: its target is gone, or
the navigation's event is on the wire (`Noticed`). Only so can a stage, which
the watcher keeps, and a document, which the app changes, be compared at all.
From it a page that is ready shows the last call, or has it on its way, or is
still to be sent it. `Leaving` says of a page that is let go of that its cleanup
is the last command it is sent, and that the answer comes behind the effect.
Of the order of a queue they need nothing but which command is the last, so that
sets of messages are enough, and a new generation is what it does to those sets. What it drops from
a queue (`Heeded`, a recursive function of the queue's length) is the one piece
of induction: over a least counterexample, as the library's well-foundedness of
the natural numbers gives it. `RestInv` adds, for the types, that every version
a session, a listing or a fingerprint holds is counted by the troubles.

`Panel_proofs` proves, for any number of sidebars, of changes of the page and
of retries:

* `TypeCorrect`, from `Invariance`;
* `SettingsIsClearHolds`, `BlockedStaysAwayHolds`, `NeverBlinksHolds` and
  `OneCallIsEnoughHolds`, the four action properties of the run.

It assumes that no sidebar has one of the names of the other places of the
host, that `None` is neither, and that the bounds are natural numbers.

The controller is one record and a callback is a chain of the code's functions
on it, so most of the proof is about these: for each, which fields it keeps and
what it keeps true. What is inductive is small. `Placed`: a host in a sidebar
is projected and its sidebar is watched, and while the panel is projected no
sidebar is blocked; `Alive`: a controller observes the page until it is cleaned,
and then has no host, no block and no sidebar it watches;
`Departing`: a panel in a sidebar that shows settings waits for another, active
one that has no dock (`Waits`), or has a reconcile due.
Every look at the page is then described once by what it may do to the host and
the block (`Onwards`), which composes along a chain (`OnwardsTrans`), and every
mount or reconcile by what it has reached at its end (`Settled`: in a sidebar
where it fits, the panel is shown with the latest figures, unless it is blocked
there, and it is in no sidebar that shows settings but while it waits). The properties follow from
those two, `OneCallIsEnough` from `Settled` alone: it needs nothing of the state
before.

`Lifecycle_proofs` and `LifecycleSession_proofs` prove, for any set of commands
of any kind and any number of deaths:

* `TypeCorrect`; `OneAtATimeHolds`, `EngineIsThereHolds`;
* `Ownership`, and from it `OwnerIsRecordedHolds` and `UninstallsIdleHolds`;
* `PortRecoverableHolds`.

So every property of `lifecycle` is proved. The assumptions are that the names
of commands, of what an earlier run left and of no file differ, that no record
and no lock is one of the two names of no file, and that `MaxCrashes` is a
natural number: it is a bound of the run, not of the theorems.

Five invariants build on each other. `SeenInv` adds to the types that what a
process has read is of the type of what its next step does with it. `LockInv`
is what `OneAtATime` needs to be inductive: whoever is past its lock is named
in it, unless it is an uninstall that has removed it with the root
(`HolderIsNamed`); whoever is named in a lock has run, so that a name is not
taken by a process yet to come (`NamedHasRun`); a lock that is about to be
broken was judged to be an ended process's, and an ended process stays so
(`JudgedHasEnded`): to find another name there is the race. `EngineInv` rests on
`OneAtATime`: an install that discards its engine has restored the record, and
nobody else has written it since.

`OwnerInv` is the argument by which start and uninstall exclude a daemon
without a common lock. It says, of each place a command stands at, what the
command knows of the daemons that may still pass their gate (`Claims`) and of
those that have (`Owns`): once it has read the record, that whoever claims it
is named in what it read (`Looked`); once it has found that process gone, that
nobody claims it (`Judged`); once it has looked at `daemon.lock` as well, that
nobody owns it (`Quiet`). No other order of the two looks would do, since a
daemon goes from the one to the other between them. And it says that a daemon
can pass only on a record that already has its PID, which only its own start
writes, as its last step. `WrittenInv` adds that a lock is readable by the time
its holder owns anything.

`PortInv` then says that the record, and every record that a process has read
and may yet write, holds the port Codex was activated with; that nobody can
write one read before the activation follows from `OwnerInv`. A start that
is given another port with `--port` overwrites the record on purpose
(`start.mjs:355`): there is then no activated port until its own launch.

## 6. What is only model-checked, and what is not modelled

Model-checked only:

* Liveness and fairness are TLC's: `ImplementsFeed` is checked in full by
  `coordinator`, and proved without its fairness. So are `StreakEnds`,
  `StaleIsReported`, `KeepsTrying`, `ShutdownTerminates`, `CallsSettle`,
  `MainPagesCatchUp` and `ClosingTerminates`.
* That a property can be violated at all: the findings are behaviours that TLC
  found.

Not modelled, with the reason for each component:

* `NativeSuppressor`: its steps are searches of the app's own document, by
  texts and shapes that only the app can answer for; what is left of its state,
  a count of attempts per page, is compared with a constant before each.
* `AppServerRuntime`, `WindowsLauncher`, `Shortcuts`, `Logger`, `DoctorCommand`,
  `CLI`, `ReleaseTools`: sequences of reads, checks and calls of the operating
  system, with no state between calls. What can come of them, a result or a
  failure, is a choice in the modules that use them (`Launch`,
  `CreateShortcuts`, `ValidateDaemon`, the search for a provider).
* `Normalization`: one pure function of an answer.

Left out of what is modelled:

* The recovery path at lines 231-238 of the coordinator is dead code (the
  refresh it awaits never rejects) and has no action.
* Of `Lifecycle`: `doctor`, which only reads; how a process is recognized (a
  recognized one is the recorded one, and a PID may be another's at any time);
  the runtime directory beside the engines; the `stop.request` of an earlier
  run; a session record that cannot be parsed, which fails a command where a
  record that names a live process does.
* Of `PanelPages` and `Panel`, what section 3 lists for each.
