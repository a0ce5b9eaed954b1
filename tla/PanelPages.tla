----------------------------- MODULE PanelPages -----------------------------
(***************************************************************************)
(* RendererBridge of src/host/renderer-bridge.mjs and CdpWatcher of        *)
(* src/cdp/watcher.mjs: how what is published reaches the pages of the     *)
(* Codex app.  The watcher discovers pages, validates, injects and         *)
(* revalidates each over a session of its own; the bridge remembers the    *)
(* last call, evaluates it on all active pages and replays it on a page    *)
(* that becomes active.                                                    *)
(*                                                                         *)
(* A session is two queues: `sent', the commands the page has not          *)
(* evaluated, and `wire', what the watcher has not handled of the answers  *)
(* and events.                                                             *)
(* A command carries who awaits it.  The generation of a page is only      *)
(* compared for equality, so it is not a number: revalidation turns a      *)
(* command that the current validation awaits into a "stale" one, when     *)
(* somebody still acts on its answer, or else into one that nobody awaits. *)
(*                                                                         *)
(* Handling an answer runs the code up to the next await.  The code may    *)
(* run that continuation after the next message of the session instead;    *)
(* the check of the generation then finds what the order here finds.       *)
(***************************************************************************)
EXTENDS Naturals, Sequences

CONSTANTS
    Targets,      \* page targets of the browser
    MaxRevision,  \* bound: how often something is published
    MaxFailures,  \* maxConsecutivePollFailures
    MaxTroubles,  \* bound: navigations, lost sessions, timeouts and failed polls
    Hung          \* bound: the targets that time out uncounted where an end is waited for

ASSUME MaxRevisionAssumption == MaxRevision \in Nat
ASSUME MaxFailuresAssumption == MaxFailures \in Nat
ASSUME MaxTroublesAssumption == MaxTroubles \in Nat

VARIABLES
    target,     \* external: "unborn", "open" or "gone"
    doc,        \* external: the document of the target's main frame
    url,        \* external: the version of the target's URL
    session,    \* the two queues of the page's session
    stage,      \* where the page's validation stands
    connecting, \* addPage is at work on these
    known,      \* the version of the URL in page.fingerprint
    ignored,    \* #ignoredTargets
    loop,       \* #watchLoop, or start() before it
    started,
    list, todo, \* syncTargets: what was listed, and which targets it has not handled
    failures,   \* #consecutivePollFailures
    aborted,    \* #abort
    revision,   \* #revision, and so #lastRendererCall
    runs,       \* the evaluateAll in progress of the publisher and of the heartbeat
    stopping,   \* cleanup() has been called
    orphan,     \* history: pages that could not be cleaned when their session ended
    troubles

browserVars == <<target, doc, url>>
pageVars == <<stage, connecting, known, ignored, orphan>>
loopVars == <<loop, started, list, todo, failures>>
bridgeVars == <<revision, runs, stopping>>
vars == <<browserVars, session, pageVars, loopVars, aborted, bridgeVars, troubles>>

-----------------------------------------------------------------------------

Revisions == 0..MaxRevision
Versions == 0..MaxTroubles
Callers == {"publisher", "heartbeat"}
Awaiters == Callers \cup {"validation", "stale", "route", "removal", "nobody"}
Calls == {"probe", "bootstrap", "present", "show", "heartbeat", "cleanup"}
Commands == [by : Awaiters, does : Calls, revision : Revisions]
Answers == [by : Awaiters, does : Calls, revision : Revisions,
            outcome : {"done", "skipped", "error"}]
Events == [by : {"browser"}, version : Versions]
Documents == [main : BOOLEAN, controller : BOOLEAN, mounted : BOOLEAN, shown : Revisions]

TypeOK ==
    /\ target \in [Targets -> {"unborn", "open", "gone"}]
    /\ doc \in [Targets -> Documents]
    /\ url \in [Targets -> Versions]
    /\ \A t \in Targets :
          /\ DOMAIN session[t] = {"sent", "wire"}
          /\ \A i \in DOMAIN session[t].sent : session[t].sent[i] \in Commands
          /\ \A i \in DOMAIN session[t].wire : session[t].wire[i] \in Answers \cup Events
    /\ stage \in [Targets -> {"untracked", "connecting", "settling", "probing",
                              "bootstrapping", "replaying", "ready", "removing"}]
    /\ connecting \subseteq Targets
    /\ known \in [Targets -> Versions]
    /\ ignored \subseteq Targets
    /\ loop \in {"delay", "listing", "syncing", "closing", "closed"}
    /\ started \in BOOLEAN
    /\ list \in [Targets -> Versions \cup {MaxTroubles + 1}]
    /\ todo \subseteq Targets
    /\ failures \in 0..MaxFailures
    /\ aborted \in BOOLEAN
    /\ revision \in Revisions
    /\ runs \in [Callers -> [does : Calls, left : SUBSET Targets]]
    /\ stopping \in BOOLEAN
    /\ orphan \subseteq Targets
    /\ troubles \in 0..MaxTroubles

Unlisted == MaxTroubles + 1
Fresh(main) == [main |-> main, controller |-> FALSE, mounted |-> FALSE, shown |-> 0]
Silent == [sent |-> <<>>, wire |-> <<>>]
Idle == [does |-> "present", left |-> {}]

Init ==
    /\ target \in [Targets -> {"unborn", "open"}]
    /\ doc \in [Targets -> {Fresh(TRUE), Fresh(FALSE)}]
    /\ url = [t \in Targets |-> 0]
    /\ session = [t \in Targets |-> Silent]
    /\ stage = [t \in Targets |-> "untracked"]
    /\ connecting = {}
    /\ known = [t \in Targets |-> 0]
    /\ ignored = {}
    /\ loop = "listing"
    /\ started = FALSE
    /\ list = [t \in Targets |-> Unlisted]
    /\ todo = {}
    /\ failures = 0
    /\ aborted = FALSE
    /\ revision = 0
    /\ runs = [c \in Callers |-> Idle]
    /\ stopping = FALSE
    /\ orphan = {}
    /\ troubles = 0

Trouble ==
    /\ troubles < MaxTroubles
    /\ troubles' = troubles + 1

Tracked(t) == stage[t] \notin {"untracked", "removing"}
Active(t) == stage[t] \in {"replaying", "ready"}
Removing == \E t \in Targets : stage[t] = "removing"

Awaits(by) ==
    \E t \in Targets :
        \/ \E i \in DOMAIN session[t].sent : session[t].sent[i].by = by
        \/ \E i \in DOMAIN session[t].wire : session[t].wire[i].by = by

-----------------------------------------------------------------------------
(* What a continuation does to a page t, of whose session `q' is left      *)
(* when the message it continues from has been taken.                      *)

Command(by, does, r) == [by |-> by, does |-> does, revision |-> r]

Moves(t, next) ==
    /\ stage' = [stage EXCEPT ![t] = next]
    /\ UNCHANGED <<connecting, ignored, orphan, runs>>

Consumes(t, q) ==
    /\ session' = [session EXCEPT ![t] = q]
    /\ UNCHANGED <<stage, connecting, ignored, orphan, runs>>

Sends(t, q, command, next) ==
    /\ session' = [session EXCEPT ![t] = [q EXCEPT !.sent = Append(@, command)]]
    /\ Moves(t, next)

Awaited(message) == message.by # "nobody"

(* What is left of a queue: nobody hears of what is not pending any more.  *)
Heeded(queue) ==
    LET F[n \in 0..Len(queue)] ==
            IF n = 0 THEN <<>>
            ELSE IF Awaited(queue[n]) THEN Append(F[n - 1], queue[n]) ELSE F[n - 1]
    IN  F[Len(queue)]

(* What a new generation leaves of a session.                              *)
Superseded(q) ==
    LET Stale(message) ==
            IF message.by # "validation" THEN message
            ELSE [message EXCEPT !.by = IF message.does = "show" THEN "stale" ELSE "nobody"]
        StaleAll(queue) == [i \in DOMAIN queue |-> Stale(queue[i])]
    IN  [sent |-> StaleAll(q.sent), wire |-> Heeded(StaleAll(q.wire))]

(* Faulty: a page that is active is left so.                               *)
RevalidatesInactive(t, q) ==
    IF Tracked(t) /\ ~Active(t)
    THEN /\ session' = [session EXCEPT ![t] = Superseded(q)]
         /\ Moves(t, "settling")
    ELSE Consumes(t, q)

(* scheduleRevalidation, deactivatePage: nothing for a page that is closed *)
(* or no longer tracked.                                                   *)
Revalidates(t, q) ==
    IF Tracked(t)
    THEN /\ session' = [session EXCEPT ![t] = Superseded(q)]
         /\ Moves(t, "settling")
    ELSE Consumes(t, q)

(* The session is closed: what is awaited of it is rejected, and its page  *)
(* is in none of the maps any more.  `unclean': it was lost, did not       *)
(* answer, or belonged to a page that was not active.                      *)
Ends(t, ignore, unclean) ==
    /\ session' = [session EXCEPT ![t] = Silent]
    /\ stage' = [stage EXCEPT ![t] = "untracked"]
    /\ connecting' = connecting \ {t}
    /\ ignored' = IF ignore THEN ignored \cup {t} ELSE ignored
    /\ orphan' = IF unclean /\ doc[t].mounted THEN orphan \cup {t} ELSE orphan \ {t}
    /\ runs' = [c \in Callers |-> [runs[c] EXCEPT !.left = @ \ {t}]]

Ignores(t) == Ends(t, TRUE, TRUE)

(* replayOnPage, whose last call was `replayed': the page is active, and   *)
(* is replayed to until it has seen the last call.  Its evaluate throws    *)
(* once the watcher is aborted.                                            *)
Replays(t, q, replayed) ==
    IF revision # replayed /\ ~aborted
    THEN Sends(t, q, Command("validation", "show", revision), "replaying")
    ELSE /\ session' = [session EXCEPT ![t] = q]
         /\ Moves(t, IF revision = replayed THEN "ready" ELSE "replaying")

(* The continuations of the validation.  An abort makes it stale, and the  *)
(* page stays where it is.                                                 *)
Probed(t, q, outcome) ==
    IF outcome = "done" /\ ~aborted
    THEN Sends(t, q, Command("validation", "bootstrap", 0), "bootstrapping")
    ELSE Revalidates(t, q)

Bootstrapped(t, q, outcome) ==
    CASE aborted -> Consumes(t, q)
      [] ~aborted /\ outcome = "done" -> Replays(t, q, 0)
      [] ~aborted /\ outcome # "done" -> Ignores(t)

(* Faulty: a replay that failed is repeated as it was.                     *)
ReplayedAgain(t, q, outcome, replayed) ==
    CASE outcome = "done" -> Replays(t, q, replayed)
      [] outcome = "skipped" -> Revalidates(t, q)
      [] outcome = "error" ->
            IF aborted THEN Consumes(t, q)
            ELSE Sends(t, q, Command("validation", "show", replayed), "replaying")

Replayed(t, q, outcome, replayed) ==
    CASE outcome = "done" -> Replays(t, q, replayed)
      [] outcome = "skipped" -> Revalidates(t, q)
      [] OTHER -> IF aborted THEN Consumes(t, q) ELSE Ignores(t)

(* Faulty: evaluateAll throws at the first page that does not answer.      *)
UpdatedOrThrows(t, q, caller, outcome) ==
    /\ session' = [session EXCEPT ![t] = q]
    /\ runs' = IF outcome = "error" THEN [runs EXCEPT ![caller].left = {}] ELSE runs
    /\ UNCHANGED <<stage, connecting, ignored, orphan>>

(* In evaluateAll an error is recorded, and the next page has its turn.    *)
Updated(t, q, caller, outcome) ==
    IF outcome = "skipped" THEN Revalidates(t, q) ELSE Consumes(t, q)

(* The continuation of whoever awaits `command'.  A replay of an earlier   *)
(* generation that was skipped revalidates the page all the same.          *)
Continues(t, q, command, outcome) ==
    CASE command.by = "validation" /\ command.does = "probe" -> Probed(t, q, outcome)
      [] command.by = "validation" /\ command.does = "bootstrap" -> Bootstrapped(t, q, outcome)
      [] command.by = "validation" /\ command.does = "show" ->
            Replayed(t, q, outcome, command.revision)
      [] command.by = "removal" -> Ends(t, FALSE, outcome = "error")
      [] command.by = "route" -> IF outcome = "done" THEN Consumes(t, q) ELSE Revalidates(t, q)
      [] command.by \in Callers -> Updated(t, q, command.by, outcome)
      [] command.by = "stale" ->
            IF outcome = "skipped" THEN Revalidates(t, q) ELSE Consumes(t, q)
      [] OTHER -> Consumes(t, q)

-----------------------------------------------------------------------------
(* The watcher handles what a session brings.                              *)

HandleAnswer(t) ==
    LET q == session[t] IN
    /\ q.wire # <<>>
    /\ Head(q.wire).by # "browser"
    /\ Continues(t, [q EXCEPT !.wire = Tail(@)], Head(q.wire), Head(q.wire).outcome)
    /\ UNCHANGED <<browserVars, known, loopVars, aborted, revision, stopping, troubles>>

HandleNavigation(t) ==
    LET q == session[t] IN
    /\ q.wire # <<>>
    /\ Head(q.wire).by = "browser"
    /\ known' = [known EXCEPT ![t] = Head(q.wire).version]
    /\ Revalidates(t, [q EXCEPT !.wire = Tail(@)])
    /\ UNCHANGED <<browserVars, loopVars, aborted, revision, stopping, troubles>>

(* Whose commands to t may time out any number of times: the loop waits    *)
(* for one removal and one route at a time, and a bridge that stops sends  *)
(* nothing new.                                                            *)
Closers(t) ==
    IF t \in Hung THEN {"route", "removal"} \cup (IF stopping THEN Callers ELSE {}) ELSE {}

(* A command is not answered in time; the page may still evaluate it.      *)
Expires(t, awaiters) ==
    LET q == session[t] IN
    /\ \E i \in DOMAIN q.sent :
          /\ q.sent[i].by \in awaiters
          /\ Continues(t, [q EXCEPT !.sent[i].by = "nobody"], q.sent[i], "error")
    /\ UNCHANGED <<browserVars, known, loopVars, aborted, revision, stopping>>

ClosingExpires(t) == Expires(t, Closers(t)) /\ UNCHANGED troubles

TimesOut(t) == ClosingExpires(t) \/ (Trouble /\ Expires(t, Awaiters \ {"nobody"}))

(* The socket closes.                                                      *)
SessionLost(t) ==
    /\ stage[t] # "untracked"
    /\ \/ target[t] = "gone" /\ UNCHANGED troubles
       \/ Trouble
    /\ Ends(t, stage[t] # "removing", TRUE)
    /\ UNCHANGED <<browserVars, known, loopVars, aborted, revision, stopping>>

-----------------------------------------------------------------------------
(* The validation's own steps, and addPage's.                              *)

(* The delay before a validation, or between two of its probes, is over.   *)
SettleElapses(t) ==
    /\ stage[t] = "settling"
    /\ ~aborted
    /\ Sends(t, session[t], Command("validation", "probe", 0), "probing")
    /\ UNCHANGED <<browserVars, known, loopVars, aborted, revision, stopping, troubles>>

Connects(t) ==
    /\ t \in connecting
    /\ target[t] = "open"
    /\ connecting' = connecting \ {t}
    /\ session' = [session EXCEPT ![t] = Superseded(@)]
    /\ stage' = [stage EXCEPT ![t] = "settling"]
    /\ UNCHANGED <<browserVars, known, ignored, orphan, loopVars, aborted, bridgeVars,
                   troubles>>

ConnectFails(t) ==
    /\ t \in connecting
    /\ Trouble
    /\ Ignores(t)
    /\ UNCHANGED <<browserVars, known, loopVars, aborted, revision, stopping>>

(* Faulty: an ignored target is ignored for good.                          *)
IgnoredForever(t) == t \in ignored /\ UNCHANGED vars

IgnoredRetryElapses(t) ==
    /\ t \in ignored
    /\ ignored' = ignored \ {t}
    /\ UNCHANGED <<browserVars, session, stage, connecting, known, orphan, loopVars,
                   aborted, bridgeVars, troubles>>

-----------------------------------------------------------------------------
(* The bridge, and evaluateAll of the watcher.                             *)

Begins(caller, does) ==
    runs' = [runs EXCEPT ![caller] =
                [does |-> does, left |-> {t \in Targets : Active(t)}]]

Running(caller) == runs[caller] # Idle

(* publish, publishCached and unavailable: the daemon's calls of them      *)
(* await one another.                                                      *)
Publish ==
    /\ started
    /\ ~Running("publisher") /\ ~stopping
    /\ revision < MaxRevision
    /\ revision' = revision + 1
    /\ Begins("publisher", "show")
    /\ UNCHANGED <<browserVars, session, pageVars, loopVars, aborted, stopping, troubles>>

Heartbeat ==
    /\ started
    /\ ~Running("heartbeat") /\ ~stopping
    /\ Begins("heartbeat", "heartbeat")
    /\ UNCHANGED <<browserVars, session, pageVars, loopVars, aborted, revision, stopping,
                   troubles>>

(* cleanup(): the daemon has settled its publications by then.  It may be  *)
(* told to stop while start() is still at its first sync.                  *)
Cleanup ==
    /\ ~Running("publisher") /\ ~stopping
    /\ stopping' = TRUE
    /\ Begins("publisher", "cleanup")
    /\ UNCHANGED <<browserVars, session, pageVars, loopVars, aborted, revision, troubles>>

EvaluatesNext(caller) ==
    /\ ~Awaits(caller)
    /\ \E t \in runs[caller].left :
          /\ runs' = [runs EXCEPT ![caller].left = @ \ {t}]
          /\ session' = IF Active(t)
                        THEN [session EXCEPT ![t].sent =
                                Append(@, Command(caller, runs[caller].does, revision))]
                        ELSE session
    /\ UNCHANGED <<browserVars, pageVars, loopVars, aborted, revision, stopping, troubles>>

(* The end of evaluateAll; cleanup() closes the watcher then.              *)
EvaluateAllEnds(caller) ==
    /\ Running(caller)
    /\ runs[caller].left = {} /\ ~Awaits(caller)
    /\ runs' = [runs EXCEPT ![caller] = Idle]
    /\ aborted' = (aborted \/ runs[caller].does = "cleanup")
    /\ UNCHANGED <<browserVars, session, pageVars, loopVars, revision, stopping, troubles>>

-----------------------------------------------------------------------------
(* syncTargets, await by await.                                            *)

(* Faulty: the page is not cleaned, as the bridge has cleaned all pages.   *)
RemovePageSilently(t) == Ends(t, FALSE, ~Active(t))

(* removePage: an active page is cleaned, and its session closed then.     *)
RemovePage(t) ==
    IF Active(t)
    THEN Sends(t, Superseded(session[t]), Command("removal", "cleanup", 0), "removing")
    ELSE Ends(t, FALSE, TRUE)

(* The list is there: targets that are not in it are forgotten.            *)
ListingReturns ==
    /\ loop = "listing"
    /\ list' = [t \in Targets |-> IF target[t] = "open" THEN url[t] ELSE Unlisted]
    /\ todo' = Targets
    /\ ignored' = {t \in ignored : target[t] = "open"}
    /\ loop' = "syncing"
    /\ UNCHANGED <<browserVars, session, stage, connecting, known, orphan, started, failures,
                   aborted, bridgeVars, troubles>>

(* Faulty: one failure more is tolerated, and counted.                     *)
ListingFailsTolerated(terminal) ==
    /\ loop = "listing"
    /\ Trouble
    /\ IF terminal \/ ~started \/ failures > MaxFailures
       THEN /\ aborted' = TRUE
            /\ loop' = "closing"
            /\ UNCHANGED failures
       ELSE /\ failures' = failures + 1
            /\ loop' = "delay"
            /\ UNCHANGED aborted
    /\ UNCHANGED <<browserVars, session, pageVars, started, list, todo, bridgeVars>>

(* The list, the identity or the owner cannot be read, or the browser is   *)
(* another one (`terminal').  The first sync fails start().                *)
ListingFails(terminal) ==
    /\ loop = "listing"
    /\ Trouble
    /\ IF terminal \/ ~started \/ failures = MaxFailures
       THEN /\ aborted' = TRUE
            /\ loop' = "closing"
            /\ UNCHANGED failures
       ELSE /\ failures' = failures + 1
            /\ loop' = "delay"
            /\ UNCHANGED aborted
    /\ UNCHANGED <<browserVars, session, pageVars, started, list, todo, bridgeVars>>

Handles(t) ==
    /\ loop = "syncing"
    /\ t \in todo
    /\ ~Removing /\ ~Awaits("route")
    /\ todo' = todo \ {t}
    /\ UNCHANGED <<browserVars, loop, started, list, failures, aborted, revision, stopping,
                   troubles>>

SyncRemoves(t) ==
    /\ Handles(t)
    /\ list[t] = Unlisted
    /\ IF Tracked(t)
       THEN RemovePage(t)
       ELSE UNCHANGED <<session, stage, connecting, ignored, orphan, runs>>
    /\ UNCHANGED known

(* Removals come first.                                                    *)
SyncsListed(t) ==
    /\ Handles(t)
    /\ \A u \in todo : list[u] # Unlisted

SyncFindsPage(t) ==
    /\ SyncsListed(t)
    /\ Tracked(t)
    /\ known' = [known EXCEPT ![t] = list[t]]
    /\ CASE known[t] = list[t] -> Consumes(t, session[t])
         [] known[t] # list[t] /\ Active(t) ->
               Sends(t, session[t], Command("route", "present", 0), stage[t])
         [] known[t] # list[t] /\ ~Active(t) -> Revalidates(t, session[t])

SyncAddsPage(t) ==
    /\ SyncsListed(t)
    /\ ~Tracked(t) /\ t \notin ignored
    /\ stage' = [stage EXCEPT ![t] = "connecting"]
    /\ connecting' = connecting \cup {t}
    /\ known' = [known EXCEPT ![t] = list[t]]
    /\ UNCHANGED <<session, ignored, orphan, runs>>

SyncSkipsIgnored(t) ==
    /\ SyncsListed(t)
    /\ ~Tracked(t) /\ t \in ignored
    /\ UNCHANGED <<session, stage, connecting, known, ignored, orphan, runs>>

(* The sync is over; the loop, once aborted, goes on to close.             *)
SyncEnds ==
    /\ loop = "syncing"
    /\ todo = {} /\ connecting = {} /\ ~Removing /\ ~Awaits("route")
    /\ loop' = "delay"
    /\ started' = TRUE
    /\ failures' = 0
    /\ list' = [t \in Targets |-> Unlisted]
    /\ UNCHANGED <<browserVars, session, pageVars, todo, aborted, bridgeVars, troubles>>

(* Faulty: the loop does not look at the abort signal.                     *)
PollElapsesAnyway ==
    /\ loop = "delay"
    /\ loop' = "listing"
    /\ UNCHANGED <<browserVars, session, pageVars, started, list, todo, failures, aborted,
                   bridgeVars, troubles>>

PollElapses ==
    /\ loop = "delay"
    /\ loop' = IF aborted THEN "closing" ELSE "listing"
    /\ UNCHANGED <<browserVars, session, pageVars, started, list, todo, failures, aborted,
                   bridgeVars, troubles>>

(* closeSessions, one page after the other: at the end of the loop, and in *)
(* close() when there is no loop yet.                                      *)
ClosesPage(t) ==
    /\ loop = "closing" \/ (aborted /\ stopping /\ ~started)
    /\ Tracked(t) /\ ~Removing
    /\ RemovePage(t)
    /\ UNCHANGED <<browserVars, known, loopVars, aborted, revision, stopping, troubles>>

(* Faulty: only the active pages are closed, not those in validation.      *)
ClosingEndsEarly ==
    /\ loop = "closing"
    /\ \A t \in Targets : ~Active(t) /\ stage[t] # "removing"
    /\ loop' = "closed"
    /\ ignored' = {}
    /\ UNCHANGED <<browserVars, session, stage, connecting, known, orphan, started, list,
                   todo, failures, aborted, bridgeVars, troubles>>

ClosingEnds ==
    /\ loop = "closing"
    /\ \A t \in Targets : stage[t] = "untracked"
    /\ loop' = "closed"
    /\ ignored' = {}
    /\ UNCHANGED <<browserVars, session, stage, connecting, known, orphan, started, list,
                   todo, failures, aborted, bridgeVars, troubles>>

(* The anchor's connection to the browser closes.                          *)
AnchorLost ==
    /\ ~aborted
    /\ Trouble
    /\ aborted' = TRUE
    /\ UNCHANGED <<browserVars, session, pageVars, loopVars, bridgeVars>>

-----------------------------------------------------------------------------
(* External: the pages.  The probe finds the app's main surface; a guarded *)
(* call finds the panel's controller, or is skipped.                       *)

(* Faulty: the bootstrap does not probe again.                             *)
FindsUnguarded(document, does) ==
    CASE does = "probe" -> document.main
      [] does = "bootstrap" -> TRUE
      [] OTHER -> document.controller

Finds(document, does) ==
    IF does \in {"probe", "bootstrap"} THEN document.main ELSE document.controller

Answer(command, outcome) ==
    [by |-> command.by, does |-> command.does, revision |-> command.revision,
     outcome |-> outcome]

(* What the panel's code makes of a call.                                  *)
Effect(document, command) ==
    CASE command.does = "bootstrap" -> [document EXCEPT !.controller = TRUE, !.mounted = TRUE]
      [] command.does = "heartbeat" -> [document EXCEPT !.mounted = TRUE]
      [] command.does = "show" -> [document EXCEPT !.shown = command.revision]
      [] command.does = "cleanup" -> [document EXCEPT !.mounted = FALSE]
      [] OTHER -> document

PageEvaluates(t) ==
    LET q == session[t]
        command == Head(q.sent)
        found == Finds(doc[t], command.does)
        answer == Answer(command, IF found THEN "done" ELSE "skipped")
    IN  /\ target[t] = "open"
        /\ q.sent # <<>>
        /\ session' = [session EXCEPT ![t] =
                [sent |-> Tail(q.sent),
                 wire |-> IF Awaited(answer) THEN Append(q.wire, answer) ELSE q.wire]]
        /\ doc' = IF found THEN [doc EXCEPT ![t] = Effect(@, command)] ELSE doc
        /\ UNCHANGED <<target, url, pageVars, loopVars, aborted, bridgeVars, troubles>>

(* A new document: what was not evaluated fails with the old one, or waits *)
(* for the new one.  The event comes before the answers of the new one.    *)
Navigates(t) ==
    LET q == session[t]
        event == [by |-> "browser", version |-> url[t] + 1]
        failed == Heeded([i \in DOMAIN q.sent |-> Answer(q.sent[i], "error")])
    IN  /\ target[t] = "open"
        /\ Trouble
        /\ \E main \in BOOLEAN : doc' = [doc EXCEPT ![t] = Fresh(main)]
        /\ url' = [url EXCEPT ![t] = @ + 1]
        /\ IF stage[t] \in {"untracked", "connecting"} /\ q = Silent
           THEN UNCHANGED session
           ELSE \E next \in {[q EXCEPT !.wire = Append(@, event)],
                             [sent |-> <<>>, wire |-> q.wire \o failed \o <<event>>],
                             [sent |-> <<>>, wire |-> q.wire \o <<event>> \o failed]} :
                   session' = [session EXCEPT ![t] = next]
        /\ UNCHANGED <<target, pageVars, loopVars, aborted, bridgeVars>>

(* Settings, or a narrow layout: the document stays, and its controller.   *)
ChangesRoute(t) ==
    /\ target[t] = "open"
    /\ Trouble
    /\ doc' = [doc EXCEPT ![t].main = ~@]
    /\ url' = [url EXCEPT ![t] = @ + 1]
    /\ UNCHANGED <<target, session, pageVars, loopVars, aborted, bridgeVars>>

TargetOpens(t) ==
    /\ target[t] = "unborn"
    /\ target' = [target EXCEPT ![t] = "open"]
    /\ UNCHANGED <<doc, url, session, pageVars, loopVars, aborted, bridgeVars, troubles>>

TargetCloses(t) ==
    /\ target[t] = "open"
    /\ Trouble
    /\ target' = [target EXCEPT ![t] = "gone"]
    /\ doc' = [doc EXCEPT ![t] = Fresh(FALSE)]
    /\ UNCHANGED <<url, session, pageVars, loopVars, aborted, bridgeVars>>

-----------------------------------------------------------------------------

PageSteps(t) ==
    \/ HandleAnswer(t) \/ HandleNavigation(t) \/ TimesOut(t) \/ SessionLost(t)
    \/ SettleElapses(t) \/ Connects(t) \/ ConnectFails(t) \/ IgnoredRetryElapses(t)

Syncing(t) ==
    \/ SyncRemoves(t) \/ SyncFindsPage(t) \/ SyncAddsPage(t) \/ SyncSkipsIgnored(t)
    \/ ClosesPage(t)

Loop ==
    \/ ListingReturns \/ SyncEnds \/ PollElapses \/ ClosingEnds
    \/ \E terminal \in BOOLEAN : ListingFails(terminal)

Bridge ==
    \/ Publish \/ Heartbeat \/ Cleanup
    \/ \E caller \in Callers : EvaluatesNext(caller) \/ EvaluateAllEnds(caller)

Browser(t) ==
    PageEvaluates(t) \/ Navigates(t) \/ ChangesRoute(t) \/ TargetOpens(t) \/ TargetCloses(t)

Next ==
    \/ \E t \in Targets : PageSteps(t) \/ Syncing(t) \/ Browser(t)
    \/ Loop \/ Bridge \/ AnchorLost

Spec == Init /\ [][Next]_vars

(* Timers fire, those of commands that the end waits for included; the     *)
(* browser lists its targets and opens a connection, or fails to; the loop *)
(* goes on.  Nothing makes a page answer, or anybody publish, send         *)
(* heartbeats, or stop.                                                    *)
Fairness ==
    /\ \A t \in Targets :
          /\ WF_vars(HandleAnswer(t) \/ HandleNavigation(t))
          /\ WF_vars(SettleElapses(t))
          /\ WF_vars(Connects(t) \/ ConnectFails(t))
          /\ WF_vars(IgnoredRetryElapses(t))
          /\ WF_vars(target[t] = "gone" /\ SessionLost(t))
          /\ WF_vars(ClosingExpires(t))
          /\ WF_vars(Syncing(t))
    /\ WF_vars(ListingReturns \/ \E terminal \in BOOLEAN : ListingFails(terminal))
    /\ WF_vars(SyncEnds)
    /\ WF_vars(PollElapses) /\ WF_vars(ClosingEnds)
    /\ \A caller \in Callers : WF_vars(EvaluatesNext(caller)) /\ WF_vars(EvaluateAllEnds(caller))

FairSpec == Spec /\ Fairness

-----------------------------------------------------------------------------

Quiet(t) == session[t] = Silent

(* A page whose replay is over, and of which nobody waits for anything,    *)
(* shows the last call of the bridge: whichever way navigations, replays   *)
(* and publications crossed, no page is left with older figures.           *)
ReadyPagesShowLatest ==
    \A t \in Targets :
        stage[t] = "ready" /\ Quiet(t) /\ target[t] = "open" =>
            \/ doc[t].controller /\ doc[t].shown = revision
            \/ runs["publisher"].does = "show" /\ t \in runs["publisher"].left

(* The panel is only put into a document while the probe holds of it: not  *)
(* into one the page navigated to between the probe and the injection.     *)
InjectedIntoMainOnly ==
    [][\A t \in Targets : doc'[t].controller /\ ~doc[t].controller => doc[t].main]_vars

(* A closed watcher has no page, no session and no caller waiting for one, *)
(* and stays so.                                                           *)
ClosedForgets ==
    loop = "closed" =>
        /\ connecting = {} /\ ignored = {}
        /\ \A t \in Targets : stage[t] = "untracked" /\ Quiet(t)

(* Closing takes the panel off every page, but for those whose session was *)
(* lost, not active (again) or not answering.                              *)
PanelsCleaned ==
    loop = "closed" => \A t \in Targets : doc[t].mounted => t \in orphan

(* Evaluations of one page reach it in order: what it shows is never       *)
(* replaced by something older, in one document.                           *)
NeverShowsOlder ==
    [][\A t \in Targets :
          doc'[t].controller /\ doc[t].controller => doc'[t].shown >= doc[t].shown]_vars

PagesAnswer == \A t \in Targets : WF_vars(PageEvaluates(t))

(* If open pages answer, every page that is the app's main surface shows   *)
(* the last call in the end, unless the watcher ends.                      *)
MainPagesCatchUp ==
    PagesAnswer =>
        \A t \in Targets :
            []<>(\/ aborted \/ stopping
                 \/ target[t] # "open" \/ ~doc[t].main
                 \/ doc[t].mounted /\ doc[t].shown = revision)

(* A watcher that is told to stop, or that gives up, closes in the end: at *)
(* whatever await it stands, and though no target of Hung answers again.   *)
ClosingTerminates == stopping \/ aborted ~> loop = "closed"

=============================================================================
