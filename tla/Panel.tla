------------------------------- MODULE Panel -------------------------------
(***************************************************************************)
(* The controller of src/renderer/panel-inject.js in one page of the app:  *)
(* where it puts the panel's host, when it takes it away, what the panel   *)
(* shows, and what is left of it after a cleanup.                          *)
(*                                                                         *)
(* The page has up to two sidebars, docked and floating, that come, hide   *)
(* and go.  The controller is sequential: an action is one callback or one *)
(* call of its API, run to its end, so its functions are operators from a  *)
(* DOM d and a state p of the controller to the next state.                *)
(***************************************************************************)
EXTENDS Naturals

CONSTANTS
    Sidebars,
    None,
    MaxAttempts, \* the length of MOUNT_RETRY_DELAYS_MS
    MaxChanges   \* bound: how often the app changes the page

ASSUME NoneAssumption ==
    /\ None \notin Sidebars \cup {"absent", "gone", "body"}
    /\ {"absent", "gone", "body"} \cap Sidebars = {}
ASSUME MaxAttemptsAssumption == MaxAttempts \in Nat
ASSUME MaxChangesAssumption == MaxChanges \in Nat

Looks == {"absent", "hidden", "visible"}

\* What the inside of a sidebar allows.  settings: the settings route;
\* slotless: no anchor, and nowhere to put the host provisionally; bare: such
\* a place, but no anchor or no scroll region; bad, pending, good: there is
\* an anchor, and what validateLayout says of a panel before it.
Layouts == {"settings", "slotless", "bare", "bad", "pending", "good"}
Anchored == {"bad", "pending", "good"}

\* form: the elements the sidebar is made of and its size, to tell the
\* changes that touch them from those inside it.
Sidebar ==
    {b \in [look : Looks, layout : Layouts, form : BOOLEAN] :
        b.look = "absent" => b.layout = "good" /\ ~b.form}

\* The layout signatures of what would be rendered.
Signatures == {"short", "tall"}

State == [
    cleaned : BOOLEAN,
    host : {"absent", "gone", "body"} \cup Sidebars, \* where the host is
    anchored : BOOLEAN, \* it sits before its anchor, and the dock is there
    sidebar : Sidebars \cup {None},
    mode : {"absent", "parked", "projected"},
    validated : BOOLEAN,                 \* geometryValidated
    ever : BOOLEAN,                      \* everGeometryValidated
    settle : {"off", "running", "over"}, \* layoutSettleStartedAtMs, and the grace
    target : Sidebars \cup {None},       \* layoutSettleTargetSidebar
    blocked : Sidebars \cup {None},      \* layoutBlockedSidebar
    from : Sidebars \cup {None},         \* of layoutBlockedContainer, -Anchor, -ScrollDock
    blockedSignature : Signatures,
    signature : Signatures,              \* currentPanelLayoutSignature()
    known : [Sidebars -> Looks],         \* surfaceMetadata
    latest : Sidebars \cup {None},       \* of the highest activation
    settingsRoute : BOOLEAN,
    outdated : BOOLEAN,                  \* what was rendered last is not the latest
    timedOut : BOOLEAN,                  \* heartbeatTimedOut
    retry : BOOLEAN,                     \* mountRetryTimer
    attempts : 0..MaxAttempts,
    reconcile : BOOLEAN,                 \* reconcileTimer
    frame : BOOLEAN,    \* a delayed validation of this projectionEpoch is due
    intervals : BOOLEAN,
    observed : BOOLEAN, \* lifecycleObserver
    watching : BOOLEAN, \* resizeObserver
    moved : BOOLEAN]    \* a mutation record of the host's own moves is due

VARIABLES dom, panel, changes

vars == <<dom, panel, changes>>

TypeOK ==
    /\ dom \in [Sidebars -> Sidebar]
    /\ panel \in State
    /\ changes \in 0..MaxChanges

-----------------------------------------------------------------------------
(* The sidebars.                                                           *)

\* clearLayoutBlock
Unblocked(p) == [p EXCEPT !.blocked = None, !.from = None]

\* findActiveSidebar notes what has come or come into view; a blocked
\* sidebar that did, or that is gone, is blocked no more.
Surveyed(d, p) ==
    LET reactivated == {s \in Sidebars :
            \/ d[s].look # "absent" /\ p.known[s] = "absent"
            \/ d[s].look = "visible" /\ p.known[s] # "visible"}
        freed == p.blocked # None
                   /\ (d[p.blocked].look = "absent" \/ p.blocked \in reactivated)
    IN [(IF freed THEN Unblocked(p) ELSE p) EXCEPT
            !.known = [s \in Sidebars |-> d[s].look],
            !.latest = IF reactivated = {} THEN @ ELSE CHOOSE s \in reactivated : TRUE]

Active(d, p) ==
    LET visible == {s \in Sidebars : d[s].look = "visible"}
        present == {s \in Sidebars : d[s].look # "absent"}
        pool == IF visible # {} THEN visible ELSE present
    IN IF pool = {} THEN None
       ELSE IF p.latest \in pool THEN p.latest ELSE CHOOSE s \in pool : TRUE

\* Mutant: the settings route is not looked for.
CheckedWithoutSettings(d, p) == Surveyed(d, p)

\* Mutant: the settings route is never left.
CheckedForGood(d, p) ==
    LET q == Surveyed(d, p)
        s == Active(d, q)
    IN [q EXCEPT !.settingsRoute = @ \/ (s # None /\ d[s].layout = "settings")]

\* rendererCheck: once on the settings route, the panel waits for a sidebar
\* that can take it.
Checked(d, p) ==
    LET q == Surveyed(d, p)
        s == Active(d, q)
    IN [q EXCEPT !.settingsRoute =
            \/ s # None /\ d[s].layout = "settings"
            \/ @ /\ (s = None \/ d[s].layout \notin Anchored)]

Projected(d, p, s) ==
    p.mode = "projected" /\ s # None /\ s = p.sidebar /\ d[s].look # "absent" /\ p.host = s

Healthy(d, p, s) == Projected(d, p, s) /\ p.anchored

-----------------------------------------------------------------------------
(* The host.                                                               *)

Rendered(p) == [p EXCEPT !.outdated = FALSE]

\* ensurePersistentHost
WithHost(p) ==
    CASE p.host = "absent" ->
            [Rendered(p) EXCEPT !.host = "body", !.mode = "parked", !.moved = TRUE]
      [] p.host = "gone" ->
            [p EXCEPT !.host = "body", !.anchored = FALSE, !.mode = "parked", !.moved = TRUE]
      [] OTHER -> p

\* parkPanel
Parked(p) ==
    Unblocked([p EXCEPT
        !.mode = "parked", !.frame = FALSE, !.reconcile = FALSE, !.watching = FALSE,
        !.host = IF @ = "absent" THEN @ ELSE "body",
        !.moved = @ \/ p.host \notin {"absent", "body"},
        !.anchored = FALSE, !.sidebar = None, !.settle = "off", !.target = None,
        !.validated = FALSE])

NoRetry(p) == [p EXCEPT !.retry = FALSE, !.attempts = 0]

\* scheduleMountRetry
Retrying(p) ==
    IF p.cleaned \/ p.retry \/ p.attempts >= MaxAttempts THEN p
    ELSE [p EXCEPT !.retry = TRUE, !.attempts = @ + 1]

Scheduled(p) == IF p.cleaned THEN p ELSE [p EXCEPT !.reconcile = TRUE]

\* A sidebar that is there but hidden keeps the panel for its return.
Prepared(p) == NoRetry([p EXCEPT !.validated = FALSE])

\* keepProjectedWhileSettling: the panel may sit in another sidebar than s.
Settling(d, p, s) ==
    LET q == IF p.target # s THEN [p EXCEPT !.target = s, !.settle = "running"]
             ELSE IF p.settle = "off" THEN [p EXCEPT !.settle = "running"] ELSE p
    IN IF q.settle = "running"
       THEN Scheduled(NoRetry([q EXCEPT !.validated = FALSE]))
       ELSE IF d[s].look = "absent" THEN Parked(q)
       ELSE [Parked(q) EXCEPT !.blocked = s, !.from = q.sidebar,
                              !.blockedSignature = q.signature]

\* applyProjectedValidation
Validated(d, p) ==
    IF p.anchored /\ d[p.sidebar].layout = "good"
    THEN NoRetry([p EXCEPT !.settle = "off", !.target = None, !.validated = TRUE,
                           !.ever = TRUE, !.blocked = None, !.from = None])
    ELSE IF \/ p.anchored /\ d[p.sidebar].layout = "pending"
            \/ p.ever /\ Projected(d, p, p.sidebar)
    THEN Settling(d, p, p.sidebar)
    ELSE Retrying(Parked(p))

\* projectHostProvisionally
CanProject(d, p, s) == p.ever /\ d[s].look = "visible" /\ d[s].layout = "bare"

Provisional(p, s) ==
    [p EXCEPT !.host = s, !.moved = @ \/ p.host # s, !.anchored = FALSE, !.sidebar = s,
              !.mode = "projected", !.validated = FALSE, !.frame = FALSE, !.watching = TRUE]

MountBare(d, p, s) ==
    IF CanProject(d, p, s) THEN Settling(d, Provisional(p, s), s)
    ELSE IF p.ever /\ Projected(d, p, p.sidebar) THEN Settling(d, p, s)
    ELSE IF Healthy(d, p, p.sidebar) THEN Retrying(p)
    ELSE Retrying(Parked(p))

\* The end of mount: the host before the anchor, then a first validation,
\* and a second one two frames later if the panel is still there.
MountAt(d, p, s) ==
    LET q == [Rendered(p) EXCEPT
                !.host = s, !.moved = @ \/ p.host # s, !.anchored = TRUE, !.sidebar = s,
                !.mode = "projected", !.settle = "off", !.target = None,
                !.frame = FALSE, !.watching = TRUE]
        v == Validated(d, q)
    IN IF d[s].look = "hidden" THEN Prepared(q)
       ELSE [v EXCEPT !.frame = (v.mode = "projected")]

Refreshed(d, p, s) ==
    IF d[s].look = "hidden" THEN Prepared(Rendered(p)) ELSE Validated(d, Rendered(p))

\* parkPanel, where the renderer check fails.
OffRoute(p) == IF p.host = "absent" /\ p.sidebar = None THEN p ELSE Parked(p)

\* ensureTimers, ensureLifecycleObserver
Awake(p) ==
    LET q == [p EXCEPT !.observed = TRUE]
    IN IF ~p.observed /\ p.host \in {"absent", "gone"} THEN Retrying(q) ELSE q

IsBlocked(p, s) == p.blocked = s /\ p.blockedSignature = p.signature

Mount(d, p) ==
    LET q == Checked(d, Awake([p EXCEPT !.cleaned = FALSE, !.intervals = TRUE]))
        h == WithHost(q)
        s == Active(d, h)
        u == Unblocked(h)
    IN IF q.settingsRoute THEN OffRoute(q)
       ELSE IF s = None THEN Retrying(Parked(h))
       ELSE IF IsBlocked(h, s) THEN h
       ELSE IF Healthy(d, u, s) THEN Refreshed(d, u, s)
       ELSE IF d[s].layout \in Anchored THEN MountAt(d, u, s)
       ELSE MountBare(d, u, s)

Reconcile(d, p) ==
    LET q == Checked(d, Awake(p))
        h == WithHost(q)
        s == Active(d, h)
    IN IF p.cleaned THEN p
       ELSE IF q.settingsRoute THEN OffRoute(q)
       ELSE IF s = None THEN Retrying(Parked(Rendered(h)))
       ELSE IF Healthy(d, h, s) THEN Refreshed(d, h, s)
       ELSE Mount(d, h)

-----------------------------------------------------------------------------
(* The calls of the API: each sets what is to be shown, then reconciles.   *)

Becomes(p) == panel' = p /\ UNCHANGED <<dom, changes>>

\* Something else is to be shown, whose signature may be another one.
Outdated(p) == {[p EXCEPT !.outdated = TRUE, !.timedOut = FALSE, !.signature = g] :
                    g \in Signatures}

\* update, unavailable
Update == \E p \in Outdated(panel) : Becomes(Reconcile(dom, p))

Beaten(p) == IF p.timedOut THEN Outdated(p) ELSE {p}

Heartbeat ==
    \E p \in Beaten(panel) : Becomes(IF p.cleaned THEN Mount(dom, p) ELSE Reconcile(dom, p))

\* The script is injected again, and finds the controller there.
Bootstrap ==
    \E p \in Beaten(panel) :
        Becomes(Mount(dom, IF p.cleaned THEN Mount(dom, p) ELSE Reconcile(dom, p)))

\* cleanup, destroyPanel, stopObservers
Cleaned(p) ==
    [NoRetry(Parked(p)) EXCEPT
        !.cleaned = TRUE, !.timedOut = FALSE, !.mode = "absent", !.ever = FALSE,
        !.host = "absent", !.intervals = FALSE, !.observed = FALSE, !.moved = FALSE]

Cleanup == Becomes(Cleaned(panel))

-----------------------------------------------------------------------------
(* Timers and frames.                                                      *)

\* What is shown ages.
Age == \E g \in Signatures \ {panel.signature} : Becomes([panel EXCEPT !.signature = g])

Countdown ==
    /\ panel.intervals /\ panel.host \notin {"absent", "gone"}
    /\ Becomes(Reconcile(dom, panel))

\* Mutant: a late heartbeat takes the panel away.
HeartbeatIsLateParks ==
    /\ panel.intervals /\ ~panel.timedOut
    /\ Becomes([Parked(panel) EXCEPT !.timedOut = TRUE])

\* markHeartbeatTimedOut
HeartbeatIsLate ==
    /\ panel.intervals /\ ~panel.timedOut
    /\ \E p \in Outdated(panel) :
        Becomes([(IF p.host = "absent" THEN p ELSE Rendered(p)) EXCEPT !.timedOut = TRUE])

\* refreshLocale, where the locale has changed
LocaleChanges ==
    /\ panel.intervals
    /\ \E g \in Signatures \ {panel.signature} :
        LET freed == panel.blocked # None /\ panel.blockedSignature # g
            p == [(IF freed THEN Scheduled(Unblocked(panel)) ELSE panel) EXCEPT !.signature = g]
        IN Becomes(IF panel.host \in {"absent", "gone"} THEN [p EXCEPT !.outdated = TRUE]
                   ELSE Rendered(p))

ReconcileFires ==
    /\ panel.reconcile
    /\ Becomes(Reconcile(dom, [panel EXCEPT !.reconcile = FALSE]))

RetryFires ==
    /\ panel.retry
    /\ LET p == [panel EXCEPT !.retry = FALSE]
       IN Becomes(IF p.cleaned THEN p ELSE Mount(dom, p))

\* The grace of a layout that settles has passed.
GraceElapses ==
    /\ panel.settle = "running"
    /\ Becomes([panel EXCEPT !.settle = "over"])

\* The second frame after mount: it matters while the host is where mount
\* put it, its anchor gone or not.
Frame ==
    /\ panel.frame
    /\ LET p == [panel EXCEPT !.frame = FALSE]
       IN \/ p.host = p.sidebar /\ Becomes(Validated(dom, p))
          \/ ~(p.host = p.sidebar /\ p.anchored) /\ Becomes(p)

-----------------------------------------------------------------------------
(* The app changes its page, and the observers report it: a mutation with  *)
(* a record before anything else runs, a resize before the next frame.     *)

\* Mutant: the removal of the host from its blocked place counts.
StirredByOwnToo(p, touches) == IF touches \/ p.moved THEN Unblocked(p) ELSE p

\* What releases a block, as records of a change of s to b tell it: they touch
\* the blocked sidebar, or elements that were around the host.
Touches(s, b) ==
    /\ s \in {panel.blocked, panel.from}
    /\ b.form # dom[s].form \/ b.look = "absent"

\* mutationsTouchBlockedLayout, which leaves the host's own records out.
Stirred(p, touches) == IF touches THEN Unblocked(p) ELSE p

\* onLifecycleMutation, of records that are not only the host's own.
OnMutation(d, p, touches) ==
    LET q == Checked(d, [Stirred(p, touches) EXCEPT !.moved = FALSE])
        s == Active(d, q)
    IN IF q.settingsRoute THEN Parked(q)
       ELSE IF s = None
            THEN Retrying(IF q.sidebar # None \/ q.host = "gone" THEN Parked(q) ELSE q)
       ELSE IF Healthy(d, q, s) THEN Scheduled(q)
       ELSE Mount(d, q)

\* onLifecycleMutation, of the host's own moves
OnOwnMutation(d, p) ==
    LET q == Checked(d, [p EXCEPT !.moved = FALSE])
        s == Active(d, q)
    IN IF q.settingsRoute THEN Parked(q)
       ELSE IF q.mode = "parked" THEN (IF q.host = "gone" THEN WithHost(q) ELSE q)
       ELSE IF s # None /\ ~Healthy(d, q, s) THEN Mount(d, q)
       ELSE IF s = None /\ q.host = "gone" THEN Parked(q)
       ELSE q

\* The resize observers: of the panel's surfaces, and of the blocked sidebar.
OnResize(d, p, s) ==
    LET q == Surveyed(d, p)
        a == Active(d, q)
    IN IF p.watching
       THEN IF a # None /\ ~Projected(d, q, a) THEN Mount(d, q) ELSE Scheduled(q)
       ELSE IF p.blocked = s /\ d[s].form # dom[s].form THEN Mount(d, Unblocked(p))
       ELSE p

\* What a change of s does to a host in it.
Displaced(d, p, s) ==
    IF p.host # s THEN p
    ELSE IF d[s].look = "absent" THEN [p EXCEPT !.host = "gone", !.anchored = FALSE]
    ELSE [p EXCEPT !.anchored = @ /\ d[s].layout \in Anchored /\ d[s].form = dom[s].form]

AppChanges(d, p) ==
    /\ changes < MaxChanges
    /\ changes' = changes + 1
    /\ dom' = d /\ panel' = p

\* It changes elements: those the sidebar is made of, or others.
Mutation(s) ==
    \E b \in Sidebar :
        LET d == [dom EXCEPT ![s] = b]
            p == Displaced(d, panel, s)
        IN AppChanges(d, IF p.observed THEN OnMutation(d, p, Touches(s, b)) ELSE p)

\* It draws its sidebar anew around the host, and without it.
HostTakenOut ==
    /\ panel.host \notin {"absent", "gone"}
    /\ LET p == [panel EXCEPT !.host = "gone", !.anchored = FALSE]
       IN AppChanges(dom, IF p.observed THEN OnOwnMutation(dom, p) ELSE p)

\* Sizes change, and no element: of what is observed, or inside it only.
Resized(s) ==
    {b \in Sidebar :
        /\ dom[s].look # "absent" /\ b.look # "absent"
        /\ b.layout = dom[s].layout \/ {b.layout, dom[s].layout} \subseteq Anchored}

Resize(s) ==
    \E b \in Resized(s) :
        LET d == [dom EXCEPT ![s] = b] IN AppChanges(d, OnResize(d, panel, s))

Unseen(s) ==
    \E b \in Resized(s) :
        /\ b.look = dom[s].look /\ b.form = dom[s].form /\ b # dom[s]
        /\ AppChanges([dom EXCEPT ![s] = b], panel)

OwnMutation ==
    /\ panel.moved
    /\ Becomes(OnOwnMutation(dom, panel))

-----------------------------------------------------------------------------
Fresh == [
    cleaned |-> FALSE, host |-> "absent", anchored |-> FALSE, sidebar |-> None,
    mode |-> "absent", validated |-> FALSE, ever |-> FALSE, settle |-> "off", target |-> None,
    blocked |-> None, from |-> None, blockedSignature |-> "short", signature |-> "short",
    known |-> [s \in Sidebars |-> "absent"], latest |-> None, settingsRoute |-> FALSE,
    outdated |-> TRUE, timedOut |-> FALSE, retry |-> FALSE, attempts |-> 0,
    reconcile |-> FALSE, frame |-> FALSE, intervals |-> TRUE, observed |-> FALSE,
    watching |-> FALSE, moved |-> FALSE]

\* The controller is created and mounts, in whatever page.
Init ==
    /\ dom \in [Sidebars -> {b \in Sidebar : ~b.form}]
    /\ panel = Mount(dom, Fresh)
    /\ changes = 0

\* Mutation records are delivered before another callback runs; a change of
\* the app may come before them, and is delivered with them.
Next ==
    \/ \E s \in Sidebars : Mutation(s)
    \/ OwnMutation
    \/ /\ ~panel.moved
       /\ \/ Update \/ Heartbeat \/ Bootstrap \/ Cleanup
          \/ Age \/ Countdown \/ HeartbeatIsLate \/ LocaleChanges
          \/ ReconcileFires \/ RetryFires \/ GraceElapses \/ Frame
          \/ HostTakenOut
          \/ \E s \in Sidebars : Resize(s) \/ Unseen(s)

Spec == Init /\ [][Next]_vars

-----------------------------------------------------------------------------
\* The panel can be shown in s.
InSight(s) == dom[s].look = "visible" /\ dom[s].layout = "good"

(* The panel never enters a settings sidebar.  When the one it is in turns *)
(* into the settings, the same callback takes it out, or else another      *)
(* sidebar is the active one, and has no place to dock the panel yet.  And *)
(* if a sidebar that was the settings already is the active one, with the  *)
(* panel in it, a reconcile is due.                                        *)
SettingsIsClear ==
    [][\A s \in Sidebars :
          panel'.host = s /\ dom'[s].layout = "settings" =>
            /\ panel.host = s
            /\ LET a == Active(dom', panel')
               IN IF a = s THEN dom[s].layout = "settings" /\ panel'.reconcile
                  ELSE dom'[a].layout \in {"slotless", "bare"}]_vars

\* The elements of s become others, or go.
Rebuilt(s) == dom'[s].form # dom[s].form \/ dom'[s].look = "absent"

(* A panel that did not fit is not put into the same sidebar again, and    *)
(* again taken out: it stays blocked there until the sidebar changes, or a *)
(* change of its look is noticed; the sidebar the panel was in when it was *)
(* given up is rebuilt or goes; something else is to be shown; another     *)
(* sidebar is the active one, or the page on the settings route; or the    *)
(* controller is cleaned up.  Its own leaving is no reason.                *)
BlockedStaysAway ==
    [][LET s == panel.blocked
       IN s # None /\ (panel'.blocked # s \/ panel'.host = s) =>
            \/ dom'[s] # dom[s]
            \/ Rebuilt(panel.from)
            \/ dom[s].look # panel.known[s]
            \/ panel'.signature # panel.blockedSignature
            \/ Active(dom', panel') # s \/ panel'.settingsRoute
            \/ panel'.cleaned]_vars

(* While its sidebar stays as it is and in sight, no callback takes a      *)
(* panel that fits out of it, or gives up that it fits.                    *)
NeverBlinks ==
    [][/\ panel.validated /\ Healthy(dom, panel, panel.sidebar)
       /\ InSight(panel.sidebar) /\ dom'[panel.sidebar] = dom[panel.sidebar]
       /\ Active(dom, panel) = panel.sidebar
       /\ Active(dom', panel') = panel.sidebar
       /\ ~panel'.cleaned
       => panel'.host = panel.sidebar /\ panel'.validated]_vars

(* A call or a timer that reconciles finds its way from whatever state:    *)
(* after it the panel is in the sidebar that can show it, with the latest  *)
(* figures, unless it is blocked there.                                    *)
OneCallIsEnough ==
    [][LET s == Active(dom, panel')
       IN /\ dom' = dom /\ ~panel'.cleaned
          /\ ~panel'.validated \/ panel'.outdated \/ ~Healthy(dom, panel', s)
          /\ s # None /\ InSight(s) /\ panel'.blocked # s
          => ~(Update \/ Heartbeat \/ Countdown \/ ReconcileFires)]_vars
=============================================================================
