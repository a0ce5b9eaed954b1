------------------------------ MODULE Panel_proofs ------------------------------
(***************************************************************************)
(* Proofs about Panel: its types, and what a change of the page, a call or *)
(* a timer may do to the panel, for any number of sidebars, of changes and *)
(* of retries.                                                             *)
(***************************************************************************)
EXTENDS Panel, TLAPS

Doms == [Sidebars -> Sidebar]

Looking(d) == [s \in Sidebars |-> d[s].look]

-----------------------------------------------------------------------------
(* The sidebars.                                                           *)

LEMMA SidebarType ==
    ASSUME NEW d \in Doms, NEW s \in Sidebars
    PROVE  /\ d[s] \in Sidebar
           /\ d[s].look \in Looks /\ d[s].layout \in Layouts /\ d[s].form \in BOOLEAN
BY DEF Doms, Sidebar

LEMMA LookingType == \A d \in Doms : Looking(d) \in [Sidebars -> Looks]
BY SidebarType DEF Looking

LEMMA LookingAt == \A d, s : s \in Sidebars => Looking(d)[s] = d[s].look
BY DEF Looking

(* The panel goes to a sidebar that is there.                              *)
LEMMA ActiveIsThere ==
    ASSUME NEW d, NEW p
    PROVE  /\ Active(d, p) \in Sidebars \cup {None}
           /\ Active(d, p) # None => d[Active(d, p)].look # "absent"
<1>. DEFINE visible == {s \in Sidebars : d[s].look = "visible"}
            present == {s \in Sidebars : d[s].look # "absent"}
            pool == IF visible # {} THEN visible ELSE present
<1>1. \A s \in pool : s \in Sidebars /\ d[s].look # "absent"
  OBVIOUS
<1>2. Active(d, p) = IF pool = {} THEN None
                     ELSE IF p.latest \in pool THEN p.latest ELSE CHOOSE s \in pool : TRUE
  BY DEF Active
<1>. HIDE DEF pool
<1>3. pool # {} => (CHOOSE s \in pool : TRUE) \in pool
  OBVIOUS
<1>4. Active(d, p) = None \/ Active(d, p) \in pool
  BY <1>2, <1>3
<1>. QED
  BY <1>1, <1>4, NoneAssumption

(* A page with a settings sidebar has an active one.                       *)
LEMMA SettingsIsThere ==
    ASSUME NEW d \in Doms, NEW p, NEW s \in Sidebars, d[s].layout = "settings"
    PROVE  Active(d, p) \in Sidebars
<1>. DEFINE visible == {z \in Sidebars : d[z].look = "visible"}
            present == {z \in Sidebars : d[z].look # "absent"}
            pool == IF visible # {} THEN visible ELSE present
<1>1. s \in present
  BY DEF Doms, Sidebar
<1>2. pool # {} /\ pool \subseteq Sidebars
  BY <1>1
<1>3. Active(d, p) = IF pool = {} THEN None
                     ELSE IF p.latest \in pool THEN p.latest ELSE CHOOSE z \in pool : TRUE
  BY DEF Active
<1>. HIDE DEF pool
<1>4. (CHOOSE z \in pool : TRUE) \in pool
  BY <1>2
<1>. QED
  BY <1>2, <1>3, <1>4

(* It depends on the page and on which sidebar came last.                  *)
LEMMA ActiveOf ==
    ASSUME NEW d, NEW p, NEW q, p.latest = q.latest
    PROVE  Active(d, p) = Active(d, q)
BY DEF Active

LEMMA UnblockedType ==
    ASSUME NEW p \in State
    PROVE  /\ Unblocked(p) \in State
           /\ Unblocked(p).blocked = None
BY DEF Unblocked, State

-----------------------------------------------------------------------------
(* What the functions keep, and what they keep true.                       *)

\* Where the host is, and what it shows.
Unmoved(p, r) ==
    /\ r.host = p.host /\ r.anchored = p.anchored /\ r.sidebar = p.sidebar
    /\ r.mode = p.mode /\ r.validated = p.validated /\ r.outdated = p.outdated
    /\ r.watching = p.watching

\* What has been found in the page, and whether the panel lives.
Kept(p, r) ==
    /\ r.known = p.known /\ r.latest = p.latest /\ r.settingsRoute = p.settingsRoute
    /\ r.signature = p.signature /\ r.cleaned = p.cleaned /\ r.observed = p.observed

\* A host in a sidebar is projected, its sidebar observed, and none blocked.
Placed(p) ==
    /\ p.host \in Sidebars => p.mode = "projected" /\ p.watching
    /\ p.mode = "projected" => p.blocked = None

\* A controller that lives observes the page; one that does not has no panel.
Alive(p) ==
    /\ p.cleaned <=> ~p.observed
    /\ p.cleaned => /\ p.host = "absent" /\ p.blocked = None
                    /\ ~p.watching /\ ~p.moved

LEMMA KeptTrans ==
    ASSUME NEW p, NEW q, NEW r, Kept(p, q), Kept(q, r)
    PROVE  Kept(p, r)
BY DEF Kept

(* What a survey of the page changes: what is known of it, which sidebar   *)
(* came last, and the block of a sidebar that came or went.                *)
LEMMA SurveyedIs ==
    ASSUME NEW d \in Doms, NEW p \in State
    PROVE  LET r == Surveyed(d, p)
           IN /\ r \in State /\ Unmoved(p, r)
              /\ r.known = Looking(d)
              /\ p.known = Looking(d) => r.latest = p.latest
              /\ r.signature = p.signature /\ r.blockedSignature = p.blockedSignature
              /\ r.cleaned = p.cleaned /\ r.observed = p.observed
              /\ r.reconcile = p.reconcile /\ r.settingsRoute = p.settingsRoute
              /\ r.blocked \in {p.blocked, None}
              /\ p.blocked # None /\ d[p.blocked].look # "absent"
                     /\ p.known[p.blocked] = d[p.blocked].look => r.blocked = p.blocked
<1>. DEFINE reactivated == {s \in Sidebars :
                \/ d[s].look # "absent" /\ p.known[s] = "absent"
                \/ d[s].look = "visible" /\ p.known[s] # "visible"}
            freed == p.blocked # None
                       /\ (d[p.blocked].look = "absent" \/ p.blocked \in reactivated)
            last == IF reactivated = {} THEN p.latest ELSE CHOOSE s \in reactivated : TRUE
            q == IF freed THEN Unblocked(p) ELSE p
            r == [q EXCEPT !.known = Looking(d), !.latest = last]
<1>1. Surveyed(d, p) = [q EXCEPT !.known = Looking(d),
                                 !.latest = IF reactivated = {} THEN @
                                            ELSE CHOOSE s \in reactivated : TRUE]
  BY DEF Surveyed, Looking
<1>2. q \in State /\ q.latest = p.latest
  <2>1. Unblocked(p).latest = p.latest
    BY DEF Unblocked, State
  <2>. QED  BY <2>1, UnblockedType
<1>3. Surveyed(d, p) = r
  BY <1>1, <1>2
<1>4. last \in Sidebars \cup {None}
  <2>1. reactivated # {} => (CHOOSE s \in reactivated : TRUE) \in reactivated
    OBVIOUS
  <2>. QED  BY <2>1 DEF State
<1>5. ASSUME p.known = Looking(d) PROVE last = p.latest
  <2>1. \A s \in Sidebars : p.known[s] = d[s].look
    BY <1>5, LookingAt
  <2>2. reactivated = {}
    BY <2>1
  <2>. QED  BY <2>2
<1>6. p.blocked # None /\ d[p.blocked].look # "absent"
          /\ p.known[p.blocked] = d[p.blocked].look => ~freed
  OBVIOUS
<1>7. /\ Unmoved(p, q)
      /\ q.signature = p.signature /\ q.blockedSignature = p.blockedSignature
      /\ q.cleaned = p.cleaned /\ q.observed = p.observed
      /\ q.reconcile = p.reconcile /\ q.settingsRoute = p.settingsRoute
      /\ q.blocked = IF freed THEN None ELSE p.blocked
  BY DEF Unblocked, State, Unmoved
<1>. HIDE DEF reactivated, freed, last, q
<1>8. r \in State
  BY <1>2, <1>4, LookingType DEF State
<1>9. /\ r.known = Looking(d) /\ r.latest = last /\ r.blocked = q.blocked
      /\ Unmoved(q, r)
      /\ r.signature = q.signature /\ r.blockedSignature = q.blockedSignature
      /\ r.cleaned = q.cleaned /\ r.observed = q.observed
      /\ r.reconcile = q.reconcile /\ r.settingsRoute = q.settingsRoute
  BY <1>2 DEF State, Unmoved
<1>. HIDE DEF r
<1>. QED  BY <1>3, <1>5, <1>6, <1>7, <1>8, <1>9 DEF Unmoved

(* What the renderer check adds: the settings route, for the sidebar that  *)
(* is active.                                                              *)
LEMMA CheckedIs ==
    ASSUME NEW d \in Doms, NEW p \in State
    PROVE  LET r == Checked(d, p)
               s == Active(d, r)
           IN /\ r \in State /\ Unmoved(p, r)
              /\ r.known = Looking(d)
              /\ p.known = Looking(d) => r.latest = p.latest
              /\ r.signature = p.signature /\ r.blockedSignature = p.blockedSignature
              /\ r.cleaned = p.cleaned /\ r.observed = p.observed
              /\ r.reconcile = p.reconcile
              /\ r.blocked \in {p.blocked, None}
              /\ p.blocked # None /\ d[p.blocked].look # "absent"
                     /\ p.known[p.blocked] = d[p.blocked].look => r.blocked = p.blocked
              /\ s \in Sidebars /\ d[s].layout = "settings" => r.settingsRoute
              /\ s \in Sidebars /\ d[s].layout \in Anchored => ~r.settingsRoute
              /\ s \in Sidebars /\ d[s].layout \notin Anchored /\ p.settingsRoute
                    => r.settingsRoute
<1>. DEFINE q == Surveyed(d, p)
            a == Active(d, q)
            route == \/ a # None /\ d[a].layout = "settings"
                     \/ q.settingsRoute /\ (a = None \/ d[a].layout \notin Anchored)
            r == [q EXCEPT !.settingsRoute = route]
<1>1. Checked(d, p) = r
  BY DEF Checked
<1>2. /\ q \in State /\ Unmoved(p, q)
      /\ q.known = Looking(d)
      /\ p.known = Looking(d) => q.latest = p.latest
      /\ q.signature = p.signature /\ q.blockedSignature = p.blockedSignature
      /\ q.cleaned = p.cleaned /\ q.observed = p.observed
      /\ q.reconcile = p.reconcile /\ q.settingsRoute = p.settingsRoute
      /\ q.blocked \in {p.blocked, None}
      /\ p.blocked # None /\ d[p.blocked].look # "absent"
             /\ p.known[p.blocked] = d[p.blocked].look => q.blocked = p.blocked
  BY SurveyedIs
<1>. HIDE DEF q
<1>3. route \in BOOLEAN
  BY <1>2 DEF State
<1>4. /\ a \in Sidebars => a # None
      /\ a \in Sidebars /\ d[a].layout = "settings" => route
      /\ a \in Sidebars /\ d[a].layout \in Anchored => ~route
      /\ a \in Sidebars /\ d[a].layout \notin Anchored /\ q.settingsRoute => route
  BY NoneAssumption DEF Anchored
<1>. HIDE DEF route
<1>5. /\ r \in State /\ Unmoved(q, r) /\ r.settingsRoute = route
      /\ r.known = q.known /\ r.latest = q.latest /\ r.blocked = q.blocked
      /\ r.signature = q.signature /\ r.blockedSignature = q.blockedSignature
      /\ r.cleaned = q.cleaned /\ r.observed = q.observed /\ r.reconcile = q.reconcile
  BY <1>2, <1>3 DEF State, Unmoved
<1>. HIDE DEF r
<1>6. Active(d, r) = a
  BY <1>5, ActiveOf
<1>. QED  BY <1>1, <1>2, <1>4, <1>5, <1>6 DEF Unmoved

-----------------------------------------------------------------------------
(* The host.                                                               *)

LEMMA UnblockedIs ==
    ASSUME NEW p \in State
    PROVE  LET r == Unblocked(p)
           IN /\ r \in State /\ Kept(p, r) /\ Unmoved(p, r)
              /\ r.blocked = None /\ r.reconcile = p.reconcile
BY DEF Unblocked, State, Kept, Unmoved

LEMMA RenderedIs ==
    ASSUME NEW p \in State
    PROVE  LET r == Rendered(p)
           IN /\ r \in State /\ Kept(p, r)
              /\ r.host = p.host /\ r.anchored = p.anchored /\ r.sidebar = p.sidebar
              /\ r.mode = p.mode /\ r.validated = p.validated /\ r.watching = p.watching
              /\ r.blocked = p.blocked /\ r.blockedSignature = p.blockedSignature
              /\ ~r.outdated
<1>1. Rendered(p) \in State
  BY Zenon DEF Rendered, State
<1>. QED  BY <1>1 DEF Rendered, State, Kept

LEMMA NoRetryIs ==
    ASSUME NEW p \in State
    PROVE  LET r == NoRetry(p)
           IN /\ r \in State /\ Kept(p, r) /\ Unmoved(p, r)
              /\ r.blocked = p.blocked /\ r.blockedSignature = p.blockedSignature
              /\ r.reconcile = p.reconcile
<1>1. 0 \in 0..MaxAttempts
  BY MaxAttemptsAssumption
<1>2. NoRetry(p) \in State
  BY <1>1, Zenon DEF NoRetry, State
<1>. QED  BY <1>2 DEF NoRetry, State, Kept, Unmoved

LEMMA RetryingIs ==
    ASSUME NEW p \in State
    PROVE  LET r == Retrying(p)
           IN /\ r \in State /\ Kept(p, r) /\ Unmoved(p, r)
              /\ r.blocked = p.blocked /\ r.blockedSignature = p.blockedSignature
              /\ r.reconcile = p.reconcile
<1>1. p.attempts < MaxAttempts => p.attempts + 1 \in 0..MaxAttempts
  BY MaxAttemptsAssumption DEF State
<1>2. ~(p.attempts >= MaxAttempts) => p.attempts < MaxAttempts
  BY MaxAttemptsAssumption DEF State
<1>3. CASE p.cleaned \/ p.retry \/ p.attempts >= MaxAttempts
  BY <1>3 DEF Retrying, Kept, Unmoved
<1>4. CASE ~(p.cleaned \/ p.retry \/ p.attempts >= MaxAttempts)
  <2>. DEFINE next == p.attempts + 1
              r == [p EXCEPT !.retry = TRUE, !.attempts = next]
  <2>1. Retrying(p) = r
    BY <1>4 DEF Retrying, State
  <2>2. next \in 0..MaxAttempts
    BY <1>1, <1>2, <1>4
  <2>. HIDE DEF next
  <2>3. r \in State
    BY <2>2, Zenon DEF State
  <2>4. Kept(p, r) /\ Unmoved(p, r)
    BY DEF State, Kept, Unmoved
  <2>5. /\ r.blocked = p.blocked /\ r.blockedSignature = p.blockedSignature
        /\ r.reconcile = p.reconcile
    BY DEF State
  <2>. QED  BY <2>1, <2>3, <2>4, <2>5
<1>. QED  BY <1>3, <1>4

LEMMA ScheduledIs ==
    ASSUME NEW p \in State
    PROVE  LET r == Scheduled(p)
           IN /\ r \in State /\ Kept(p, r) /\ Unmoved(p, r)
              /\ r.blocked = p.blocked /\ r.blockedSignature = p.blockedSignature
              /\ p.reconcile => r.reconcile
              /\ ~p.cleaned => r.reconcile
<1>1. [p EXCEPT !.reconcile = TRUE] \in State
  BY Zenon DEF State
<1>2. CASE p.cleaned
  BY <1>2 DEF Scheduled, Kept, Unmoved
<1>3. CASE ~p.cleaned
  BY <1>1, <1>3 DEF Scheduled, State, Kept, Unmoved
<1>. QED  BY <1>2, <1>3

LEMMA ParkedIs ==
    ASSUME NEW p \in State
    PROVE  LET r == Parked(p)
           IN /\ r \in State /\ Kept(p, r) /\ Placed(r)
              /\ r.host \notin Sidebars /\ r.mode = "parked" /\ r.blocked = None
              /\ r.host = "absent" <=> p.host = "absent"
              /\ ~r.watching
<1>. DEFINE home == IF p.host = "absent" THEN p.host ELSE "body"
            due == p.moved \/ p.host \notin {"absent", "body"}
            k == [p EXCEPT
              !.mode = "parked", !.frame = FALSE, !.reconcile = FALSE, !.watching = FALSE,
              !.host = home, !.moved = due,
              !.anchored = FALSE, !.sidebar = None, !.settle = "off", !.target = None,
              !.validated = FALSE]
            r == Unblocked(k)
<1>1. Parked(p) = r
  BY DEF Parked, State
<1>2. home \in {"absent", "body"} /\ (home = "absent" <=> p.host = "absent")
  OBVIOUS
<1>3. due \in BOOLEAN
  BY DEF State
<1>. HIDE DEF home, due
<1>4. k \in State
  BY <1>2, <1>3, ZenonT(60) DEF State
<1>5. Kept(p, k) /\ k.host = home /\ k.mode = "parked"
  BY DEF State, Kept
<1>6. ~k.watching
  BY DEF State
<1>. HIDE DEF k
<1>7. r \in State /\ Kept(k, r) /\ Unmoved(k, r) /\ r.blocked = None
  BY <1>4, UnblockedIs
<1>. HIDE DEF r
<1>8. r.host = home /\ r.mode = "parked" /\ ~r.watching /\ Kept(p, r)
  BY <1>5, <1>6, <1>7, KeptTrans DEF Unmoved
<1>9. r.host \notin Sidebars
  BY <1>2, <1>8, NoneAssumption
<1>. QED  BY <1>1, <1>2, <1>7, <1>8, <1>9 DEF Placed

LEMMA WithHostIs ==
    ASSUME NEW p \in State, Placed(p)
    PROVE  LET r == WithHost(p)
           IN /\ r \in State /\ Kept(p, r) /\ Placed(r)
              /\ r.host \notin {"absent", "gone"}
              /\ r.blocked = p.blocked /\ r.blockedSignature = p.blockedSignature
              /\ r.host \in Sidebars \/ p.host \in Sidebars => r = p
<1>. DEFINE r == WithHost(p)
<1>1. CASE p.host = "absent"
  <2>1. r = [Rendered(p) EXCEPT !.host = "body", !.mode = "parked", !.moved = TRUE]
    BY <1>1 DEF WithHost
  <2>. DEFINE q == Rendered(p)
  <2>2. q \in State /\ Kept(p, q) /\ q.blocked = p.blocked
            /\ q.blockedSignature = p.blockedSignature
    BY RenderedIs
  <2>. HIDE DEF q, r
  <2>3. r \in State
    BY <2>1, <2>2, Zenon DEF State, q
  <2>4. /\ Kept(q, r) /\ r.host = "body" /\ r.mode = "parked"
        /\ r.blocked = q.blocked /\ r.blockedSignature = q.blockedSignature
    BY <2>1, <2>2 DEF State, Kept, q
  <2>. QED  BY <1>1, <2>2, <2>3, <2>4, KeptTrans, NoneAssumption DEF Placed, r
<1>2. CASE p.host = "gone"
  <2>1. r = [p EXCEPT !.host = "body", !.anchored = FALSE, !.mode = "parked", !.moved = TRUE]
    BY <1>2 DEF WithHost
  <2>. HIDE DEF r
  <2>2. r \in State
    BY <2>1, Zenon DEF State
  <2>3. /\ Kept(p, r) /\ r.host = "body" /\ r.mode = "parked"
        /\ r.blocked = p.blocked /\ r.blockedSignature = p.blockedSignature
    BY <2>1 DEF State, Kept
  <2>. QED  BY <1>2, <2>2, <2>3, NoneAssumption DEF Placed, r
<1>3. CASE p.host \notin {"absent", "gone"}
  <2>1. r = p
    BY <1>3 DEF WithHost
  <2>. QED  BY <1>3, <2>1 DEF Kept
<1>. QED  BY <1>1, <1>2, <1>3

LEMMA PreparedIs ==
    ASSUME NEW p \in State
    PROVE  LET r == Prepared(p)
           IN /\ r \in State /\ Kept(p, r)
              /\ r.host = p.host /\ r.anchored = p.anchored /\ r.sidebar = p.sidebar
              /\ r.mode = p.mode /\ r.watching = p.watching
              /\ r.blocked = p.blocked /\ r.blockedSignature = p.blockedSignature
<1>. DEFINE q == [p EXCEPT !.validated = FALSE]
<1>1. q \in State
  BY Zenon DEF State
<1>2. /\ Kept(p, q)
      /\ q.host = p.host /\ q.anchored = p.anchored /\ q.sidebar = p.sidebar
      /\ q.mode = p.mode /\ q.watching = p.watching
      /\ q.blocked = p.blocked /\ q.blockedSignature = p.blockedSignature
  BY DEF State, Kept
<1>3. Prepared(p) = NoRetry(q)
  BY DEF Prepared
<1>. HIDE DEF q
<1>. QED  BY <1>1, <1>2, <1>3, NoRetryIs, KeptTrans DEF Unmoved

(* A layout that settles keeps the panel where it is, to be looked at      *)
(* again, or blocks the sidebar once its grace is over.                    *)
LEMMA SettlingIs ==
    ASSUME NEW d \in Doms, NEW p \in State, NEW s \in Sidebars \cup {None}, Placed(p)
    PROVE  LET r == Settling(d, p, s)
           IN /\ r \in State /\ Kept(p, r) /\ Placed(r)
              /\ \/ r.host \notin Sidebars
                 \/ /\ r.host = p.host /\ r.blocked = p.blocked
                    /\ p.reconcile => r.reconcile
<1>. DEFINE q == IF p.target # s THEN [p EXCEPT !.target = s, !.settle = "running"]
                 ELSE IF p.settle = "off" THEN [p EXCEPT !.settle = "running"] ELSE p
            r == Settling(d, p, s)
<1>1. q \in State
  <2>1. [p EXCEPT !.target = s, !.settle = "running"] \in State
    BY Zenon DEF State
  <2>2. [p EXCEPT !.settle = "running"] \in State
    BY Zenon DEF State
  <2>. QED  BY <2>1, <2>2
<1>2. /\ Kept(p, q) /\ q.host = p.host /\ q.mode = p.mode /\ q.watching = p.watching
      /\ q.blocked = p.blocked /\ q.reconcile = p.reconcile
  BY DEF State, Kept
<1>3. r = IF q.settle = "running" THEN Scheduled(NoRetry([q EXCEPT !.validated = FALSE]))
          ELSE IF d[s].look = "absent" THEN Parked(q)
          ELSE [Parked(q) EXCEPT !.blocked = s, !.from = q.sidebar,
                                 !.blockedSignature = q.signature]
  BY DEF Settling
<1>. HIDE DEF q, r
<1>4. CASE q.settle = "running"
  <2>. DEFINE v == [q EXCEPT !.validated = FALSE]
  <2>1. v \in State
    BY <1>1, ZenonT(60) DEF State
  <2>2. /\ Kept(q, v) /\ v.host = q.host /\ v.mode = q.mode /\ v.watching = q.watching
        /\ v.blocked = q.blocked /\ v.reconcile = q.reconcile
    BY <1>1 DEF State, Kept
  <2>3. r = Scheduled(NoRetry(v))
    BY <1>3, <1>4
  <2>. HIDE DEF v
  <2>. DEFINE w == NoRetry(v)
  <2>4. /\ w \in State /\ Kept(v, w) /\ w.host = v.host /\ w.mode = v.mode
        /\ w.watching = v.watching /\ w.blocked = v.blocked /\ w.reconcile = v.reconcile
    BY <2>1, NoRetryIs DEF Unmoved
  <2>. HIDE DEF w
  <2>5. /\ r \in State /\ Kept(w, r) /\ r.host = w.host /\ r.mode = w.mode
        /\ r.watching = w.watching /\ r.blocked = w.blocked /\ (w.reconcile => r.reconcile)
    BY <2>3, <2>4, ScheduledIs DEF Unmoved, w
  <2>6. Kept(p, r)
    BY <1>2, <2>2, <2>4, <2>5, KeptTrans
  <2>. QED  BY <1>2, <2>2, <2>4, <2>5, <2>6 DEF Placed, r
<1>5. CASE q.settle # "running"
  <2>. DEFINE v == Parked(q)
              b == [v EXCEPT !.blocked = s, !.from = q.sidebar, !.blockedSignature = q.signature]
  <2>1. v \in State /\ Kept(q, v) /\ v.host \notin Sidebars /\ v.mode = "parked"
    BY <1>1, ParkedIs
  <2>3. q.signature \in Signatures /\ q.sidebar \in Sidebars \cup {None}
    BY <1>1 DEF State
  <2>. HIDE DEF v
  <2>4. b \in State
    BY <2>1, <2>3, Zenon DEF State
  <2>2. Kept(v, b) /\ b.host = v.host /\ b.mode = v.mode
    BY <2>1 DEF State, Kept
  <2>. HIDE DEF b
  <2>5. r \in {v, b}
    BY <1>3, <1>5 DEF v, b
  <2>6. r \in State /\ Kept(v, r) /\ r.host = v.host /\ r.mode = v.mode
    BY <2>1, <2>2, <2>4, <2>5 DEF Kept
  <2>7. Kept(p, r)
    BY <1>2, <2>1, <2>6, KeptTrans
  <2>. QED  BY <2>1, <2>6, <2>7 DEF Placed, r
<1>. QED  BY <1>4, <1>5

(* A panel is shown in s when it is before its anchor there, fits, and has *)
(* the latest figures.                                                     *)
Shown(d, p, s) == Healthy(d, p, s) /\ p.validated /\ ~p.outdated

Fits(d, s) == s \in Sidebars /\ d[s].look = "visible" /\ d[s].layout = "good"

LEMMA ValidatedIs ==
    ASSUME NEW d \in Doms, NEW p \in State, Placed(p)
    PROVE  LET r == Validated(d, p)
           IN /\ r \in State /\ Kept(p, r) /\ Placed(r)
              /\ \/ r.host \notin Sidebars
                 \/ /\ r.host = p.host /\ r.blocked \in {p.blocked, None}
                    /\ p.reconcile => r.reconcile
              /\ p.anchored /\ d[p.sidebar].layout = "good" =>
                    /\ r.validated /\ r.host = p.host /\ r.sidebar = p.sidebar
                    /\ r.mode = p.mode /\ r.anchored /\ r.outdated = p.outdated
<1>. DEFINE r == Validated(d, p)
            good == p.anchored /\ d[p.sidebar].layout = "good"
            settles == \/ p.anchored /\ d[p.sidebar].layout = "pending"
                       \/ p.ever /\ Projected(d, p, p.sidebar)
            q == [p EXCEPT !.settle = "off", !.target = None, !.validated = TRUE,
                           !.ever = TRUE, !.blocked = None, !.from = None]
<1>1. \/ good /\ r = NoRetry(q)
      \/ ~good /\ settles /\ r = Settling(d, p, p.sidebar)
      \/ ~good /\ r = Retrying(Parked(p))
  BY DEF Validated
<1>2. CASE good /\ r = NoRetry(q)
  <2>1. q \in State
    BY ZenonT(30) DEF State
  <2>2. /\ Kept(p, q) /\ q.validated /\ q.host = p.host /\ q.sidebar = p.sidebar
        /\ q.mode = p.mode /\ q.anchored = p.anchored /\ q.outdated = p.outdated
        /\ q.watching = p.watching /\ q.blocked = None /\ q.reconcile = p.reconcile
    BY DEF State, Kept
  <2>. HIDE DEF q, r
  <2>3. /\ r \in State /\ Kept(q, r) /\ r.validated = q.validated /\ r.host = q.host
        /\ r.sidebar = q.sidebar /\ r.mode = q.mode /\ r.anchored = q.anchored
        /\ r.outdated = q.outdated /\ r.watching = q.watching /\ r.blocked = q.blocked
        /\ r.reconcile = q.reconcile
    BY <1>2, <2>1, NoRetryIs DEF Unmoved
  <2>4. Kept(p, r)
    BY <2>2, <2>3, KeptTrans
  <2>. QED  BY <1>2, <2>2, <2>3, <2>4 DEF Placed, r
<1>3. CASE ~good /\ settles /\ r = Settling(d, p, p.sidebar)
  <2>1. p.sidebar \in Sidebars \cup {None}
    BY DEF State
  <2>. HIDE DEF r, good, settles
  <2>. QED  BY <1>3, <2>1, SettlingIs DEF r, good
<1>4. CASE ~good /\ r = Retrying(Parked(p))
  <2>. DEFINE v == Parked(p)
  <2>1. v \in State /\ Kept(p, v) /\ v.host \notin Sidebars /\ v.mode = "parked"
    BY ParkedIs
  <2>. HIDE DEF v, r
  <2>2. r \in State /\ Kept(v, r) /\ r.host = v.host /\ r.mode = v.mode
    BY <1>4, <2>1, RetryingIs DEF v, Unmoved
  <2>3. Kept(p, r)
    BY <2>1, <2>2, KeptTrans
  <2>. QED  BY <1>4, <2>1, <2>2, <2>3 DEF Placed, r
<1>. HIDE DEF r, good, settles
<1>. QED  BY <1>1, <1>2, <1>3, <1>4

-----------------------------------------------------------------------------
(* Mounting.                                                               *)

LEMMA ProjectedType ==
    ASSUME NEW p \in State, NEW s \in Sidebars, NEW moved \in BOOLEAN,
           NEW no \in BOOLEAN, NEW yes \in BOOLEAN,
           NEW mode \in {"absent", "parked", "projected"}
    PROVE  [p EXCEPT !.host = s, !.moved = moved, !.anchored = no, !.sidebar = s,
                     !.mode = mode, !.validated = no, !.frame = no,
                     !.watching = yes] \in State
BY ZenonT(60) DEF State

LEMMA ProvisionalIs ==
    ASSUME NEW p \in State, NEW s \in Sidebars, p.blocked = None
    PROVE  LET r == Provisional(p, s)
           IN /\ r \in State /\ Kept(p, r) /\ Placed(r)
              /\ r.host = s /\ r.blocked = None
<1>. DEFINE due == p.moved \/ p.host # s
            r == [p EXCEPT !.host = s, !.moved = due, !.anchored = FALSE, !.sidebar = s,
                           !.mode = "projected", !.validated = FALSE, !.frame = FALSE,
                           !.watching = TRUE]
<1>1. Provisional(p, s) = r
  BY DEF Provisional
<1>2. due \in BOOLEAN
  BY DEF State
<1>. HIDE DEF due
<1>3. r \in State
  BY <1>2, ProjectedType, Zenon
<1>4. Kept(p, r) /\ r.host = s /\ r.mode = "projected" /\ r.blocked = p.blocked
  BY DEF State, Kept
<1>5. r.watching
  BY DEF State
<1>. HIDE DEF r
<1>. QED  BY <1>1, <1>3, <1>4, <1>5 DEF Placed

LEMMA MountBareIs ==
    ASSUME NEW d \in Doms, NEW p \in State, Placed(p), p.blocked = None, NEW s \in Sidebars
    PROVE  LET r == MountBare(d, p, s)
           IN /\ r \in State /\ Kept(p, r) /\ Placed(r)
              /\ r.host \in Sidebars => r.host \in {p.host, s}
<1>. DEFINE r == MountBare(d, p, s)
<1>1. \/ r = Settling(d, Provisional(p, s), s)
      \/ r = Settling(d, p, s)
      \/ r = Retrying(p)
      \/ r = Retrying(Parked(p))
  BY DEF MountBare
<1>2. CASE r = Settling(d, Provisional(p, s), s)
  <2>. DEFINE q == Provisional(p, s)
  <2>1. q \in State /\ Kept(p, q) /\ Placed(q) /\ q.host = s
    BY ProvisionalIs
  <2>. HIDE DEF q, r
  <2>2. /\ r \in State /\ Kept(q, r) /\ Placed(r)
        /\ r.host \notin Sidebars \/ r.host = q.host
    BY <1>2, <2>1, SettlingIs DEF q
  <2>. QED  BY <2>1, <2>2, KeptTrans DEF r
<1>3. CASE r = Settling(d, p, s)
  BY <1>3, SettlingIs
<1>4. CASE r = Retrying(p)
  BY <1>4, RetryingIs DEF Unmoved, Placed
<1>5. CASE r = Retrying(Parked(p))
  <2>. DEFINE q == Parked(p)
  <2>1. q \in State /\ Kept(p, q) /\ Placed(q) /\ q.host \notin Sidebars
    BY ParkedIs
  <2>. HIDE DEF q, r
  <2>2. r \in State /\ Kept(q, r) /\ Unmoved(q, r) /\ r.blocked = q.blocked
    BY <1>5, <2>1, RetryingIs DEF q
  <2>. QED  BY <2>1, <2>2, KeptTrans DEF r, Placed, Unmoved
<1>. HIDE DEF r
<1>. QED  BY <1>1, <1>2, <1>3, <1>4, <1>5 DEF r

LEMMA MountAtIs ==
    ASSUME NEW d \in Doms, NEW p \in State, p.blocked = None, NEW s \in Sidebars,
           d[s].look # "absent"
    PROVE  LET r == MountAt(d, p, s)
           IN /\ r \in State /\ Kept(p, r) /\ Placed(r)
              /\ r.host \in Sidebars => r.host = s
              /\ Fits(d, s) => Shown(d, r, s)
<1>. DEFINE r == MountAt(d, p, s)
            o == Rendered(p)
            due == o.moved \/ p.host # s
            q == [o EXCEPT
                    !.host = s, !.moved = due, !.anchored = TRUE, !.sidebar = s,
                    !.mode = "projected", !.settle = "off", !.target = None,
                    !.frame = FALSE, !.watching = TRUE]
            v == Validated(d, q)
<1>1. o \in State /\ Kept(p, o) /\ o.blocked = None /\ ~o.outdated
  BY RenderedIs
<1>2. r = IF d[s].look = "hidden" THEN Prepared(q)
          ELSE [v EXCEPT !.frame = (v.mode = "projected")]
  <2>1. [Rendered(p) EXCEPT
                !.host = s, !.moved = @ \/ p.host # s, !.anchored = TRUE, !.sidebar = s,
                !.mode = "projected", !.settle = "off", !.target = None,
                !.frame = FALSE, !.watching = TRUE] = q
    OBVIOUS
  <2>. HIDE DEF q, o
  <2>. QED  BY <2>1 DEF MountAt
<1>3. due \in BOOLEAN
  BY DEF State
<1>. HIDE DEF o, due
<1>4. q \in State
  BY <1>1, <1>3, ZenonT(60) DEF State
<1>5. /\ Kept(o, q) /\ q.host = s /\ q.sidebar = s /\ q.mode = "projected"
      /\ q.blocked = o.blocked /\ q.outdated = o.outdated
  BY <1>1 DEF State, Kept
<1>6. q.anchored /\ q.watching
  BY <1>1 DEF State
<1>. HIDE DEF q
<1>7. Placed(q) /\ Kept(p, q)
  BY <1>1, <1>5, <1>6, KeptTrans DEF Placed
<1>8. CASE d[s].look = "hidden"
  <2>. HIDE DEF r
  <2>1. /\ r \in State /\ Kept(q, r) /\ r.host = q.host /\ r.mode = q.mode
        /\ r.watching = q.watching /\ r.blocked = q.blocked
    BY <1>2, <1>4, <1>8, PreparedIs
  <2>. QED  BY <1>5, <1>7, <1>8, <2>1, KeptTrans DEF r, Placed, Fits
<1>9. CASE d[s].look # "hidden"
  <2>1. /\ v \in State /\ Kept(q, v) /\ Placed(v)
        /\ v.host \notin Sidebars \/ v.host = q.host
        /\ d[s].layout = "good" =>
              /\ v.validated /\ v.host = s /\ v.sidebar = s
              /\ v.mode = "projected" /\ v.anchored /\ v.outdated = q.outdated
    BY <1>4, <1>5, <1>6, <1>7, ValidatedIs
  <2>. DEFINE due2 == (v.mode = "projected")
  <2>. HIDE DEF v
  <2>2. due2 \in BOOLEAN
    OBVIOUS
  <2>3. r = [v EXCEPT !.frame = due2]
    BY <1>2, <1>9 DEF v
  <2>. HIDE DEF r, due2
  <2>4. r \in State
    <3>1. v \in State
      BY <2>1
    <3>2. [v EXCEPT !.frame = due2] \in State
      BY <2>2, <3>1, SMT DEF State
    <3>. QED  BY <2>3, <3>2
  <2>5. /\ Kept(v, r) /\ Unmoved(v, r) /\ r.blocked = v.blocked
    BY <2>1, <2>3 DEF State, Kept, Unmoved
  <2>6. Kept(p, r)
    BY <1>7, <2>1, <2>5, KeptTrans
  <2>7. Placed(r) /\ (r.host \in Sidebars => r.host = s)
    BY <1>5, <2>1, <2>5 DEF Placed, Unmoved
  <2>8. ASSUME Fits(d, s) PROVE Shown(d, r, s)
    <3>1. /\ r.validated /\ r.host = s /\ r.sidebar = s /\ r.mode = "projected"
          /\ r.anchored
      BY <2>1, <2>5, <2>8 DEF Fits, Unmoved
    <3>2. ~r.outdated
      BY <1>1, <1>5, <2>1, <2>5, <2>8 DEF Fits, Unmoved
    <3>3. d[s].look # "absent" /\ s # None
      BY NoneAssumption
    <3>. QED  BY <3>1, <3>2, <3>3 DEF Shown, Healthy, Projected
  <2>. QED  BY <2>4, <2>6, <2>7, <2>8 DEF r
<1>. QED  BY <1>8, <1>9

LEMMA RefreshedIs ==
    ASSUME NEW d \in Doms, NEW p \in State, Placed(p), NEW s \in Sidebars, Healthy(d, p, s)
    PROVE  LET r == Refreshed(d, p, s)
           IN /\ r \in State /\ Kept(p, r) /\ Placed(r)
              /\ r.host \in Sidebars => r.host = s
              /\ Fits(d, s) => Shown(d, r, s)
<1>. DEFINE r == Refreshed(d, p, s)
            q == Rendered(p)
<1>1. /\ q \in State /\ Kept(p, q) /\ q.host = p.host /\ q.anchored = p.anchored
      /\ q.sidebar = p.sidebar /\ q.mode = p.mode /\ q.watching = p.watching
      /\ q.blocked = p.blocked /\ ~q.outdated
  BY RenderedIs
<1>2. /\ p.mode = "projected" /\ p.sidebar = s /\ d[s].look # "absent" /\ p.host = s
      /\ p.anchored /\ s # None
  BY NoneAssumption DEF Healthy, Projected
<1>3. r = IF d[s].look = "hidden" THEN Prepared(q) ELSE Validated(d, q)
  BY DEF Refreshed
<1>. HIDE DEF q
<1>4. Placed(q)
  BY <1>1 DEF Placed
<1>5. CASE d[s].look = "hidden"
  <2>. HIDE DEF r
  <2>1. /\ r \in State /\ Kept(q, r) /\ r.host = q.host /\ r.mode = q.mode
        /\ r.watching = q.watching /\ r.blocked = q.blocked
    BY <1>1, <1>3, <1>5, PreparedIs
  <2>. QED  BY <1>1, <1>2, <1>4, <1>5, <2>1, KeptTrans DEF r, Placed, Fits
<1>6. CASE d[s].look # "hidden"
  <2>. HIDE DEF r
  <2>1. /\ r \in State /\ Kept(q, r) /\ Placed(r)
        /\ r.host \notin Sidebars \/ r.host = q.host
        /\ d[s].layout = "good" =>
              /\ r.validated /\ r.host = s /\ r.sidebar = s
              /\ r.mode = "projected" /\ r.anchored /\ r.outdated = q.outdated
    <3>1. r = Validated(d, q)
      BY <1>3, <1>6
    <3>2. q.anchored /\ q.sidebar = s /\ q.host = s /\ q.mode = "projected"
      BY <1>1, <1>2
    <3>. QED  BY <1>1, <1>4, <3>1, <3>2, ValidatedIs
  <2>2. Fits(d, s) => Shown(d, r, s)
    BY <1>1, <1>2, <2>1 DEF Fits, Shown, Healthy, Projected
  <2>. QED  BY <1>1, <1>2, <2>1, <2>2, KeptTrans DEF r
<1>. QED  BY <1>5, <1>6

LEMMA OffRouteIs ==
    ASSUME NEW p \in State, Placed(p)
    PROVE  LET r == OffRoute(p)
           IN r \in State /\ Kept(p, r) /\ Placed(r) /\ r.host \notin Sidebars
<1>1. CASE p.host = "absent" /\ p.sidebar = None
  BY <1>1, NoneAssumption DEF OffRoute, Kept
<1>2. CASE ~(p.host = "absent" /\ p.sidebar = None)
  BY <1>2, ParkedIs DEF OffRoute
<1>. QED  BY <1>1, <1>2

LEMMA AwakeIs ==
    ASSUME NEW p \in State
    PROVE  LET r == Awake(p)
           IN /\ r \in State /\ Unmoved(p, r) /\ r.observed
              /\ r.known = p.known /\ r.latest = p.latest
              /\ r.settingsRoute = p.settingsRoute
              /\ r.signature = p.signature /\ r.blockedSignature = p.blockedSignature
              /\ r.cleaned = p.cleaned /\ r.blocked = p.blocked
<1>. DEFINE q == [p EXCEPT !.observed = TRUE]
            r == Awake(p)
<1>1. q \in State
  BY Zenon DEF State
<1>2. /\ Unmoved(p, q) /\ q.known = p.known /\ q.latest = p.latest
      /\ q.settingsRoute = p.settingsRoute
      /\ q.signature = p.signature /\ q.blockedSignature = p.blockedSignature
      /\ q.cleaned = p.cleaned /\ q.blocked = p.blocked
  BY DEF State, Unmoved
<1>3. q.observed
  BY DEF State
<1>4. r = q \/ r = Retrying(q)
  BY DEF Awake
<1>. HIDE DEF q, r
<1>5. Retrying(q) \in State /\ Kept(q, Retrying(q)) /\ Unmoved(q, Retrying(q))
          /\ Retrying(q).blocked = q.blocked
          /\ Retrying(q).blockedSignature = q.blockedSignature
  BY <1>1, RetryingIs
<1>6. CASE r = q
  BY <1>1, <1>2, <1>3, <1>6 DEF r
<1>7. CASE r = Retrying(q)
  <2>1. /\ r \in State /\ r.observed /\ r.known = q.known /\ r.latest = q.latest
        /\ r.settingsRoute = q.settingsRoute
        /\ r.signature = q.signature /\ r.blockedSignature = q.blockedSignature
        /\ r.cleaned = q.cleaned /\ r.blocked = q.blocked
    BY <1>3, <1>5, <1>7 DEF Kept
  <2>2. Unmoved(p, r)
    BY <1>2, <1>5, <1>7 DEF Unmoved
  <2>. QED  BY <1>2, <2>1, <2>2 DEF r
<1>. QED  BY <1>4, <1>6, <1>7

-----------------------------------------------------------------------------
(* What mount and reconcile come to.                                       *)

Lives(p) == p \in State /\ Placed(p) /\ p.observed /\ ~p.cleaned

\* Not on a route that can take the panel.
Off(d, p, s) == p.settingsRoute /\ d[s].layout \notin Anchored

Blocks(p, s) == p.blocked = s /\ p.blockedSignature = p.signature

\* From p to r the page d was looked at: a host that is in a sidebar was there
\* or has gone to the active one; a block is not made of nothing where the
\* panel fits; and a block that holds keeps the panel out.
Onwards(d, p, r) ==
    /\ Lives(r)
    /\ r.known = Looking(d) /\ r.signature = p.signature
    /\ p.known = Looking(d) => r.latest = p.latest
    /\ r.host \in Sidebars => r.host = p.host \/ r.host = Active(d, r)
    /\ \A s \in Sidebars : Active(d, r) = s =>
          /\ Fits(d, s) /\ r.blocked = s => p.blocked = s
          /\ Off(d, p, s) => Off(d, r, s)
    /\ \A s \in Sidebars : Blocks(p, s) /\ p.known[s] = d[s].look =>
          /\ r.host # s
          /\ Active(d, r) = s => Blocks(r, s) \/ Off(d, r, s)

\* A panel in a settings sidebar that is not the active one waits for that one.
Waits(d, r) ==
    \A s \in Sidebars :
        r.host = s /\ d[s].layout = "settings" /\ Active(d, r) # s
            => d[Active(d, r)].layout \in {"slotless", "bare"}

\* In the active sidebar the panel is shown if it fits and is not blocked, and
\* it is not there on the settings route.
Settled(d, r) ==
    /\ Waits(d, r)
    /\ \A s \in Sidebars : Active(d, r) = s =>
        /\ d[s].layout = "settings" \/ Off(d, r, s) => r.host # s
        /\ Fits(d, s) => Shown(d, r, s) \/ r.blocked = s

LEMMA OnwardsTrans ==
    ASSUME NEW d \in Doms, NEW p, NEW q, NEW r, Onwards(d, p, q), Onwards(d, q, r), Settled(d, r)
    PROVE  Onwards(d, p, r)
<1>1. Active(d, q) = Active(d, r)
  BY ActiveOf DEF Onwards
<1>2. /\ Lives(r) /\ r.known = Looking(d) /\ r.signature = p.signature
      /\ p.known = Looking(d) => r.latest = p.latest
  BY DEF Onwards
<1>3. r.host \in Sidebars => r.host = p.host \/ r.host = Active(d, r)
  BY <1>1 DEF Onwards
<1>4. ASSUME NEW s \in Sidebars, Active(d, r) = s
      PROVE  /\ Fits(d, s) /\ r.blocked = s => p.blocked = s
             /\ Off(d, p, s) => Off(d, r, s)
  BY <1>1, <1>4 DEF Onwards
<1>5. ASSUME NEW s \in Sidebars, Blocks(p, s), p.known[s] = d[s].look
      PROVE  /\ r.host # s
             /\ Active(d, r) = s => Blocks(r, s) \/ Off(d, r, s)
  <2>1. q.host # s /\ (Active(d, r) = s => Blocks(q, s) \/ Off(d, q, s))
    BY <1>1, <1>5 DEF Onwards
  <2>2. q.known[s] = d[s].look
    BY LookingAt DEF Onwards
  <2>3. CASE Active(d, r) # s
    BY <2>1, <2>3 DEF Onwards
  <2>4. CASE Active(d, r) = s /\ Blocks(q, s)
    BY <2>2, <2>4 DEF Onwards
  <2>5. CASE Active(d, r) = s /\ Off(d, q, s)
    BY <2>5 DEF Onwards, Settled
  <2>. QED  BY <2>1, <2>3, <2>4, <2>5
<1>. QED  BY <1>2, <1>3, <1>4, <1>5 DEF Onwards

(* A look at the page, before anything is done about it.                   *)
LEMMA LookOnwards ==
    ASSUME NEW d \in Doms, NEW p \in State, Placed(p), p.observed, ~p.cleaned,
           NEW q \in State, Unmoved(p, q),
           q.known = Looking(d),
           p.known = Looking(d) => q.latest = p.latest,
           q.signature = p.signature, q.blockedSignature = p.blockedSignature,
           q.cleaned = p.cleaned, q.observed = p.observed,
           q.blocked \in {p.blocked, None},
           p.blocked # None /\ d[p.blocked].look # "absent"
               /\ p.known[p.blocked] = d[p.blocked].look => q.blocked = p.blocked,
           \A s \in Sidebars : Active(d, q) = s /\ Off(d, p, s) => Off(d, q, s)
    PROVE  Onwards(d, p, q)
<1>. DEFINE a == Active(d, q)
<1>2. a # None => d[a].look # "absent"
  BY ActiveIsThere
<1>3. Lives(q)
  BY DEF Lives, Placed, Unmoved
<1>4. q.host = p.host
  BY DEF Unmoved
<1>5. ASSUME NEW s \in Sidebars, a = s
      PROVE  /\ Fits(d, s) /\ q.blocked = s => p.blocked = s
             /\ Off(d, p, s) => Off(d, q, s)
  BY <1>5, NoneAssumption
<1>6. ASSUME NEW s \in Sidebars, Blocks(p, s), p.known[s] = d[s].look
      PROVE  q.host # s /\ (a = s => Blocks(q, s))
  <2>1. s # None /\ p.blocked = s /\ p.blockedSignature = p.signature
    BY <1>6, NoneAssumption DEF Blocks
  <2>2. q.host # s
    BY <1>4, <2>1 DEF Placed
  <2>3. a = s => Blocks(q, s)
    BY <1>2, <1>6, <2>1 DEF Blocks
  <2>. QED  BY <2>2, <2>3
<1>. QED  BY <1>3, <1>4, <1>5, <1>6 DEF Onwards

LEMMA SurveyedOnwards ==
    ASSUME NEW d \in Doms, NEW p \in State, Placed(p), p.observed, ~p.cleaned
    PROVE  LET q == Surveyed(d, p)
           IN Onwards(d, p, q) /\ Unmoved(p, q)
<1>. DEFINE q == Surveyed(d, p)
<1>1. /\ q \in State /\ Unmoved(p, q)
      /\ q.known = Looking(d)
      /\ p.known = Looking(d) => q.latest = p.latest
      /\ q.signature = p.signature /\ q.blockedSignature = p.blockedSignature
      /\ q.cleaned = p.cleaned /\ q.observed = p.observed
      /\ q.settingsRoute = p.settingsRoute
      /\ q.blocked \in {p.blocked, None}
      /\ p.blocked # None /\ d[p.blocked].look # "absent"
             /\ p.known[p.blocked] = d[p.blocked].look => q.blocked = p.blocked
  BY SurveyedIs
<1>. HIDE DEF q
<1>2. \A s \in Sidebars : Active(d, q) = s /\ Off(d, p, s) => Off(d, q, s)
  BY <1>1 DEF Off
<1>3. Onwards(d, p, q)
  BY <1>1, <1>2, LookOnwards
<1>. QED  BY <1>1, <1>3 DEF q

LEMMA CheckedOnwards ==
    ASSUME NEW d \in Doms, NEW p \in State, Placed(p), p.observed, ~p.cleaned
    PROVE  LET q == Checked(d, p)
               s == Active(d, q)
           IN /\ Onwards(d, p, q) /\ Unmoved(p, q)
              /\ s \in Sidebars /\ d[s].layout = "settings" => q.settingsRoute
              /\ s \in Sidebars /\ d[s].layout \in Anchored => ~q.settingsRoute
<1>. DEFINE q == Checked(d, p)
            a == Active(d, q)
<1>1. /\ q \in State /\ Unmoved(p, q)
      /\ q.known = Looking(d)
      /\ p.known = Looking(d) => q.latest = p.latest
      /\ q.signature = p.signature /\ q.blockedSignature = p.blockedSignature
      /\ q.cleaned = p.cleaned /\ q.observed = p.observed
      /\ q.blocked \in {p.blocked, None}
      /\ p.blocked # None /\ d[p.blocked].look # "absent"
             /\ p.known[p.blocked] = d[p.blocked].look => q.blocked = p.blocked
      /\ a \in Sidebars /\ d[a].layout = "settings" => q.settingsRoute
      /\ a \in Sidebars /\ d[a].layout \in Anchored => ~q.settingsRoute
      /\ a \in Sidebars /\ d[a].layout \notin Anchored /\ p.settingsRoute
            => q.settingsRoute
  BY CheckedIs
<1>. HIDE DEF q
<1>2. \A s \in Sidebars : Active(d, q) = s /\ Off(d, p, s) => Off(d, q, s)
  BY <1>1 DEF Off
<1>3. Onwards(d, p, q)
  BY <1>1, <1>2, LookOnwards
<1>. QED  BY <1>1, <1>3 DEF q

(* What becomes of what was found keeps what was found.                    *)
LEMMA KeptOnwards ==
    ASSUME NEW d \in Doms, NEW p, NEW q, NEW r, Onwards(d, p, q), Kept(q, r),
           r \in State, Placed(r), r.host \in Sidebars => r.host = q.host \/ r.host = Active(d, q),
           \A s \in Sidebars : Active(d, q) = s =>
               /\ Fits(d, s) /\ r.blocked = s => q.blocked = s
               /\ Off(d, q, s) => r.host # s
               /\ Blocks(q, s) => r.host # s /\ (Blocks(r, s) \/ Off(d, r, s))
    PROVE  Onwards(d, p, r) /\ Active(d, r) = Active(d, q)
<1>1. Active(d, r) = Active(d, q)
  BY ActiveOf DEF Kept
<1>2. Lives(r)
  BY DEF Onwards, Kept, Lives
<1>3. /\ r.known = Looking(d) /\ r.signature = p.signature
      /\ p.known = Looking(d) => r.latest = p.latest
  BY DEF Onwards, Kept
<1>4. r.host \in Sidebars => r.host = p.host \/ r.host = Active(d, r)
  BY <1>1 DEF Onwards
<1>5. ASSUME NEW s \in Sidebars, Active(d, r) = s
      PROVE  /\ Fits(d, s) /\ r.blocked = s => p.blocked = s
             /\ Off(d, p, s) => Off(d, r, s)
  BY <1>1, <1>5 DEF Onwards, Off, Kept
<1>6. ASSUME NEW s \in Sidebars, Blocks(p, s), p.known[s] = d[s].look
      PROVE  /\ r.host # s
             /\ Active(d, r) = s => Blocks(r, s) \/ Off(d, r, s)
  <2>1. q.host # s /\ (Active(d, q) = s => Blocks(q, s) \/ Off(d, q, s))
    BY <1>6 DEF Onwards
  <2>2. CASE Active(d, q) # s
    BY <1>1, <2>1, <2>2
  <2>3. CASE Active(d, q) = s /\ Blocks(q, s)
    BY <1>1, <2>3
  <2>4. CASE Active(d, q) = s /\ ~Blocks(q, s)
    BY <1>1, <2>1, <2>4 DEF Off, Kept
  <2>. QED  BY <2>1, <2>2, <2>3, <2>4
<1>. QED  BY <1>1, <1>2, <1>3, <1>4, <1>5, <1>6 DEF Onwards

\* The first look of mount and of reconcile, the second with a host.
LEMMA FoundOnwards ==
    ASSUME NEW d \in Doms, NEW p \in State, Placed(p), ~p.cleaned
    PROVE  LET q == Checked(d, Awake(p))
               s == Active(d, q)
           IN /\ Onwards(d, p, q)
              /\ s \in Sidebars /\ d[s].layout = "settings" => q.settingsRoute
              /\ s \in Sidebars /\ d[s].layout \in Anchored => ~q.settingsRoute
<1>. DEFINE w == Awake(p)
            q == Checked(d, w)
            a == Active(d, q)
<1>1. /\ w \in State /\ Unmoved(p, w) /\ w.observed
      /\ w.known = p.known /\ w.latest = p.latest
      /\ w.settingsRoute = p.settingsRoute
      /\ w.signature = p.signature /\ w.blockedSignature = p.blockedSignature
      /\ w.cleaned = p.cleaned /\ w.blocked = p.blocked
  BY AwakeIs
<1>. HIDE DEF w
<1>2. Placed(w)
  BY <1>1 DEF Placed, Unmoved
<1>3. /\ Onwards(d, w, q)
      /\ a \in Sidebars /\ d[a].layout = "settings" => q.settingsRoute
      /\ a \in Sidebars /\ d[a].layout \in Anchored => ~q.settingsRoute
  BY <1>1, <1>2, CheckedOnwards
<1>. HIDE DEF q
<1>4. Onwards(d, p, q)
  BY <1>1, <1>3 DEF Onwards, Off, Blocks, Unmoved
<1>. QED  BY <1>3, <1>4 DEF q, w

LEMMA WithHostOnwards ==
    ASSUME NEW d \in Doms, NEW p, NEW q, Onwards(d, p, q), ~q.settingsRoute
    PROVE  LET h == WithHost(q)
           IN Onwards(d, p, h) /\ Kept(q, h) /\ Active(d, h) = Active(d, q)
<1>. DEFINE h == WithHost(q)
<1>1. q \in State /\ Placed(q)
  BY DEF Onwards, Lives
<1>2. /\ h \in State /\ Kept(q, h) /\ Placed(h)
      /\ h.blocked = q.blocked /\ h.blockedSignature = q.blockedSignature
      /\ h.host \in Sidebars \/ q.host \in Sidebars => h = q
  BY <1>1, WithHostIs
<1>. HIDE DEF h
<1>3. ASSUME NEW s \in Sidebars, Blocks(q, s)
      PROVE  h.host # s /\ Blocks(h, s)
  <2>1. h.blocked = s /\ Blocks(h, s) /\ s # None
    BY <1>2, <1>3, NoneAssumption DEF Blocks, Kept
  <2>. QED  BY <1>2, <2>1 DEF Placed
<1>4. Onwards(d, p, h) /\ Active(d, h) = Active(d, q)
  BY <1>2, <1>3, KeptOnwards DEF Off
<1>. QED  BY <1>2, <1>4 DEF h

\* Nowhere to go, or not allowed to.
LEMMA Departs ==
    ASSUME NEW d \in Doms, NEW p, NEW q, NEW r, Onwards(d, p, q), Kept(q, r),
           r \in State, Placed(r), r.host \notin Sidebars,
           \/ Active(d, q) = None
           \/ /\ q.settingsRoute
              /\ Active(d, q) \in Sidebars => d[Active(d, q)].layout \notin Anchored
    PROVE  Onwards(d, p, r) /\ Settled(d, r)
<1>1. ASSUME NEW s \in Sidebars, Active(d, q) = s
      PROVE  Off(d, r, s)
  BY <1>1, NoneAssumption DEF Off, Kept
<1>2. ASSUME NEW s \in Sidebars, Active(d, q) = s, Fits(d, s)
      PROVE  FALSE
  BY <1>1, <1>2 DEF Off, Fits, Anchored
<1>3. Onwards(d, p, r) /\ Active(d, r) = Active(d, q)
  BY <1>1, <1>2, KeptOnwards
<1>4. Settled(d, r)
  BY <1>2, <1>3 DEF Settled, Waits
<1>. QED  BY <1>3, <1>4

\* There is a sidebar, not blocked, that the panel goes to or may stay in.
LEMMA Arrives ==
    ASSUME NEW d \in Doms, NEW p, NEW q, NEW r, NEW s \in Sidebars,
           Onwards(d, p, q), Kept(q, r), Active(d, q) = s,
           ~q.settingsRoute, d[s].layout # "settings", ~Blocks(q, s),
           r \in State, Placed(r), r.host \in Sidebars => r.host \in {q.host, s},
           r.host \in Sidebars \ {s} => d[s].layout \in {"slotless", "bare"},
           Fits(d, s) => Shown(d, r, s)
    PROVE  Onwards(d, p, r) /\ Settled(d, r)
<1>1. ASSUME Fits(d, s)
      PROVE  r.blocked # s
  BY <1>1, NoneAssumption DEF Shown, Healthy, Projected, Placed
<1>2. Onwards(d, p, r) /\ Active(d, r) = s
  BY <1>1, KeptOnwards DEF Off
<1>3. Settled(d, r)
  BY <1>2 DEF Settled, Waits, Off, Kept
<1>. QED  BY <1>2, <1>3

LEMMA MountIs ==
    ASSUME NEW d \in Doms, NEW p \in State, Placed(p)
    PROVE  Onwards(d, p, Mount(d, p)) /\ Settled(d, Mount(d, p))
<1>. DEFINE x == [p EXCEPT !.cleaned = FALSE, !.intervals = TRUE]
            q == Checked(d, Awake(x))
            h == WithHost(q)
            s == Active(d, h)
            u == Unblocked(h)
            r == Mount(d, p)
<1>1. x \in State
  BY Zenon DEF State
<1>2. /\ Unmoved(p, x) /\ x.known = p.known /\ x.latest = p.latest
      /\ x.settingsRoute = p.settingsRoute
      /\ x.signature = p.signature /\ x.blockedSignature = p.blockedSignature
      /\ x.blocked = p.blocked
  BY DEF State, Unmoved
<1>3. ~x.cleaned
  BY DEF State
<1>4. r = IF q.settingsRoute THEN OffRoute(q)
          ELSE IF s = None THEN Retrying(Parked(h))
          ELSE IF IsBlocked(h, s) THEN h
          ELSE IF Healthy(d, u, s) THEN Refreshed(d, u, s)
          ELSE IF d[s].layout \in Anchored THEN MountAt(d, u, s)
          ELSE MountBare(d, u, s)
  BY DEF Mount
<1>. HIDE DEF x
<1>5. Placed(x)
  BY <1>2 DEF Placed, Unmoved
<1>6. /\ Onwards(d, x, q)
      /\ Active(d, q) \in Sidebars /\ d[Active(d, q)].layout = "settings" => q.settingsRoute
      /\ Active(d, q) \in Sidebars /\ d[Active(d, q)].layout \in Anchored => ~q.settingsRoute
  BY <1>1, <1>3, <1>5, FoundOnwards
<1>. HIDE DEF q, r
<1>7. Onwards(d, p, q)
  BY <1>2, <1>6 DEF Onwards, Off, Blocks, Unmoved
<1>8. q \in State /\ Placed(q)
  BY <1>7 DEF Onwards, Lives
<1>9. CASE q.settingsRoute
  <2>1. r \in State /\ Kept(q, r) /\ Placed(r) /\ r.host \notin Sidebars
    BY <1>4, <1>8, <1>9, OffRouteIs
  <2>. QED  BY <1>6, <1>7, <1>9, <2>1, Departs DEF r
<1>10. CASE ~q.settingsRoute
  <2>1. Onwards(d, p, h) /\ Kept(q, h) /\ s = Active(d, q)
    BY <1>7, <1>10, WithHostOnwards
  <2>. HIDE DEF h
  <2>2. h \in State /\ Placed(h) /\ ~h.settingsRoute
    BY <1>10, <2>1 DEF Onwards, Lives, Kept
  <2>3. s \in Sidebars \cup {None} /\ (s # None => d[s].look # "absent")
    BY ActiveIsThere
  <2>4. s \in Sidebars => d[s].layout # "settings"
    BY <1>6, <1>10, <2>1
  <2>5. CASE s = None
    <3>. DEFINE k == Parked(h)
    <3>1. k \in State /\ Kept(h, k) /\ Placed(k) /\ k.host \notin Sidebars
      BY <2>2, ParkedIs
    <3>. HIDE DEF k
    <3>2. r \in State /\ Kept(k, r) /\ Unmoved(k, r) /\ r.blocked = k.blocked
      BY <1>4, <1>10, <2>5, <3>1, RetryingIs DEF k
    <3>3. Kept(h, r) /\ Placed(r) /\ r.host \notin Sidebars
      BY <3>1, <3>2, KeptTrans DEF Placed, Unmoved
    <3>. QED  BY <2>1, <2>5, <3>2, <3>3, Departs DEF r
  <2>6. CASE s # None /\ IsBlocked(h, s)
    <3>1. r = h /\ h.blocked = s
      BY <1>4, <1>10, <2>6 DEF IsBlocked
    <3>2. h.host \notin Sidebars
      BY <2>2, <2>6, <3>1 DEF Placed
    <3>4. Settled(d, h)
      BY <2>2, <2>4, <3>1, <3>2 DEF Settled, Waits, Off
    <3>. QED  BY <2>1, <3>1, <3>4 DEF r
  <2>7. CASE s # None /\ ~IsBlocked(h, s)
    <3>. HIDE DEF s
    <3>1. u \in State /\ Kept(h, u) /\ Unmoved(h, u) /\ u.blocked = None
      BY <2>2, UnblockedIs
    <3>. HIDE DEF u
    <3>2. Placed(u)
      BY <2>2, <3>1 DEF Placed, Unmoved
    <3>3. s \in Sidebars
      BY <2>3, <2>7
    <3>4. /\ r \in State /\ Kept(u, r) /\ Placed(r)
          /\ r.host \in Sidebars => r.host \in {u.host, s}
          /\ r.host \in Sidebars \ {s} => d[s].layout \in {"slotless", "bare"}
          /\ Fits(d, s) => Shown(d, r, s)
      <4>1. CASE Healthy(d, u, s)
        <5>1. r = Refreshed(d, u, s)
          BY <1>4, <1>10, <2>7, <4>1
        <5>. QED  BY <3>1, <3>2, <3>3, <4>1, <5>1, RefreshedIs
      <4>2. CASE ~Healthy(d, u, s) /\ d[s].layout \in Anchored
        <5>1. r = MountAt(d, u, s)
          BY <1>4, <1>10, <2>7, <4>2
        <5>. QED  BY <2>3, <2>7, <3>1, <3>3, <5>1, MountAtIs
      <4>3. CASE ~Healthy(d, u, s) /\ d[s].layout \notin Anchored
        <5>1. r = MountBare(d, u, s)
          BY <1>4, <1>10, <2>7, <4>3
        <5>2. ~Fits(d, s)
          BY <4>3 DEF Fits, Anchored
        <5>3. d[s].layout \in {"slotless", "bare"}
          BY <2>4, <3>3, <4>3, SidebarType DEF Layouts, Anchored
        <5>. QED  BY <3>1, <3>2, <3>3, <5>1, <5>2, <5>3, MountBareIs
      <4>. QED  BY <4>1, <4>2, <4>3
    <3>5. Kept(h, r) /\ u.host = h.host
      BY <3>1, <3>4, KeptTrans DEF Unmoved
    <3>6. ~Blocks(h, s)
      BY <2>7 DEF IsBlocked, Blocks
    <3>. QED  BY <2>1, <2>2, <2>4, <3>3, <3>4, <3>5, <3>6, Arrives DEF r, s
  <2>. QED  BY <2>5, <2>6, <2>7
<1>. QED  BY <1>9, <1>10

LEMMA ReconcileIs ==
    ASSUME NEW d \in Doms, NEW p \in State, Placed(p), ~p.cleaned
    PROVE  Onwards(d, p, Reconcile(d, p)) /\ Settled(d, Reconcile(d, p))
<1>. DEFINE q == Checked(d, Awake(p))
            h == WithHost(q)
            s == Active(d, h)
            r == Reconcile(d, p)
<1>1. r = IF q.settingsRoute THEN OffRoute(q)
          ELSE IF s = None THEN Retrying(Parked(Rendered(h)))
          ELSE IF Healthy(d, h, s) THEN Refreshed(d, h, s)
          ELSE Mount(d, h)
  BY DEF Reconcile
<1>2. /\ Onwards(d, p, q)
      /\ Active(d, q) \in Sidebars /\ d[Active(d, q)].layout = "settings" => q.settingsRoute
      /\ Active(d, q) \in Sidebars /\ d[Active(d, q)].layout \in Anchored => ~q.settingsRoute
  BY FoundOnwards
<1>. HIDE DEF q, r
<1>3. q \in State /\ Placed(q)
  BY <1>2 DEF Onwards, Lives
<1>4. CASE q.settingsRoute
  <2>1. r \in State /\ Kept(q, r) /\ Placed(r) /\ r.host \notin Sidebars
    BY <1>1, <1>3, <1>4, OffRouteIs
  <2>. QED  BY <1>2, <1>4, <2>1, Departs DEF r
<1>5. CASE ~q.settingsRoute
  <2>1. Onwards(d, p, h) /\ Kept(q, h) /\ s = Active(d, q)
    BY <1>2, <1>5, WithHostOnwards
  <2>. HIDE DEF h
  <2>2. h \in State /\ Placed(h) /\ ~h.settingsRoute
    BY <1>5, <2>1 DEF Onwards, Lives, Kept
  <2>3. s \in Sidebars \cup {None}
    BY ActiveIsThere
  <2>4. CASE s = None
    <3>. DEFINE o == Rendered(h)
                k == Parked(o)
    <3>1. o \in State /\ Kept(h, o)
      BY <2>2, RenderedIs
    <3>. HIDE DEF o
    <3>2. k \in State /\ Kept(o, k) /\ Placed(k) /\ k.host \notin Sidebars
      BY <3>1, ParkedIs
    <3>. HIDE DEF k
    <3>3. r \in State /\ Kept(k, r) /\ Unmoved(k, r) /\ r.blocked = k.blocked
      BY <1>1, <1>5, <2>4, <3>2, RetryingIs DEF k, o
    <3>4. Kept(h, r) /\ Placed(r) /\ r.host \notin Sidebars
      BY <3>1, <3>2, <3>3, KeptTrans DEF Placed, Unmoved
    <3>. QED  BY <2>1, <2>4, <3>3, <3>4, Departs DEF r
  <2>5. CASE s # None /\ Healthy(d, h, s)
    <3>. HIDE DEF s
    <3>1. s \in Sidebars /\ d[s].layout # "settings"
      BY <1>2, <1>5, <2>1, <2>3, <2>5
    <3>2. r = Refreshed(d, h, s)
      BY <1>1, <1>5, <2>5
    <3>3. /\ r \in State /\ Kept(h, r) /\ Placed(r)
          /\ r.host \in Sidebars => r.host = s
          /\ Fits(d, s) => Shown(d, r, s)
      BY <2>2, <2>5, <3>1, <3>2, RefreshedIs
    <3>4. ~Blocks(h, s)
      BY <2>2, <2>5, NoneAssumption DEF Placed, Healthy, Projected, Blocks
    <3>. QED  BY <2>1, <2>2, <3>1, <3>3, <3>4, Arrives DEF r, s
  <2>6. CASE s # None /\ ~Healthy(d, h, s)
    <3>1. r = Mount(d, h)
      BY <1>1, <1>5, <2>6
    <3>2. Onwards(d, h, r) /\ Settled(d, r)
      BY <2>2, <3>1, MountIs
    <3>. QED  BY <2>1, <3>2, OnwardsTrans DEF r
  <2>. QED  BY <2>4, <2>5, <2>6
<1>. QED  BY <1>4, <1>5

-----------------------------------------------------------------------------
(* What the observers' callbacks come to.                                  *)

\* No panel in an active settings sidebar, nor on the settings route.
Cleared(d, r) ==
    /\ Waits(d, r)
    /\ \A s \in Sidebars : Active(d, r) = s =>
        (d[s].layout = "settings" \/ Off(d, r, s) => r.host # s)

\* The page d was looked at, and the panel settled or left where it was.
Looked(d, p, r) ==
    /\ Onwards(d, p, r) /\ Cleared(d, r)
    /\ \/ Settled(d, r)
       \/ p.mode # "projected"
       \/ r.host = p.host /\ r.validated = p.validated /\ r.host # "gone"

LEMMA UnmovedType ==
    ASSUME NEW p \in State
    PROVE  LET x == [p EXCEPT !.moved = FALSE]
           IN /\ x \in State /\ Kept(p, x) /\ Unmoved(p, x)
              /\ x.blocked = p.blocked /\ x.blockedSignature = p.blockedSignature
<1>1. [p EXCEPT !.moved = FALSE] \in State
  BY Zenon DEF State
<1>. QED  BY <1>1 DEF State, Kept, Unmoved

\* The record of the host's own moves makes no difference to a look.
LEMMA OnwardsUnmoved ==
    ASSUME NEW d, NEW p \in State, NEW r, Onwards(d, [p EXCEPT !.moved = FALSE], r)
    PROVE  Onwards(d, p, r)
<1>. DEFINE x == [p EXCEPT !.moved = FALSE]
<1>1. /\ Kept(p, x) /\ Unmoved(p, x)
      /\ x.blocked = p.blocked /\ x.blockedSignature = p.blockedSignature
  BY UnmovedType
<1>2. Onwards(d, x, r)
  OBVIOUS
<1>. HIDE DEF x
<1>. QED  BY <1>1, <1>2 DEF Onwards, Off, Blocks, Kept, Unmoved

LEMMA SettledClears ==
    ASSUME NEW d, NEW r, Settled(d, r)
    PROVE  Cleared(d, r)
BY DEF Settled, Cleared

\* A panel that is healthy, or has no sidebar to be in, is left alone.
LEMMA StaysPut ==
    ASSUME NEW d \in Doms, NEW p, NEW q, NEW r, Onwards(d, p, q), Kept(q, r), r \in State,
           Unmoved(q, r), r.blocked = q.blocked, r.blockedSignature = q.blockedSignature,
           ~q.settingsRoute,
           Active(d, q) \in Sidebars => Healthy(d, q, Active(d, q))
                                        /\ d[Active(d, q)].layout # "settings"
    PROVE  Onwards(d, p, r) /\ Cleared(d, r)
<1>1. Placed(q) /\ Placed(r)
  BY DEF Onwards, Lives, Placed, Unmoved
<1>2. r.host = q.host
  BY DEF Unmoved
<1>3. ASSUME NEW s \in Sidebars, Active(d, q) = s
      PROVE  ~Blocks(q, s)
  BY <1>1, <1>3, NoneAssumption DEF Placed, Healthy, Projected, Blocks
<1>4. Onwards(d, p, r) /\ Active(d, r) = Active(d, q)
  BY <1>1, <1>2, <1>3, KeptOnwards DEF Off
<1>5. Waits(d, r)
  BY <1>2, <1>4, SettingsIsThere DEF Waits, Healthy, Projected
<1>6. Cleared(d, r)
  BY <1>4, <1>5 DEF Cleared, Off, Kept
<1>. QED  BY <1>4, <1>6

LEMMA OnMutationIs ==
    ASSUME NEW d \in Doms, NEW p \in State, Placed(p), p.observed, ~p.cleaned,
           NEW touches \in BOOLEAN
    PROVE  Looked(d, Stirred(p, touches), OnMutation(d, p, touches))
<1>. DEFINE z == Stirred(p, touches)
            x == [z EXCEPT !.moved = FALSE]
            q == Checked(d, x)
            s == Active(d, q)
            r == OnMutation(d, p, touches)
<1>1. /\ z \in State /\ Placed(z) /\ z.observed /\ ~z.cleaned
  BY UnblockedIs DEF Stirred, Placed, Unmoved, Kept
<1>2. r = IF q.settingsRoute THEN Parked(q)
          ELSE IF s = None
          THEN Retrying(IF q.sidebar # None \/ q.host = "gone" THEN Parked(q) ELSE q)
          ELSE IF Healthy(d, q, s) THEN Scheduled(q)
          ELSE Mount(d, q)
  BY DEF OnMutation
<1>. HIDE DEF z, r
<1>3. /\ x \in State /\ Placed(x) /\ x.observed /\ ~x.cleaned /\ Unmoved(z, x)
  BY <1>1, UnmovedType DEF Placed, Unmoved, Kept
<1>4. \A y : Onwards(d, x, y) => Onwards(d, z, y)
  BY <1>1, OnwardsUnmoved
<1>. HIDE DEF x
<1>5. /\ Onwards(d, x, q) /\ Unmoved(x, q)
      /\ s \in Sidebars /\ d[s].layout = "settings" => q.settingsRoute
      /\ s \in Sidebars /\ d[s].layout \in Anchored => ~q.settingsRoute
  BY <1>3, CheckedOnwards
<1>6. s \in Sidebars \cup {None}
  BY ActiveIsThere
<1>. HIDE DEF q
<1>7. q \in State /\ Placed(q) /\ ~q.cleaned
  BY <1>5 DEF Onwards, Lives
<1>8. Unmoved(z, q)
  BY <1>3, <1>5 DEF Unmoved
<1>9. CASE q.settingsRoute
  <2>1. r \in State /\ Kept(q, r) /\ Placed(r) /\ r.host \notin Sidebars
    BY <1>2, <1>7, <1>9, ParkedIs
  <2>2. Onwards(d, x, r) /\ Settled(d, r)
    BY <1>5, <1>9, <2>1, Departs
  <2>. QED  BY <1>4, <2>2, SettledClears DEF Looked, r, z
<1>10. CASE ~q.settingsRoute /\ s = None
  <2>. DEFINE k == IF q.sidebar # None \/ q.host = "gone" THEN Parked(q) ELSE q
  <2>1. CASE q.sidebar # None \/ q.host = "gone"
    <3>1. k \in State /\ Kept(q, k) /\ Placed(k) /\ k.host \notin Sidebars
      BY <1>7, <2>1, ParkedIs
    <3>. HIDE DEF k
    <3>2. r \in State /\ Kept(k, r) /\ Unmoved(k, r) /\ r.blocked = k.blocked
      BY <1>2, <1>10, <3>1, RetryingIs DEF k
    <3>3. Kept(q, r) /\ Placed(r) /\ r.host \notin Sidebars
      BY <3>1, <3>2, KeptTrans DEF Placed, Unmoved
    <3>4. Onwards(d, x, r) /\ Settled(d, r)
      BY <1>5, <1>10, <3>2, <3>3, Departs
    <3>. QED  BY <1>4, <3>4, SettledClears DEF Looked, r, z
  <2>2. CASE ~(q.sidebar # None \/ q.host = "gone")
    <3>1. /\ r \in State /\ Kept(q, r) /\ Unmoved(q, r) /\ r.blocked = q.blocked
          /\ r.blockedSignature = q.blockedSignature
      BY <1>2, <1>7, <1>10, <2>2, RetryingIs
    <3>2. Onwards(d, x, r) /\ Cleared(d, r)
      BY <1>5, <1>10, <3>1, StaysPut, NoneAssumption
    <3>3. r.host = z.host /\ r.validated = z.validated /\ r.host # "gone"
      BY <1>8, <2>2, <3>1 DEF Unmoved
    <3>. QED  BY <1>4, <3>2, <3>3 DEF Looked, r, z
  <2>. QED  BY <2>1, <2>2
<1>11. CASE ~q.settingsRoute /\ s # None /\ Healthy(d, q, s)
  <2>1. /\ r \in State /\ Kept(q, r) /\ Unmoved(q, r) /\ r.blocked = q.blocked
        /\ r.blockedSignature = q.blockedSignature
    BY <1>2, <1>7, <1>11, ScheduledIs
  <2>2. Onwards(d, x, r) /\ Cleared(d, r)
    BY <1>5, <1>11, <2>1, StaysPut
  <2>3. q.host # "gone"
    BY <1>6, <1>11, NoneAssumption DEF Healthy, Projected
  <2>4. r.host = z.host /\ r.validated = z.validated /\ r.host # "gone"
    BY <1>8, <2>1, <2>3 DEF Unmoved
  <2>. QED  BY <1>4, <2>2, <2>4 DEF Looked, r, z
<1>12. CASE ~q.settingsRoute /\ s # None /\ ~Healthy(d, q, s)
  <2>1. r = Mount(d, q)
    BY <1>2, <1>12
  <2>2. Onwards(d, q, r) /\ Settled(d, r)
    BY <1>7, <2>1, MountIs
  <2>3. Onwards(d, x, r)
    BY <1>5, <2>2, OnwardsTrans
  <2>. QED  BY <1>4, <2>2, <2>3, SettledClears DEF Looked, r, z
<1>. QED  BY <1>9, <1>10, <1>11, <1>12

LEMMA OnOwnMutationIs ==
    ASSUME NEW d \in Doms, NEW p \in State, Placed(p), p.observed, ~p.cleaned
    PROVE  Looked(d, p, OnOwnMutation(d, p))
<1>. DEFINE x == [p EXCEPT !.moved = FALSE]
            q == Checked(d, x)
            s == Active(d, q)
            r == OnOwnMutation(d, p)
<1>2. r = IF q.settingsRoute THEN Parked(q)
          ELSE IF q.mode = "parked" THEN (IF q.host = "gone" THEN WithHost(q) ELSE q)
          ELSE IF s # None /\ ~Healthy(d, q, s) THEN Mount(d, q)
          ELSE IF s = None /\ q.host = "gone" THEN Parked(q)
          ELSE q
  BY DEF OnOwnMutation
<1>. HIDE DEF r
<1>3. /\ x \in State /\ Placed(x) /\ x.observed /\ ~x.cleaned /\ Unmoved(p, x)
  BY UnmovedType DEF Placed, Unmoved, Kept
<1>4. \A y : Onwards(d, x, y) => Onwards(d, p, y)
  BY OnwardsUnmoved
<1>. HIDE DEF x
<1>5. /\ Onwards(d, x, q) /\ Unmoved(x, q)
      /\ s \in Sidebars /\ d[s].layout = "settings" => q.settingsRoute
      /\ s \in Sidebars /\ d[s].layout \in Anchored => ~q.settingsRoute
  BY <1>3, CheckedOnwards
<1>6. s \in Sidebars \cup {None}
  BY ActiveIsThere
<1>. HIDE DEF q
<1>7. q \in State /\ Placed(q) /\ ~q.cleaned
  BY <1>5 DEF Onwards, Lives
<1>8. Unmoved(p, q)
  BY <1>3, <1>5 DEF Unmoved
<1>9. CASE q.settingsRoute \/ (q.mode # "parked" /\ s = None /\ q.host = "gone")
  <2>1. r \in State /\ Kept(q, r) /\ Placed(r) /\ r.host \notin Sidebars
    BY <1>2, <1>7, <1>9, ParkedIs
  <2>2. Onwards(d, x, r) /\ Settled(d, r)
    BY <1>5, <1>9, <2>1, Departs
  <2>. QED  BY <1>4, <2>2, SettledClears DEF Looked, r
<1>10. CASE ~q.settingsRoute /\ q.mode = "parked"
  <2>1. Onwards(d, x, r)
    BY <1>2, <1>5, <1>10, WithHostOnwards
  <2>2. r.host \notin Sidebars
    BY <1>2, <1>7, <1>10, WithHostIs, NoneAssumption DEF Placed
  <2>3. p.mode # "projected"
    BY <1>8, <1>10 DEF Unmoved
  <2>. QED  BY <1>4, <2>1, <2>2, <2>3 DEF Looked, Cleared, Waits, r
<1>11. CASE ~q.settingsRoute /\ q.mode # "parked" /\ s # None /\ ~Healthy(d, q, s)
  <2>1. r = Mount(d, q)
    BY <1>2, <1>11
  <2>2. Onwards(d, q, r) /\ Settled(d, r)
    BY <1>7, <2>1, MountIs
  <2>3. Onwards(d, x, r)
    BY <1>5, <2>2, OnwardsTrans
  <2>. QED  BY <1>4, <2>2, <2>3, SettledClears DEF Looked, r
<1>12. CASE /\ ~q.settingsRoute /\ q.mode # "parked"
            /\ s # None => Healthy(d, q, s)
            /\ ~(s = None /\ q.host = "gone")
  <2>1. r = q
    BY <1>2, <1>12
  <2>2. Onwards(d, x, r) /\ Cleared(d, r)
    BY <1>5, <1>7, <1>12, <2>1, StaysPut, NoneAssumption DEF Kept, Unmoved
  <2>3. q.host # "gone"
    BY <1>6, <1>12, NoneAssumption DEF Healthy, Projected
  <2>4. r.host = p.host /\ r.validated = p.validated /\ r.host # "gone"
    BY <1>8, <2>1, <2>3 DEF Unmoved
  <2>. QED  BY <1>4, <2>2, <2>4 DEF Looked, r
<1>. QED  BY <1>9, <1>10, <1>11, <1>12

-----------------------------------------------------------------------------
(* The invariant, and what no step does.                                   *)

\* A panel in a settings sidebar is to leave, or waits for the active one.
Departing ==
    /\ Waits(dom, panel)
    /\ \A s \in Sidebars :
        panel.host = s /\ dom[s].layout = "settings" /\ Active(dom, panel) = s
            => panel.reconcile

Control == panel \in State /\ Placed(panel) /\ Alive(panel)

Inv == TypeOK /\ Placed(panel) /\ Alive(panel) /\ Departing

\* The actions of SettingsIsClear, BlockedStaysAway and NeverBlinks.
ClearStep ==
    \A s \in Sidebars :
        panel'.host = s /\ dom'[s].layout = "settings" =>
          /\ panel.host = s
          /\ LET a == Active(dom', panel')
             IN IF a = s THEN dom[s].layout = "settings" /\ panel'.reconcile
                ELSE dom'[a].layout \in {"slotless", "bare"}

BlockedStep ==
    LET s == panel.blocked
    IN s # None /\ (panel'.blocked # s \/ panel'.host = s) =>
         \/ dom'[s] # dom[s]
         \/ Rebuilt(panel.from)
         \/ dom[s].look # panel.known[s]
         \/ panel'.signature # panel.blockedSignature
         \/ Active(dom', panel') # s \/ panel'.settingsRoute
         \/ panel'.cleaned

BlinkStep ==
    /\ panel.validated /\ Healthy(dom, panel, panel.sidebar)
    /\ InSight(panel.sidebar) /\ dom'[panel.sidebar] = dom[panel.sidebar]
    /\ Active(dom, panel) = panel.sidebar
    /\ Active(dom', panel') = panel.sidebar
    /\ ~panel'.cleaned
    => panel'.host = panel.sidebar /\ panel'.validated

Proper == ClearStep /\ BlockedStep /\ BlinkStep

\* x is the controller of the state, but for what may have changed with it.
Displays(x) ==
    /\ x.known = panel.known /\ x.blockedSignature = panel.blockedSignature
    /\ x.mode = panel.mode /\ x.validated = panel.validated
    /\ x.host \in {panel.host, "gone"}
    /\ \/ x.blocked = panel.blocked
       \/ /\ x.blocked = None
          /\ \/ dom'[panel.blocked] # dom[panel.blocked]
             \/ dom'[panel.blocked].look = "absent"
             \/ Rebuilt(panel.from)

LEMMA LookedStep ==
    ASSUME Inv, dom' \in Doms, NEW x \in State, Displays(x), Looked(dom', x, panel')
    PROVE  Control' /\ Proper
<1>1. panel \in State /\ Placed(panel) /\ Alive(panel)
  BY DEF Inv, TypeOK
<1>2. Lives(panel') /\ panel'.signature = x.signature
  BY DEF Looked, Onwards
<1>3. Control'
  BY <1>2 DEF Control, Lives, Alive
<1>4. ClearStep
  <2>. SUFFICES ASSUME NEW s \in Sidebars, panel'.host = s, dom'[s].layout = "settings"
                PROVE  /\ Active(dom', panel') # s
                       /\ panel.host = s
                       /\ dom'[Active(dom', panel')].layout \in {"slotless", "bare"}
    BY DEF ClearStep
  <2>1. Active(dom', panel') # s
    BY DEF Looked, Cleared
  <2>2. x.host = s
    BY <2>1 DEF Looked, Onwards
  <2>3. panel.host = s
    BY <2>2, NoneAssumption DEF Displays
  <2>. QED  BY <2>1, <2>3 DEF Looked, Cleared, Waits
<1>5. BlockedStep
  <2>. SUFFICES ASSUME panel.blocked # None,
                       dom'[panel.blocked] = dom[panel.blocked],
                       ~Rebuilt(panel.from),
                       dom[panel.blocked].look = panel.known[panel.blocked],
                       panel'.signature = panel.blockedSignature,
                       Active(dom', panel') = panel.blocked,
                       ~panel'.settingsRoute
                PROVE  panel'.blocked = panel.blocked /\ panel'.host # panel.blocked
    BY DEF BlockedStep
  <2>. DEFINE s == panel.blocked
  <2>1. s \in Sidebars
    BY <1>1 DEF State
  <2>2. dom'[s].look # "absent"
    BY ActiveIsThere
  <2>3. x.blocked = s /\ x.known[s] = dom'[s].look
    BY <2>2 DEF Displays
  <2>4. Blocks(x, s)
    BY <1>2, <2>3 DEF Displays, Blocks
  <2>5. panel'.host # s /\ (Blocks(panel', s) \/ Off(dom', panel', s))
    BY <2>1, <2>3, <2>4 DEF Looked, Onwards
  <2>. QED  BY <2>5 DEF Blocks, Off
<1>6. BlinkStep
  <2>. SUFFICES ASSUME panel.validated, Healthy(dom, panel, panel.sidebar),
                       InSight(panel.sidebar), dom'[panel.sidebar] = dom[panel.sidebar],
                       Active(dom', panel') = panel.sidebar
                PROVE  panel'.host = panel.sidebar /\ panel'.validated
    BY DEF BlinkStep
  <2>. DEFINE s == panel.sidebar
  <2>1. panel.mode = "projected" /\ panel.host = s /\ s # None
    BY DEF Healthy, Projected
  <2>2. s \in Sidebars /\ Fits(dom', s)
    BY <1>1, <2>1 DEF State, Fits, InSight
  <2>3. x.blocked = None
    BY <1>1, <2>1 DEF Displays, Placed
  <2>4. CASE Settled(dom', panel')
    <3>1. Shown(dom', panel', s) \/ panel'.blocked = s
      BY <2>2, <2>4 DEF Settled
    <3>2. panel'.blocked = s => x.blocked = s
      BY <2>2 DEF Looked, Onwards
    <3>. QED  BY <2>1, <2>3, <3>1, <3>2 DEF Shown, Healthy, Projected
  <2>5. CASE x.mode # "projected"
    BY <2>1, <2>5 DEF Displays
  <2>6. CASE panel'.host = x.host /\ panel'.validated = x.validated /\ panel'.host # "gone"
    BY <2>1, <2>6 DEF Displays
  <2>. QED  BY <2>4, <2>5, <2>6 DEF Looked
<1>. QED  BY <1>3, <1>4, <1>5, <1>6 DEF Proper

LEMMA DomType == Inv => dom \in Doms
BY DEF Inv, TypeOK, Doms

LEMMA ActiveLooks ==
    ASSUME NEW d, NEW e, NEW p, NEW q, p.latest = q.latest,
           \A s \in Sidebars : d[s].look = e[s].look
    PROVE  Active(d, p) = Active(e, q)
<1>. DEFINE visible(c) == {s \in Sidebars : c[s].look = "visible"}
            present(c) == {s \in Sidebars : c[s].look # "absent"}
            pool(c) == IF visible(c) # {} THEN visible(c) ELSE present(c)
            choice(P, last) == IF P = {} THEN None
                               ELSE IF last \in P THEN last ELSE CHOOSE s \in P : TRUE
<1>1. Active(d, p) = choice(pool(d), p.latest) /\ Active(e, q) = choice(pool(e), q.latest)
  BY DEF Active
<1>2. visible(d) = visible(e) /\ present(d) = present(e)
  OBVIOUS
<1>3. pool(d) = pool(e)
  BY <1>2
<1>. HIDE DEF pool, choice
<1>. QED  BY <1>1, <1>3

\* A sidebar without anchor has the layout it had, and so have the settings.
Steady(s) ==
    /\ dom'[s].layout = "settings" => dom[s].layout = "settings"
    /\ dom[s].layout \in {"slotless", "bare"} => dom'[s].layout = dom[s].layout

\* Steps that neither look at the page nor move the panel.
LEMMA StillStep ==
    ASSUME Inv, Control', panel'.host = panel.host, panel'.latest = panel.latest,
           panel'.blocked = panel.blocked \/ panel'.signature # panel.blockedSignature,
           panel'.validated = panel.validated, panel.reconcile => panel'.reconcile,
           \A s \in Sidebars : dom'[s].look = dom[s].look /\ Steady(s)
    PROVE  Proper
<1>1. Active(dom', panel') = Active(dom, panel)
  BY ActiveLooks
<1>2. ClearStep
  <2>. SUFFICES ASSUME NEW s \in Sidebars, panel'.host = s, dom'[s].layout = "settings"
                PROVE  LET a == Active(dom', panel')
                       IN IF a = s THEN dom[s].layout = "settings" /\ panel'.reconcile
                          ELSE dom'[a].layout \in {"slotless", "bare"}
    BY DEF ClearStep
  <2>1. dom[s].layout = "settings"
    BY DEF Steady
  <2>2. Active(dom, panel) \in Sidebars
    BY <2>1, DomType, SettingsIsThere
  <2>. QED  BY <1>1, <2>1, <2>2 DEF Steady, Inv, Departing, Waits
<1>3. BlockedStep
  <2>1. panel.blocked # None => panel.blocked \in Sidebars /\ panel.mode # "projected"
    BY DEF Inv, TypeOK, State, Placed
  <2>. QED  BY <2>1 DEF BlockedStep, Inv, Placed
<1>4. BlinkStep
  BY DEF BlinkStep, Healthy, Projected
<1>. QED  BY <1>2, <1>3, <1>4 DEF Proper

-----------------------------------------------------------------------------
(* Calls and timers.                                                       *)

\* x is what a call or a timer reconciles or mounts with.
Calls(x) ==
    /\ x \in State /\ Placed(x)
    /\ x.known = panel.known /\ x.blockedSignature = panel.blockedSignature
    /\ x.mode = panel.mode /\ x.validated = panel.validated /\ x.host = panel.host
    /\ x.blocked = panel.blocked /\ x.cleaned = panel.cleaned
    /\ x.observed = panel.observed /\ x.watching = panel.watching /\ x.moved = panel.moved

LEMMA OutdatedCalls ==
    ASSUME Inv, NEW x \in State, Calls(x), NEW y \in Outdated(x)
    PROVE  Calls(y)
<1>1. PICK g \in Signatures : y = [x EXCEPT !.outdated = TRUE, !.timedOut = FALSE, !.signature = g]
  BY DEF Outdated
<1>2. y \in State
  BY <1>1, Zenon DEF State
<1>3. /\ y.known = x.known /\ y.blockedSignature = x.blockedSignature
      /\ y.mode = x.mode /\ y.validated = x.validated /\ y.host = x.host
      /\ y.blocked = x.blocked /\ y.cleaned = x.cleaned
      /\ y.observed = x.observed /\ y.watching = x.watching /\ y.moved = x.moved
  BY <1>1 DEF State
<1>. QED  BY <1>2, <1>3 DEF Calls, Placed

LEMMA PanelCalls ==
    ASSUME Inv
    PROVE  panel \in State /\ Calls(panel)
BY DEF Inv, TypeOK, Calls

LEMMA BeatenCalls ==
    ASSUME Inv, NEW x \in Beaten(panel)
    PROVE  Calls(x)
<1>1. x \in Outdated(panel) \/ x = panel
  BY DEF Beaten
<1>. QED  BY <1>1, PanelCalls, OutdatedCalls

\* What a call or a timer brings about, unless the controller is cleaned.
LEMMA SettledStep ==
    ASSUME Inv, dom' = dom, NEW x, Calls(x), Onwards(dom, x, panel'), Settled(dom, panel')
    PROVE  Control' /\ Proper
<1>1. dom' \in Doms
  BY DEF Inv, TypeOK, Doms
<1>2. Looked(dom', x, panel')
  BY SettledClears DEF Looked
<1>3. Displays(x) /\ x \in State
  BY DEF Displays, Calls
<1>. QED  BY <1>1, <1>2, <1>3, LookedStep

\* A cleaned controller has no panel anywhere.
LEMMA CleanedStep ==
    ASSUME Inv, Control', panel'.cleaned
    PROVE  Proper
<1>1. panel'.host \notin Sidebars
  BY NoneAssumption DEF Control, Alive
<1>2. panel.blocked # None => panel.blocked \in Sidebars
  BY DEF Inv, TypeOK, State
<1>. QED  BY <1>1, <1>2 DEF Proper, ClearStep, BlockedStep, BlinkStep

LEMMA CallsControl ==
    ASSUME Inv, NEW x, Calls(x)
    PROVE  x \in State /\ Placed(x) /\ Alive(x)
BY DEF Calls, Inv, Alive

LEMMA ReconcileStep ==
    ASSUME Inv, dom' = dom, NEW x, Calls(x), panel' = Reconcile(dom, x)
    PROVE  /\ Control' /\ Proper
           /\ ~panel'.cleaned => Settled(dom, panel')
<1>1. x \in State /\ Placed(x) /\ Alive(x)
  BY CallsControl
<1>2. CASE x.cleaned
  <2>1. panel' = x
    BY <1>2 DEF Reconcile
  <2>. QED  BY <1>1, <1>2, <2>1, CleanedStep DEF Control
<1>3. CASE ~x.cleaned
  <2>1. Onwards(dom, x, panel') /\ Settled(dom, panel')
    BY <1>1, <1>3, DomType, ReconcileIs
  <2>. QED  BY <2>1, SettledStep
<1>. QED  BY <1>2, <1>3

LEMMA MountStep ==
    ASSUME Inv, dom' = dom, NEW x, Calls(x), panel' = Mount(dom, x)
    PROVE  Control' /\ Proper /\ Settled(dom, panel')
<1>1. Onwards(dom, x, panel') /\ Settled(dom, panel')
  BY DomType, MountIs DEF Calls
<1>. QED  BY <1>1, SettledStep

-----------------------------------------------------------------------------
(* The calls of the API.                                                   *)

LEMMA UpdateStep ==
    ASSUME Inv, Update
    PROVE  Control' /\ Proper /\ (~panel'.cleaned => Settled(dom, panel'))
<1>1. PICK x \in Outdated(panel) : panel' = Reconcile(dom, x) /\ dom' = dom
  BY DEF Update, Becomes
<1>2. Calls(x)
  BY PanelCalls, OutdatedCalls
<1>. QED  BY <1>1, <1>2, ReconcileStep

LEMMA HeartbeatStep ==
    ASSUME Inv, Heartbeat
    PROVE  Control' /\ Proper /\ (~panel'.cleaned => Settled(dom, panel'))
<1>1. PICK x \in Beaten(panel) :
          /\ panel' = IF x.cleaned THEN Mount(dom, x) ELSE Reconcile(dom, x)
          /\ dom' = dom
  BY DEF Heartbeat, Becomes
<1>2. Calls(x)
  BY BeatenCalls
<1>3. CASE x.cleaned
  BY <1>1, <1>2, <1>3, MountStep
<1>4. CASE ~x.cleaned
  BY <1>1, <1>2, <1>4, ReconcileStep
<1>. QED  BY <1>3, <1>4

LEMMA BootstrapStep ==
    ASSUME Inv, Bootstrap
    PROVE  Control' /\ Proper
<1>1. PICK x \in Beaten(panel) :
          /\ panel' = Mount(dom, IF x.cleaned THEN Mount(dom, x) ELSE Reconcile(dom, x))
          /\ dom' = dom
  BY DEF Bootstrap, Becomes
<1>2. Calls(x) /\ x \in State /\ Placed(x) /\ dom \in Doms
  BY BeatenCalls, DomType DEF Calls
<1>. DEFINE y == IF x.cleaned THEN Mount(dom, x) ELSE Reconcile(dom, x)
<1>3. Onwards(dom, x, y)
  BY <1>2, MountIs, ReconcileIs
<1>. HIDE DEF y
<1>4. y \in State /\ Placed(y)
  BY <1>3 DEF Onwards, Lives
<1>5. Onwards(dom, y, panel') /\ Settled(dom, panel')
  BY <1>1, <1>2, <1>4, MountIs DEF y
<1>6. Onwards(dom, x, panel')
  BY <1>2, <1>3, <1>5, OnwardsTrans
<1>. QED  BY <1>1, <1>2, <1>5, <1>6, SettledStep

LEMMA CleanedType ==
    ASSUME NEW p \in State, NEW no \in BOOLEAN, NEW yes \in BOOLEAN,
           NEW mode \in {"absent", "parked", "projected"},
           NEW host \in {"absent", "gone", "body"} \cup Sidebars
    PROVE  [p EXCEPT
               !.cleaned = yes, !.timedOut = no, !.mode = mode, !.ever = no,
               !.host = host, !.intervals = no, !.observed = no, !.moved = no] \in State
BY ZenonT(60) DEF State

LEMMA CleanupStep ==
    ASSUME Inv, Cleanup
    PROVE  Control' /\ Proper
<1>. DEFINE k == Parked(panel)
            n == NoRetry(k)
<1>1. k \in State /\ k.blocked = None /\ ~k.watching
  BY PanelCalls, ParkedIs
<1>. HIDE DEF k
<1>2. n \in State /\ n.blocked = None /\ ~n.watching
  BY <1>1, NoRetryIs DEF Unmoved
<1>3. panel' = [n EXCEPT
          !.cleaned = TRUE, !.timedOut = FALSE, !.mode = "absent", !.ever = FALSE,
          !.host = "absent", !.intervals = FALSE, !.observed = FALSE, !.moved = FALSE]
  BY DEF Cleanup, Becomes, Cleaned, k
<1>. HIDE DEF n
<1>4. panel' \in State
  BY <1>2, <1>3, CleanedType
<1>5. /\ panel'.mode = "absent" /\ panel'.host = "absent" /\ panel'.blocked = n.blocked
      /\ panel'.watching = n.watching
  BY <1>2, <1>3 DEF State
<1>6. panel'.cleaned /\ ~panel'.observed /\ ~panel'.moved
  BY <1>2, <1>3 DEF State
<1>7. Control'
  BY <1>2, <1>4, <1>5, <1>6, NoneAssumption DEF Control, Placed, Alive
<1>. QED  BY <1>6, <1>7, CleanedStep

-----------------------------------------------------------------------------
(* Timers and frames.                                                      *)

\* r has the panel where it is, and nothing but a block lifted.
Same(r) ==
    /\ r \in State
    /\ r.host = panel.host /\ r.mode = panel.mode /\ r.validated = panel.validated
    /\ r.watching = panel.watching /\ r.latest = panel.latest
    /\ r.cleaned = panel.cleaned /\ r.observed = panel.observed /\ r.moved = panel.moved
    /\ r.blocked \in {panel.blocked, None}
    /\ panel.reconcile => r.reconcile

LEMMA SameControl ==
    ASSUME Inv, Same(panel')
    PROVE  Control'
BY DEF Inv, Same, Control, Placed, Alive

LEMMA SameStep ==
    ASSUME Inv, dom' = dom, Same(panel'),
           panel'.blocked = panel.blocked \/ panel'.signature # panel.blockedSignature
    PROVE  Control' /\ Proper
BY SameControl, StillStep DEF Same, Steady

LEMMA AgeStep ==
    ASSUME Inv, Age
    PROVE  Control' /\ Proper
<1>1. PICK g \in Signatures : panel' = [panel EXCEPT !.signature = g] /\ dom' = dom
  BY DEF Age, Becomes
<1>2. panel \in State /\ Placed(panel)
  BY PanelCalls DEF Calls
<1>3. panel' \in State
  BY <1>1, <1>2, Zenon DEF State
<1>4. Same(panel')
  BY <1>1, <1>2, <1>3 DEF Same, Calls, Placed, State
<1>. QED  BY <1>1, <1>4, SameStep

LEMMA CountdownStep ==
    ASSUME Inv, Countdown
    PROVE  Control' /\ Proper /\ (~panel'.cleaned => Settled(dom, panel'))
BY PanelCalls, ReconcileStep DEF Countdown, Becomes

LEMMA HeartbeatIsLateStep ==
    ASSUME Inv, HeartbeatIsLate
    PROVE  Control' /\ Proper
<1>1. PICK x \in Outdated(panel) :
          /\ panel' = [(IF x.host = "absent" THEN x ELSE Rendered(x)) EXCEPT !.timedOut = TRUE]
          /\ dom' = dom
  BY DEF HeartbeatIsLate, Becomes
<1>2. Calls(x)
  BY PanelCalls, OutdatedCalls
<1>3. PICK g \in Signatures :
          x = [panel EXCEPT !.outdated = TRUE, !.timedOut = FALSE, !.signature = g]
  BY <1>1 DEF Outdated
<1>4. x.latest = panel.latest /\ x.reconcile = panel.reconcile
  BY <1>3, PanelCalls DEF State
<1>. DEFINE y == IF x.host = "absent" THEN x ELSE Rendered(x)
<1>5. x \in State /\ Placed(x)
  BY <1>2 DEF Calls
<1>6. y \in State /\ y.latest = x.latest /\ y.reconcile = x.reconcile /\ Calls(y)
  <2>1. CASE x.host = "absent"
    BY <1>2, <1>5, <2>1
  <2>2. CASE x.host # "absent"
    <3>1. Rendered(x).reconcile = x.reconcile /\ Rendered(x).moved = x.moved
      BY <1>5 DEF Rendered, State
    <3>. QED  BY <1>2, <1>5, <2>2, <3>1, RenderedIs DEF Calls, Kept, Placed
  <2>. QED  BY <2>1, <2>2
<1>. HIDE DEF y
<1>7. panel' = [y EXCEPT !.timedOut = TRUE]
  BY <1>1 DEF y
<1>8. panel' \in State
  BY <1>6, <1>7, Zenon DEF State
<1>9. /\ panel'.known = y.known /\ panel'.blockedSignature = y.blockedSignature
      /\ panel'.mode = y.mode /\ panel'.validated = y.validated /\ panel'.host = y.host
      /\ panel'.blocked = y.blocked /\ panel'.cleaned = y.cleaned
      /\ panel'.observed = y.observed /\ panel'.watching = y.watching
      /\ panel'.latest = y.latest /\ panel'.reconcile = y.reconcile
      /\ panel'.moved = y.moved
  BY <1>6, <1>7 DEF State
<1>10. Same(panel')
  BY <1>4, <1>6, <1>8, <1>9 DEF Same, Calls, Placed
<1>11. panel'.blocked = panel.blocked
  BY <1>6, <1>9 DEF Calls
<1>. QED  BY <1>1, <1>10, <1>11, SameStep

LEMMA LocaleChangesStep ==
    ASSUME Inv, LocaleChanges
    PROVE  Control' /\ Proper
<1>1. PICK g \in Signatures :
          LET freed == panel.blocked # None /\ panel.blockedSignature # g
              p == [(IF freed THEN Scheduled(Unblocked(panel)) ELSE panel) EXCEPT !.signature = g]
          IN Becomes(IF panel.host \in {"absent", "gone"} THEN [p EXCEPT !.outdated = TRUE]
                     ELSE Rendered(p))
  BY DEF LocaleChanges
<1>. DEFINE u == Unblocked(panel)
            z == IF panel.blocked # None /\ panel.blockedSignature # g
                 THEN Scheduled(u) ELSE panel
            p == [z EXCEPT !.signature = g]
<1>2. /\ panel' = [p EXCEPT !.outdated = TRUE] \/ panel' = [p EXCEPT !.outdated = FALSE]
      /\ dom' = dom
  BY <1>1 DEF Becomes, Rendered
<1>3. /\ u \in State /\ Kept(panel, u) /\ Unmoved(panel, u)
      /\ u.blocked = None /\ u.reconcile = panel.reconcile /\ u.moved = panel.moved
  BY PanelCalls, UnblockedIs DEF Unblocked, State
<1>. HIDE DEF u
<1>4. /\ Scheduled(u) \in State /\ Kept(u, Scheduled(u)) /\ Unmoved(u, Scheduled(u))
      /\ Scheduled(u).blocked = None /\ (u.reconcile => Scheduled(u).reconcile)
  BY <1>3, ScheduledIs
<1>5. Scheduled(u).moved = u.moved
  BY <1>3 DEF Scheduled, State
<1>6. Same(z)
  <2>1. Same(panel)
    BY PanelCalls DEF Same
  <2>2. Same(Scheduled(u))
    BY <1>3, <1>4, <1>5 DEF Same, Kept, Unmoved
  <2>. QED  BY <2>1, <2>2
<1>11. z.blocked = panel.blocked \/ panel.blockedSignature # g
  OBVIOUS
<1>. HIDE DEF z
<1>7. p \in State
  BY <1>6, Zenon DEF Same, State
<1>8. Same(p) /\ p.signature = g /\ p.blocked = z.blocked
  BY <1>6, <1>7 DEF Same, State
<1>. HIDE DEF p
<1>9. panel' \in State
  <2>1. [p EXCEPT !.outdated = TRUE] \in State
    BY <1>7, Zenon DEF State
  <2>2. [p EXCEPT !.outdated = FALSE] \in State
    BY <1>7, Zenon DEF State
  <2>. QED  BY <1>2, <2>1, <2>2
<1>10. Same(panel')
  <2>1. CASE panel' = [p EXCEPT !.outdated = TRUE]
    BY <1>8, <1>9, <2>1 DEF Same, State
  <2>2. CASE panel' = [p EXCEPT !.outdated = FALSE]
    BY <1>8, <1>9, <2>2 DEF Same, State
  <2>. QED  BY <1>2, <2>1, <2>2
<1>12. panel'.signature = g /\ panel'.blocked = z.blocked
  BY <1>2, <1>7, <1>8 DEF State
<1>. QED  BY <1>2, <1>10, <1>11, <1>12, SameStep

LEMMA ReconcileFiresStep ==
    ASSUME Inv, ReconcileFires
    PROVE  Control' /\ Proper /\ (~panel'.cleaned => Settled(dom, panel'))
<1>. DEFINE x == [panel EXCEPT !.reconcile = FALSE]
<1>1. panel' = Reconcile(dom, x) /\ dom' = dom
  BY DEF ReconcileFires, Becomes
<1>2. x \in State
  BY PanelCalls, Zenon DEF State
<1>3. Calls(x)
  BY <1>2, PanelCalls DEF Calls, Placed, State
<1>. HIDE DEF x
<1>. QED  BY <1>1, <1>3, ReconcileStep

LEMMA RetryFiresStep ==
    ASSUME Inv, RetryFires
    PROVE  Control' /\ Proper
<1>. DEFINE x == [panel EXCEPT !.retry = FALSE]
<1>1. panel' = (IF x.cleaned THEN x ELSE Mount(dom, x)) /\ dom' = dom
  BY DEF RetryFires, Becomes
<1>2. x \in State
  BY PanelCalls, Zenon DEF State
<1>3. Calls(x)
  BY <1>2, PanelCalls DEF Calls, Placed, State
<1>. HIDE DEF x
<1>4. CASE x.cleaned
  <2>1. Control'
    BY <1>1, <1>3, <1>4, CallsControl DEF Control
  <2>. QED  BY <1>1, <1>4, <2>1, CleanedStep
<1>5. CASE ~x.cleaned
  BY <1>1, <1>3, <1>5, MountStep
<1>. QED  BY <1>4, <1>5

LEMMA GraceElapsesStep ==
    ASSUME Inv, GraceElapses
    PROVE  Control' /\ Proper
<1>1. panel' = [panel EXCEPT !.settle = "over"] /\ dom' = dom
  BY DEF GraceElapses, Becomes
<1>2. panel' \in State
  BY <1>1, PanelCalls, Zenon DEF State
<1>3. Same(panel')
  BY <1>1, <1>2, PanelCalls DEF Same, State
<1>. QED  BY <1>1, <1>3, SameStep

LEMMA FrameStep ==
    ASSUME Inv, Frame
    PROVE  Control' /\ Proper
<1>. DEFINE x == [panel EXCEPT !.frame = FALSE]
<1>1. /\ \/ x.host = x.sidebar /\ panel' = Validated(dom, x)
         \/ panel' = x
      /\ dom' = dom
  BY DEF Frame, Becomes
<1>2. x \in State
  BY PanelCalls, Zenon DEF State
<1>3. /\ Same(x) /\ x.sidebar = panel.sidebar /\ x.anchored = panel.anchored
      /\ x.blocked = panel.blocked
  BY <1>2, PanelCalls DEF Same, State
<1>. HIDE DEF x
<1>4. CASE panel' = x
  BY <1>1, <1>3, <1>4, SameStep
<1>5. CASE x.host = x.sidebar /\ panel' = Validated(dom, x)
  <2>1. Placed(x) /\ Placed(panel) /\ Alive(panel)
    BY <1>3 DEF Same, Placed, Inv
  <2>2. /\ panel' \in State /\ Kept(x, panel') /\ Placed(panel')
        /\ \/ panel'.host \notin Sidebars
           \/ /\ panel'.host = x.host
              /\ x.reconcile => panel'.reconcile
        /\ x.anchored /\ dom[x.sidebar].layout = "good" =>
              panel'.validated /\ panel'.host = x.host
    BY <1>2, <1>5, <2>1, DomType, ValidatedIs
  <2>3. x.host # "absent"
    BY <1>2, <1>5, NoneAssumption DEF State
  <2>4. ~panel.cleaned /\ panel.observed
    BY <1>3, <2>1, <2>3 DEF Same, Alive
  <2>5. Control'
    BY <1>3, <2>2, <2>4 DEF Control, Alive, Same, Kept
  <2>6. Active(dom', panel') = Active(dom, panel)
    BY <1>1, <1>3, <2>2, ActiveOf DEF Same, Kept
  <2>7. ClearStep
    <3>. SUFFICES ASSUME NEW s \in Sidebars, panel'.host = s, dom[s].layout = "settings"
                  PROVE  /\ panel.host = s
                         /\ LET a == Active(dom, panel)
                            IN IF a = s THEN panel'.reconcile
                               ELSE dom[a].layout \in {"slotless", "bare"}
      BY <1>1, <2>6 DEF ClearStep
    <3>. QED  BY <1>3, <2>2 DEF Same, Inv, Departing, Waits
  <2>8. BlockedStep
    <3>1. panel.host \in Sidebars
      BY <1>2, <1>3, <1>5, NoneAssumption DEF State, Same
    <3>. QED  BY <2>1, <3>1 DEF BlockedStep, Placed
  <2>9. BlinkStep
    BY <1>1, <1>3, <2>2 DEF BlinkStep, Healthy, Projected, InSight, Same
  <2>. QED  BY <2>5, <2>7, <2>8, <2>9 DEF Proper
<1>. QED  BY <1>1, <1>4, <1>5

-----------------------------------------------------------------------------
(* The app.                                                                *)

\* The panel is in no sidebar, and nobody looks.
LEMMA OutsideStep ==
    ASSUME Inv, Control', panel.host \notin Sidebars, panel' = panel
    PROVE  Proper
<1>1. panel \in State
  BY PanelCalls
<1>2. ClearStep
  BY DEF ClearStep
<1>3. BlockedStep
  BY <1>1 DEF BlockedStep, State
<1>4. BlinkStep
  BY <1>1 DEF BlinkStep, Healthy, Projected, State
<1>. QED  BY <1>2, <1>3, <1>4 DEF Proper

LEMMA DisplacedIs ==
    ASSUME Inv, NEW d \in Doms, NEW s \in Sidebars
    PROVE  LET x == Displaced(d, panel, s)
           IN /\ x \in State /\ Placed(x)
              /\ x.known = panel.known /\ x.blockedSignature = panel.blockedSignature
              /\ x.mode = panel.mode /\ x.validated = panel.validated
              /\ x.blocked = panel.blocked /\ x.cleaned = panel.cleaned
              /\ x.observed = panel.observed
              /\ x.host \in {panel.host, "gone"}
              /\ panel.host \notin Sidebars => x = panel
<1>1. panel \in State /\ Placed(panel)
  BY PanelCalls DEF Calls
<1>2. CASE panel.host # s
  BY <1>1, <1>2 DEF Displaced
<1>3. CASE panel.host = s /\ d[s].look = "absent"
  <2>. DEFINE x == [panel EXCEPT !.host = "gone", !.anchored = FALSE]
  <2>1. x \in State
    BY <1>1, Zenon DEF State
  <2>2. /\ x.known = panel.known /\ x.blockedSignature = panel.blockedSignature
        /\ x.mode = panel.mode /\ x.validated = panel.validated
        /\ x.blocked = panel.blocked /\ x.cleaned = panel.cleaned
        /\ x.observed = panel.observed /\ x.host = "gone"
    BY <1>1 DEF State
  <2>3. Displaced(d, panel, s) = x
    BY <1>3 DEF Displaced
  <2>. HIDE DEF x
  <2>. QED  BY <1>1, <1>3, <2>1, <2>2, <2>3, NoneAssumption DEF Placed
<1>4. CASE panel.host = s /\ d[s].look # "absent"
  <2>. DEFINE still == panel.anchored /\ d[s].layout \in Anchored /\ d[s].form = dom[s].form
              x == [panel EXCEPT !.anchored = still]
  <2>1. still \in BOOLEAN
    OBVIOUS
  <2>2. Displaced(d, panel, s) = x
    BY <1>4 DEF Displaced
  <2>. HIDE DEF still
  <2>3. x \in State
    BY <1>1, <2>1 DEF State
  <2>4. /\ x.known = panel.known /\ x.blockedSignature = panel.blockedSignature
        /\ x.mode = panel.mode /\ x.validated = panel.validated
        /\ x.blocked = panel.blocked /\ x.cleaned = panel.cleaned
        /\ x.observed = panel.observed /\ x.host = panel.host
        /\ x.watching = panel.watching
    BY <1>1 DEF State
  <2>. HIDE DEF x
  <2>. QED  BY <1>1, <1>4, <2>2, <2>3, <2>4 DEF Placed
<1>. QED  BY <1>2, <1>3, <1>4

LEMMA DomChanges ==
    ASSUME Inv, NEW s \in Sidebars, NEW b \in Sidebar
    PROVE  /\ [dom EXCEPT ![s] = b] \in Doms
           /\ [dom EXCEPT ![s] = b][s] = b
           /\ \A z \in Sidebars \ {s} : [dom EXCEPT ![s] = b][z] = dom[z]
BY DEF Inv, TypeOK, Doms

LEMMA MutationStep ==
    ASSUME Inv, NEW s \in Sidebars, Mutation(s)
    PROVE  Control' /\ Proper /\ dom' \in Doms
<1>1. PICK b \in Sidebar :
          LET d == [dom EXCEPT ![s] = b]
              p == Displaced(d, panel, s)
          IN AppChanges(d, IF p.observed THEN OnMutation(d, p, Touches(s, b)) ELSE p)
  BY DEF Mutation
<1>. DEFINE d == [dom EXCEPT ![s] = b]
            p == Displaced(d, panel, s)
            touches == Touches(s, b)
            x == Stirred(p, touches)
<1>2. dom' = d /\ panel' = IF p.observed THEN OnMutation(d, p, touches) ELSE p
  BY <1>1 DEF AppChanges
<1>3. d \in Doms /\ d[s] = b
  BY DomChanges
<1>4. /\ touches \in BOOLEAN
      /\ touches => \/ d[panel.blocked] # dom[panel.blocked]
                    \/ d[panel.blocked].look = "absent"
                    \/ Rebuilt(panel.from)
  BY <1>2, <1>3 DEF Touches, Rebuilt
<1>. HIDE DEF d, touches
<1>5. /\ p \in State /\ Placed(p)
      /\ p.known = panel.known /\ p.blockedSignature = panel.blockedSignature
      /\ p.mode = panel.mode /\ p.validated = panel.validated
      /\ p.blocked = panel.blocked /\ p.cleaned = panel.cleaned
      /\ p.observed = panel.observed
      /\ p.host \in {panel.host, "gone"}
      /\ panel.host \notin Sidebars => p = panel
  BY <1>3, DisplacedIs
<1>. HIDE DEF p
<1>6. Alive(panel) /\ Placed(panel) /\ panel \in State
  BY PanelCalls DEF Inv
<1>7. CASE p.observed
  <2>1. Looked(d, x, panel')
    BY <1>2, <1>3, <1>4, <1>5, <1>6, <1>7, OnMutationIs DEF Alive
  <2>2. x \in State /\ Displays(x)
    <3>1. CASE touches
      <4>1. x = Unblocked(p)
        BY <3>1 DEF Stirred
      <4>2. /\ x \in State /\ Unmoved(p, x) /\ Kept(p, x) /\ x.blocked = None
        BY <1>5, <4>1, UnblockedIs
      <4>3. x.blockedSignature = p.blockedSignature
        BY <1>5, <4>1 DEF Unblocked, State
      <4>. QED  BY <1>2, <1>4, <1>5, <3>1, <4>2, <4>3 DEF Displays, Unmoved, Kept
    <3>2. CASE ~touches
      BY <1>5, <3>2 DEF Stirred, Displays
    <3>. QED  BY <3>1, <3>2
  <2>. HIDE DEF x
  <2>. QED  BY <1>2, <1>3, <2>1, <2>2, LookedStep
<1>8. CASE ~p.observed
  <2>1. panel.host \notin Sidebars /\ panel' = panel
    BY <1>2, <1>5, <1>6, <1>8, NoneAssumption DEF Alive
  <2>2. Control'
    BY <1>6, <2>1 DEF Control, Alive, Placed
  <2>. QED  BY <1>2, <1>3, <2>1, <2>2, OutsideStep
<1>. QED  BY <1>7, <1>8

LEMMA OwnMutationStep ==
    ASSUME Inv, OwnMutation
    PROVE  Control' /\ Proper
<1>1. panel.moved /\ panel' = OnOwnMutation(dom, panel) /\ dom' = dom
  BY DEF OwnMutation, Becomes
<1>2. panel \in State /\ Placed(panel) /\ Alive(panel) /\ dom \in Doms
  BY PanelCalls, DomType DEF Inv
<1>3. Looked(dom, panel, panel')
  BY <1>1, <1>2, OnOwnMutationIs DEF Alive
<1>4. Displays(panel)
  BY DEF Displays
<1>. QED  BY <1>1, <1>2, <1>3, <1>4, LookedStep

LEMMA HostTakenOutStep ==
    ASSUME Inv, HostTakenOut
    PROVE  Control' /\ Proper /\ dom' = dom
<1>. DEFINE x == [panel EXCEPT !.host = "gone", !.anchored = FALSE]
<1>1. /\ panel.host \notin {"absent", "gone"}
      /\ panel' = IF x.observed THEN OnOwnMutation(dom, x) ELSE x
      /\ dom' = dom
  BY DEF HostTakenOut, AppChanges
<1>2. panel \in State /\ Placed(panel) /\ Alive(panel) /\ dom \in Doms
  BY PanelCalls, DomType DEF Inv
<1>3. x \in State
  BY <1>2, Zenon DEF State
<1>4. /\ x.known = panel.known /\ x.blockedSignature = panel.blockedSignature
      /\ x.mode = panel.mode /\ x.validated = panel.validated
      /\ x.blocked = panel.blocked /\ x.cleaned = panel.cleaned
      /\ x.observed = panel.observed /\ x.host = "gone"
  BY <1>2 DEF State
<1>. HIDE DEF x
<1>5. Placed(x) /\ Displays(x)
  BY <1>2, <1>4, NoneAssumption DEF Placed, Displays
<1>6. x.observed /\ ~x.cleaned
  BY <1>1, <1>2, <1>4 DEF Alive
<1>7. Looked(dom, x, panel')
  BY <1>1, <1>2, <1>3, <1>5, <1>6, OnOwnMutationIs
<1>. QED  BY <1>1, <1>2, <1>3, <1>5, <1>7, LookedStep

LEMMA ResizedKeeps ==
    ASSUME Inv, NEW s \in Sidebars, NEW b \in Resized(s)
    PROVE  /\ [dom EXCEPT ![s] = b] \in Doms
           /\ [dom EXCEPT ![s] = b][s] = b
           /\ \A z \in Sidebars :
                 LET l == [dom EXCEPT ![s] = b][z].layout
                 IN /\ l = "settings" => dom[z].layout = "settings"
                    /\ dom[z].layout \in {"slotless", "bare"} => l = dom[z].layout
<1>1. b \in Sidebar
      /\ (b.layout = dom[s].layout \/ {b.layout, dom[s].layout} \subseteq Anchored)
  BY DEF Resized
<1>2. /\ b.layout = "settings" => dom[s].layout = "settings"
      /\ dom[s].layout \in {"slotless", "bare"} => b.layout = dom[s].layout
  BY <1>1 DEF Anchored
<1>. QED  BY <1>1, <1>2, DomChanges

LEMMA ResizeStep ==
    ASSUME Inv, NEW s \in Sidebars, Resize(s)
    PROVE  Control' /\ Proper /\ dom' \in Doms
<1>1. PICK b \in Resized(s) :
          dom' = [dom EXCEPT ![s] = b] /\ panel' = OnResize([dom EXCEPT ![s] = b], panel, s)
  BY DEF Resize, AppChanges
<1>. DEFINE d == [dom EXCEPT ![s] = b]
            q == Surveyed(d, panel)
            a == Active(d, q)
<1>2. /\ d \in Doms /\ d[s] = b
      /\ \A z \in Sidebars : d[z].layout = "settings" => dom[z].layout = "settings"
  BY ResizedKeeps
<1>3. dom' = d /\ panel' = IF panel.watching
                           THEN IF a # None /\ ~Projected(d, q, a) THEN Mount(d, q) ELSE Scheduled(q)
                           ELSE IF panel.blocked = s /\ d[s].form # dom[s].form
                                THEN Mount(d, Unblocked(panel))
                           ELSE panel
  BY <1>1 DEF OnResize
<1>. HIDE DEF d
<1>4. panel \in State /\ Placed(panel) /\ Alive(panel)
  BY PanelCalls DEF Inv
<1>5. Displays(panel)
  BY DEF Displays
<1>6. CASE panel.watching
  <2>1. ~panel.cleaned /\ panel.observed
    BY <1>4, <1>6 DEF Alive
  <2>2. Onwards(d, panel, q) /\ Unmoved(panel, q)
    BY <1>2, <1>4, <2>1, SurveyedOnwards
  <2>. HIDE DEF q
  <2>3. q \in State /\ Placed(q) /\ ~q.cleaned /\ q.observed
    BY <2>2 DEF Onwards, Lives
  <2>4. CASE a # None /\ ~Projected(d, q, a)
    <3>1. panel' = Mount(d, q)
      BY <1>3, <1>6, <2>4
    <3>2. Onwards(d, q, panel') /\ Settled(d, panel')
      BY <1>2, <2>3, <3>1, MountIs
    <3>3. Onwards(d, panel, panel')
      BY <1>2, <2>2, <3>2, OnwardsTrans
    <3>4. Looked(d, panel, panel')
      BY <3>2, <3>3, SettledClears DEF Looked
    <3>. QED  BY <1>2, <1>3, <1>4, <1>5, <3>4, LookedStep
  <2>5. CASE ~(a # None /\ ~Projected(d, q, a))
    <3>1. /\ panel' \in State /\ Kept(q, panel') /\ Unmoved(q, panel')
          /\ panel'.blocked = q.blocked /\ panel'.reconcile
      BY <1>3, <1>6, <2>3, <2>5, ScheduledIs
    <3>2. panel'.host = panel.host /\ panel'.validated = panel.validated
      BY <2>2, <3>1 DEF Unmoved
    <3>3. Control'
      BY <2>3, <3>1 DEF Control, Placed, Alive, Unmoved, Kept
    <3>4. ClearStep
      <4>. SUFFICES ASSUME NEW z \in Sidebars, panel'.host = z, d[z].layout = "settings"
                    PROVE  Active(d, panel') = z
        BY <1>2, <1>3, <3>1, <3>2 DEF ClearStep
      <4>1. Active(d, panel') = a
        BY <3>1, ActiveOf DEF Kept
      <4>2. a \in Sidebars
        BY <1>2, SettingsIsThere
      <4>. QED  BY <2>5, <3>1, <4>1, <4>2, NoneAssumption DEF Projected, Unmoved
    <3>5. BlockedStep
      <4>. SUFFICES ASSUME panel.blocked # None,
                           dom'[panel.blocked] = dom[panel.blocked],
                           dom[panel.blocked].look = panel.known[panel.blocked],
                           panel'.signature = panel.blockedSignature,
                           Active(dom', panel') = panel.blocked,
                           ~panel'.settingsRoute
                    PROVE  panel'.blocked = panel.blocked /\ panel'.host # panel.blocked
        BY DEF BlockedStep
      <4>1. panel.blocked \in Sidebars
        BY <1>4 DEF State
      <4>2. Active(d, q) = panel.blocked
        BY <1>3, <3>1, ActiveOf DEF Kept
      <4>3. Blocks(panel, panel.blocked)
        BY <2>2, <3>1 DEF Onwards, Kept, Blocks
      <4>4. Blocks(q, panel.blocked)
        BY <1>3, <2>2, <3>1, <4>1, <4>2, <4>3 DEF Onwards, Off, Kept
      <4>. QED  BY <1>4, <3>1, <3>2, <4>1, <4>4 DEF Blocks, Placed
    <3>6. BlinkStep
      BY <3>2 DEF BlinkStep, Healthy, Projected
    <3>. QED  BY <1>2, <1>3, <3>3, <3>4, <3>5, <3>6 DEF Proper
  <2>. QED  BY <2>4, <2>5
<1>7. CASE ~panel.watching /\ panel.blocked = s /\ d[s].form # dom[s].form
  <2>. DEFINE x == Unblocked(panel)
  <2>1. /\ x \in State /\ Kept(panel, x) /\ Unmoved(panel, x) /\ x.blocked = None
    BY <1>4, UnblockedIs
  <2>2. x.blockedSignature = panel.blockedSignature
    BY <1>4 DEF Unblocked, State
  <2>3. panel' = Mount(d, x)
    BY <1>3, <1>7
  <2>. HIDE DEF x
  <2>4. Placed(x) /\ Displays(x)
    BY <1>3, <1>4, <1>7, <2>1, <2>2 DEF Placed, Displays, Kept, Unmoved
  <2>5. Looked(d, x, panel')
    BY <1>2, <2>1, <2>3, <2>4, MountIs, SettledClears DEF Looked
  <2>. QED  BY <1>2, <1>3, <2>1, <2>4, <2>5, LookedStep
<1>8. CASE ~panel.watching /\ ~(panel.blocked = s /\ d[s].form # dom[s].form)
  <2>1. panel' = panel
    BY <1>3, <1>8
  <2>2. Control' /\ panel.host \notin Sidebars
    BY <1>4, <1>8, <2>1 DEF Control, Placed, Alive
  <2>. QED  BY <1>2, <1>3, <2>1, <2>2, OutsideStep
<1>. QED  BY <1>6, <1>7, <1>8

LEMMA UnseenStep ==
    ASSUME Inv, NEW s \in Sidebars, Unseen(s)
    PROVE  Control' /\ Proper /\ dom' \in Doms
<1>1. PICK b \in Resized(s) :
          b.look = dom[s].look /\ dom' = [dom EXCEPT ![s] = b] /\ panel' = panel
  BY DEF Unseen, AppChanges
<1>2. b \in Sidebar
  BY DEF Resized
<1>3. /\ dom' \in Doms
      /\ \A z \in Sidebars : Steady(z)
  <2>. DEFINE d == [dom EXCEPT ![s] = b]
  <2>1. /\ d \in Doms
        /\ \A z \in Sidebars : /\ d[z].layout = "settings" => dom[z].layout = "settings"
                               /\ dom[z].layout \in {"slotless", "bare"}
                                     => d[z].layout = dom[z].layout
    BY ResizedKeeps
  <2>. HIDE DEF d
  <2>2. dom' = d
    BY <1>1 DEF d
  <2>. QED  BY <2>1, <2>2 DEF Steady
<1>4. \A z \in Sidebars : dom'[z].look = dom[z].look
  BY <1>1, <1>2, DomChanges
<1>5. Same(panel')
  BY <1>1, PanelCalls DEF Same
<1>6. Control'
  BY <1>5, SameControl
<1>7. Proper
  BY <1>1, <1>3, <1>4, <1>5, <1>6, StillStep DEF Same
<1>. QED  BY <1>3, <1>6, <1>7

-----------------------------------------------------------------------------
(* The theorems.                                                           *)

LEMMA FreshType == Fresh \in State
<1>1. 0 \in 0..MaxAttempts
  BY MaxAttemptsAssumption
<1>2. [s \in Sidebars |-> "absent"] \in [Sidebars -> Looks]
  BY DEF Looks
<1>. QED  BY <1>1, <1>2, Zenon DEF Fresh, State, Signatures

LEMMA InitInv == Init => Inv
<1>. SUFFICES ASSUME Init PROVE Inv
  OBVIOUS
<1>1. dom \in Doms /\ panel = Mount(dom, Fresh) /\ changes = 0
  BY DEF Init, Doms
<1>2. Placed(Fresh)
  BY NoneAssumption DEF Fresh, Placed
<1>3. Onwards(dom, Fresh, panel) /\ Settled(dom, panel)
  BY <1>1, <1>2, FreshType, MountIs
<1>4. panel \in State /\ Placed(panel) /\ Alive(panel)
  BY <1>3 DEF Onwards, Lives, Alive
<1>5. Departing
  BY <1>3 DEF Departing, Settled
<1>6. TypeOK
  BY <1>1, <1>4, MaxChangesAssumption DEF TypeOK, Doms
<1>. QED  BY <1>4, <1>5, <1>6 DEF Inv

\* The one lemma about Next.
LEMMA EveryStep ==
    ASSUME Inv, [Next]_vars
    PROVE  Inv' /\ Proper
<1>1. Control' /\ Proper /\ dom' \in Doms /\ changes' \in 0..MaxChanges
  <2>0. dom \in Doms /\ changes \in 0..MaxChanges
    BY DEF Inv, TypeOK, Doms
  <2>1. ASSUME dom' = dom, changes' = changes, Control', Proper
        PROVE  Control' /\ Proper /\ dom' \in Doms /\ changes' \in 0..MaxChanges
    BY <2>0, <2>1
  <2>2. ASSUME changes < MaxChanges, changes' = changes + 1
        PROVE  changes' \in 0..MaxChanges
    BY <2>0, <2>2, MaxChangesAssumption
  <2>3. ASSUME NEW s \in Sidebars, Mutation(s)
        PROVE  Control' /\ Proper /\ dom' \in Doms /\ changes' \in 0..MaxChanges
    BY <2>2, <2>3, MutationStep DEF Mutation, AppChanges
  <2>4. CASE OwnMutation
    BY <2>1, <2>4, OwnMutationStep DEF OwnMutation, Becomes
  <2>5. CASE Update
    BY <2>1, <2>5, UpdateStep DEF Update, Becomes
  <2>6. CASE Heartbeat
    BY <2>1, <2>6, HeartbeatStep DEF Heartbeat, Becomes
  <2>7. CASE Bootstrap
    BY <2>1, <2>7, BootstrapStep DEF Bootstrap, Becomes
  <2>8. CASE Cleanup
    BY <2>1, <2>8, CleanupStep DEF Cleanup, Becomes
  <2>9. CASE Age
    BY <2>1, <2>9, AgeStep DEF Age, Becomes
  <2>10. CASE Countdown
    BY <2>1, <2>10, CountdownStep DEF Countdown, Becomes
  <2>11. CASE HeartbeatIsLate
    BY <2>1, <2>11, HeartbeatIsLateStep DEF HeartbeatIsLate, Becomes
  <2>12. CASE LocaleChanges
    BY <2>1, <2>12, LocaleChangesStep DEF LocaleChanges, Becomes
  <2>13. CASE ReconcileFires
    BY <2>1, <2>13, ReconcileFiresStep DEF ReconcileFires, Becomes
  <2>14. CASE RetryFires
    BY <2>1, <2>14, RetryFiresStep DEF RetryFires, Becomes
  <2>15. CASE GraceElapses
    BY <2>1, <2>15, GraceElapsesStep DEF GraceElapses, Becomes
  <2>16. CASE Frame
    BY <2>1, <2>16, FrameStep DEF Frame, Becomes
  <2>17. CASE HostTakenOut
    BY <2>0, <2>2, <2>17, HostTakenOutStep DEF HostTakenOut, AppChanges
  <2>18. ASSUME NEW s \in Sidebars, Resize(s)
         PROVE  Control' /\ Proper /\ dom' \in Doms /\ changes' \in 0..MaxChanges
    BY <2>2, <2>18, ResizeStep DEF Resize, AppChanges
  <2>19. ASSUME NEW s \in Sidebars, Unseen(s)
         PROVE  Control' /\ Proper /\ dom' \in Doms /\ changes' \in 0..MaxChanges
    BY <2>2, <2>19, UnseenStep DEF Unseen, AppChanges
  <2>20. CASE UNCHANGED vars
    <3>1. dom' = dom /\ panel' = panel /\ changes' = changes
      BY <2>20 DEF vars
    <3>2. Same(panel')
      BY <3>1, PanelCalls DEF Same
    <3>. QED  BY <2>1, <3>1, <3>2, SameStep
  <2>. QED  BY <2>3, <2>4, <2>5, <2>6, <2>7, <2>8, <2>9, <2>10, <2>11, <2>12, <2>13,
               <2>14, <2>15, <2>16, <2>17, <2>18, <2>19, <2>20 DEF Next
<1>2. Departing'
  BY <1>1 DEF Departing, Waits, Proper, ClearStep
<1>3. TypeOK'
  BY <1>1 DEF TypeOK, Control, Doms
<1>. QED  BY <1>1, <1>2, <1>3 DEF Inv, Control

(* Every state of the panel has the types of TypeOK; a host in a sidebar   *)
(* is projected and its sidebar observed, with none blocked, a cleaned     *)
(* controller has no host, and a panel in a settings sidebar is about to   *)
(* be looked at again, or waits for another sidebar, the active one.       *)
THEOREM Invariance == Spec => []Inv
BY InitInv, EveryStep, PTL DEF Spec

(* The types are the first part of it.                                     *)
THEOREM TypeCorrect == Spec => []TypeOK
<1>1. Inv => TypeOK
  BY DEF Inv
<1>. QED  BY <1>1, Invariance, PTL

(* For any number of sidebars that come, go and grow: the panel enters no  *)
(* settings sidebar, and stays in one that turns into it only where another*)
(* is the active one and has no place for it yet; and if a settings sidebar*)
(* with the panel in it is the active one, a reconcile is due.             *)
THEOREM SettingsIsClearHolds == Spec => SettingsIsClear
<1>1. Inv /\ [Next]_vars => [ClearStep]_vars
  BY EveryStep DEF Proper
<1>. QED  BY <1>1, Invariance, PTL DEF Spec, SettingsIsClear, ClearStep

(* A panel that did not fit stays blocked in, and out of, its sidebar until*)
(* that one changes, or a change of its look is noticed, the sidebar it was*)
(* in when it was given up is rebuilt or goes, something else is to be     *)
(* shown, another sidebar is the active one, the page is on the settings   *)
(* route, or the controller is cleaned up.                                 *)
THEOREM BlockedStaysAwayHolds == Spec => BlockedStaysAway
<1>1. Inv /\ [Next]_vars => [BlockedStep]_vars
  BY EveryStep DEF Proper
<1>. QED  BY <1>1, Invariance, PTL DEF Spec, BlockedStaysAway, BlockedStep

(* While its sidebar stays as it is and in sight, no callback takes a      *)
(* panel that fits out of it.                                              *)
THEOREM NeverBlinksHolds == Spec => NeverBlinks
<1>1. Inv /\ [Next]_vars => [BlinkStep]_vars
  BY EveryStep DEF Proper
<1>. QED  BY <1>1, Invariance, PTL DEF Spec, NeverBlinks, BlinkStep

\* What a call that reconciles has failed to do.
Missed ==
    LET s == Active(dom, panel')
    IN /\ dom' = dom /\ ~panel'.cleaned
       /\ ~panel'.validated \/ panel'.outdated \/ ~Healthy(dom, panel', s)
       /\ s # None /\ InSight(s) /\ panel'.blocked # s

(* One call or timer that reconciles is enough, from whatever state: after *)
(* it the panel is in the sidebar that can show it, with the latest        *)
(* figures, unless it is blocked there.                                    *)
THEOREM OneCallIsEnoughHolds == Spec => OneCallIsEnough
<1>1. ASSUME Inv, Update \/ Heartbeat \/ Countdown \/ ReconcileFires
      PROVE  ~Missed
  <2>1. ~panel'.cleaned => Settled(dom, panel')
    BY <1>1, UpdateStep, HeartbeatStep, CountdownStep, ReconcileFiresStep
  <2>. DEFINE s == Active(dom, panel')
  <2>2. s \in Sidebars \cup {None}
    BY ActiveIsThere
  <2>3. ASSUME ~panel'.cleaned, s # None, InSight(s), panel'.blocked # s
        PROVE  Shown(dom, panel', s)
    BY <2>1, <2>2, <2>3 DEF Settled, Fits, InSight
  <2>. QED  BY <2>3 DEF Missed, Shown
<1>2. Inv => [Missed => ~(Update \/ Heartbeat \/ Countdown \/ ReconcileFires)]_vars
  BY <1>1
<1>. QED  BY <1>2, Invariance, PTL DEF Spec, OneCallIsEnough, Missed

=============================================================================
