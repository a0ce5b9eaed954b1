------------------------- MODULE PanelPages_proofs -------------------------
(***************************************************************************)
(* Proofs about PanelPages, for any pages, publications and troubles.  The *)
(* first part needs nothing of what the sessions bring back: what a closed *)
(* watcher has left, and what a page is sent and when (Inv).  The second   *)
(* part relates what the sessions bring back to the pages (PagesOk): what  *)
(* is on a page once its replay is over, or the watcher has closed.  The   *)
(* last part is about types (RestInv).                                     *)
(***************************************************************************)
EXTENDS PanelPages, TLAPS, WellFoundedInduction

Stages == {"untracked", "connecting", "settling", "probing", "bootstrapping", "replaying",
           "ready", "removing"}

(* Whoever is connected, of what a page's stage says.                      *)
Connected == Stages \ {"untracked", "connecting"}

PageTypes ==
    /\ doc \in [Targets -> Documents]
    /\ stage \in [Targets -> Stages]
    /\ connecting \subseteq Targets /\ todo \subseteq Targets
    /\ revision \in Revisions
    /\ runs \in [Callers -> [does : Calls, left : SUBSET Targets]]

(* The commands a page has to evaluate: what they show is no older than    *)
(* what it shows, and in the order of publication.                         *)
Ordered(t, s) ==
    \A i \in DOMAIN s : s[i].does = "show" =>
        /\ doc[t].shown <= s[i].revision /\ s[i].revision <= revision
        /\ \A j \in DOMAIN s : i < j /\ s[j].does = "show" => s[i].revision <= s[j].revision

IsSession(t, q) ==
    /\ q = [sent |-> q.sent, wire |-> q.wire]
    /\ q.sent \in Seq(Commands) /\ Ordered(t, q.sent)

SessionInv ==
    /\ session = [t \in Targets |-> session[t]]
    /\ \A t \in Targets : doc[t].shown <= revision /\ IsSession(t, session[t])

(* A page that is not connected has no session, and addPage is at work on  *)
(* those that wait for theirs; a sync ends when it has added them.         *)
StageInv ==
    /\ \A t \in Targets : stage[t] \in {"untracked", "connecting"} => session[t] = Silent
    /\ connecting = {t \in Targets : stage[t] = "connecting"}
    /\ loop # "syncing" => connecting = {}
    /\ connecting \cap todo = {}
    /\ loop = "closed" => ignored = {} /\ \A t \in Targets : stage[t] = "untracked"

Inv == PageTypes /\ SessionInv /\ StageInv

-----------------------------------------------------------------------------
(* Sessions.                                                               *)

LEMMA SilentIsSession == ASSUME NEW t PROVE IsSession(t, Silent)
BY DEF IsSession, Silent, Ordered

LEMMA AppendOrdered ==
    ASSUME PageTypes, NEW t \in Targets, doc[t].shown <= revision,
           NEW q, IsSession(t, q), NEW command \in Commands,
           command.does = "show" => command.revision = revision
    PROVE  IsSession(t, [q EXCEPT !.sent = Append(@, command)])
<1>. DEFINE s == q.sent
            r == Append(q.sent, command)
<1>1. /\ r \in Seq(Commands) /\ Len(r) = Len(s) + 1 /\ r[Len(r)] = command
      /\ \A i \in 1..Len(s) : r[i] = s[i]
  BY DEF IsSession
<1>2. [q EXCEPT !.sent = Append(@, command)] = [sent |-> r, wire |-> q.wire]
  <2>1. \A a, b, c : [[sent |-> a, wire |-> b] EXCEPT !.sent = c] = [sent |-> c, wire |-> b]
    OBVIOUS
  <2>2. q = [sent |-> q.sent, wire |-> q.wire]
    BY DEF IsSession
  <2>. QED  BY <2>1, <2>2
<1>3. \A i \in 1..Len(s) : s[i] \in Commands
  BY DEF IsSession
<1>4. Ordered(t, r)
  <2>. SUFFICES ASSUME NEW i \in 1..Len(r), r[i].does = "show"
                PROVE  /\ doc[t].shown <= r[i].revision /\ r[i].revision <= revision
                       /\ \A j \in 1..Len(r) : i < j /\ r[j].does = "show" =>
                            r[i].revision <= r[j].revision
    BY <1>1 DEF Ordered
  <2>0. revision \in Nat
    BY DEF PageTypes, Revisions
  <2>1. CASE i = Len(r)
    BY <1>1, <2>0, <2>1
  <2>2. CASE i # Len(r)
    <3>1. i \in 1..Len(s) /\ r[i] = s[i] /\ s[i].does = "show"
      BY <1>1, <2>2
    <3>2. /\ doc[t].shown <= s[i].revision /\ s[i].revision <= revision
          /\ \A j \in 1..Len(s) : i < j /\ s[j].does = "show" => s[i].revision <= s[j].revision
      BY <3>1 DEF IsSession, Ordered
    <3>. QED  BY <1>1, <3>1, <3>2
  <2>. QED  BY <2>1, <2>2
<1>. QED  BY <1>1, <1>2, <1>4 DEF IsSession

(* A change of who awaits a command changes nothing else of it.            *)
LEMMA RenamedOrdered ==
    ASSUME NEW t \in Targets, NEW s \in Seq(Commands), Ordered(t, s), NEW r \in Seq(Commands),
           Len(r) = Len(s),
           \A i \in 1..Len(s) : r[i].does = s[i].does /\ r[i].revision = s[i].revision
    PROVE  Ordered(t, r)
BY DEF Ordered

LEMMA SupersededIsSession ==
    ASSUME NEW t \in Targets, NEW q, IsSession(t, q)
    PROVE  IsSession(t, Superseded(q))
<1>. DEFINE Stale(message) ==
                IF message.by # "validation" THEN message
                ELSE [message EXCEPT !.by = IF message.does = "show" THEN "stale" ELSE "nobody"]
            r == [i \in DOMAIN q.sent |-> Stale(q.sent[i])]
<1>1. \A command \in Commands :
        /\ Stale(command) \in Commands
        /\ Stale(command).does = command.does /\ Stale(command).revision = command.revision
  BY DEF Commands, Awaiters
<1>2. q.sent \in Seq(Commands) /\ DOMAIN q.sent = 1..Len(q.sent)
  BY DEF IsSession
<1>3. r \in Seq(Commands) /\ Len(r) = Len(q.sent)
      /\ \A i \in 1..Len(q.sent) : r[i].does = q.sent[i].does /\ r[i].revision = q.sent[i].revision
  <2>1. \A i \in 1..Len(q.sent) : q.sent[i] \in Commands
    BY <1>2
  <2>2. Len(q.sent) \in Nat
    BY <1>2
  <2>3. r = [i \in 1..Len(q.sent) |-> Stale(q.sent[i])]
    BY <1>2
  <2>. HIDE DEF Stale, r
  <2>4. r \in Seq(Commands) /\ Len(r) = Len(q.sent)
    BY <1>1, <2>1, <2>2, <2>3
  <2>. QED  BY <1>1, <2>1, <2>3, <2>4
<1>4. Superseded(q).sent = r /\ Superseded(q) = [sent |-> r, wire |-> Superseded(q).wire]
  BY DEF Superseded
<1>. HIDE DEF r
<1>5. Ordered(t, r)
  BY <1>2, <1>3, RenamedOrdered DEF IsSession
<1>. QED  BY <1>3, <1>4, <1>5 DEF IsSession

-----------------------------------------------------------------------------
(* What a step does to one page: it is connected after it, or has no       *)
(* session any more.                                                       *)

Continued(t) ==
    /\ session' = [session EXCEPT ![t] = session'[t]]
    /\ IsSession(t, session'[t])
    /\ stage' = [stage EXCEPT ![t] = stage'[t]]
    /\ stage'[t] \in Connected \/ (stage'[t] = "untracked" /\ session'[t] = Silent)
    /\ connecting' = connecting \ {t}
    /\ runs' \in [Callers -> [does : Calls, left : SUBSET Targets]]

LEMMA EndsContinued ==
    ASSUME PageTypes, SessionInv, NEW t \in Targets, NEW ignore, NEW unclean,
           Ends(t, ignore, unclean)
    PROVE  Continued(t)
<1>1. session'[t] = Silent /\ session' = [session EXCEPT ![t] = session'[t]]
  BY DEF Ends, SessionInv
<1>2. stage'[t] = "untracked" /\ stage' = [stage EXCEPT ![t] = stage'[t]]
  BY DEF Ends, PageTypes
<1>3. runs' \in [Callers -> [does : Calls, left : SUBSET Targets]]
  BY DEF Ends, PageTypes
<1>. QED  BY <1>1, <1>2, <1>3, SilentIsSession DEF Continued, Ends

LEMMA ConsumesContinued ==
    ASSUME PageTypes, SessionInv, StageInv, NEW t \in Targets, stage[t] \in Connected,
           NEW q, IsSession(t, q), Consumes(t, q)
    PROVE  Continued(t)
<1>1. session'[t] = q /\ session' = [session EXCEPT ![t] = session'[t]]
  BY DEF Consumes, SessionInv
<1>2. stage'[t] \in Connected /\ stage' = [stage EXCEPT ![t] = stage'[t]]
  BY DEF Consumes, PageTypes
<1>3. connecting' = connecting \ {t}
  BY DEF Consumes, StageInv, Connected
<1>4. runs' \in [Callers -> [does : Calls, left : SUBSET Targets]]
  BY DEF Consumes, PageTypes
<1>. QED  BY <1>1, <1>2, <1>3, <1>4 DEF Continued

LEMMA MovesContinued ==
    ASSUME PageTypes, SessionInv, StageInv, NEW t \in Targets, stage[t] \in Connected,
           NEW q, IsSession(t, q), session' = [session EXCEPT ![t] = q],
           NEW next \in Connected, Moves(t, next)
    PROVE  Continued(t)
<1>1. session'[t] = q /\ session' = [session EXCEPT ![t] = session'[t]]
  BY DEF SessionInv
<1>2. stage'[t] = next /\ stage' = [stage EXCEPT ![t] = stage'[t]]
  BY DEF Moves, PageTypes
<1>3. connecting' = connecting \ {t}
  BY DEF Moves, StageInv, Connected
<1>4. runs' \in [Callers -> [does : Calls, left : SUBSET Targets]]
  BY DEF Moves, PageTypes
<1>. QED  BY <1>1, <1>2, <1>3, <1>4 DEF Continued

LEMMA SendsContinued ==
    ASSUME PageTypes, SessionInv, StageInv, NEW t \in Targets, stage[t] \in Connected,
           NEW q, IsSession(t, q), NEW command \in Commands,
           command.does = "show" => command.revision = revision,
           NEW next \in Connected, Sends(t, q, command, next)
    PROVE  Continued(t)
<1>1. IsSession(t, [q EXCEPT !.sent = Append(@, command)])
  BY AppendOrdered DEF SessionInv
<1>. QED  BY <1>1, MovesContinued DEF Sends

LEMMA RevalidatesContinued ==
    ASSUME PageTypes, SessionInv, StageInv, NEW t \in Targets, stage[t] \in Connected,
           NEW q, IsSession(t, q), Revalidates(t, q)
    PROVE  Continued(t)
<1>1. CASE Tracked(t)
  BY <1>1, SupersededIsSession, MovesContinued DEF Revalidates, Connected, Stages
<1>2. CASE ~Tracked(t)
  BY <1>2, ConsumesContinued DEF Revalidates
<1>. QED  BY <1>1, <1>2

LEMMA ReplaysContinued ==
    ASSUME PageTypes, SessionInv, StageInv, NEW t \in Targets, stage[t] \in Connected,
           NEW q, IsSession(t, q), NEW replayed, Replays(t, q, replayed)
    PROVE  Continued(t)
<1>1. CASE revision # replayed /\ ~aborted
  <2>1. Command("validation", "show", revision) \in Commands
        /\ Command("validation", "show", revision).revision = revision
    BY DEF Command, Commands, Awaiters, Calls, PageTypes
  <2>. QED  BY <1>1, <2>1, SendsContinued DEF Replays, Connected, Stages
<1>2. CASE ~(revision # replayed /\ ~aborted)
  <2>1. session' = [session EXCEPT ![t] = q]
        /\ Moves(t, IF revision = replayed THEN "ready" ELSE "replaying")
    BY <1>2 DEF Replays
  <2>2. (IF revision = replayed THEN "ready" ELSE "replaying") \in Connected
    BY DEF Connected, Stages
  <2>. QED  BY <2>1, <2>2, MovesContinued
<1>. QED  BY <1>1, <1>2

LEMMA ContinuesContinued ==
    ASSUME PageTypes, SessionInv, StageInv, NEW t \in Targets, stage[t] \in Connected,
           NEW q, IsSession(t, q), NEW command, NEW outcome, Continues(t, q, command, outcome)
    PROVE  Continued(t)
<1>1. CASE Consumes(t, q)
  BY <1>1, ConsumesContinued
<1>2. CASE Revalidates(t, q)
  BY <1>2, RevalidatesContinued
<1>3. CASE \E ignore, unclean : Ends(t, ignore, unclean)
  BY <1>3, EndsContinued
<1>4. CASE \E replayed : Replays(t, q, replayed)
  BY <1>4, ReplaysContinued
<1>5. CASE Sends(t, q, Command("validation", "bootstrap", 0), "bootstrapping")
  <2>1. Command("validation", "bootstrap", 0) \in Commands
        /\ Command("validation", "bootstrap", 0).does # "show"
    BY MaxRevisionAssumption DEF Command, Commands, Awaiters, Calls, Revisions
  <2>. QED  BY <1>5, <2>1, SendsContinued DEF Connected, Stages
<1>6. Probed(t, q, outcome) =>
        \/ Sends(t, q, Command("validation", "bootstrap", 0), "bootstrapping")
        \/ Revalidates(t, q)
  BY DEF Probed
<1>7. Bootstrapped(t, q, outcome) =>
        Consumes(t, q) \/ Replays(t, q, 0) \/ Ends(t, TRUE, TRUE)
  BY DEF Bootstrapped, Ignores
<1>8. Replayed(t, q, outcome, command.revision) =>
        \/ Replays(t, q, command.revision) \/ Revalidates(t, q) \/ Consumes(t, q)
        \/ Ends(t, TRUE, TRUE)
  BY DEF Replayed, Ignores
<1>9. Updated(t, q, command.by, outcome) => Revalidates(t, q) \/ Consumes(t, q)
  BY DEF Updated
<1>. QED  BY <1>1, <1>2, <1>3, <1>4, <1>5, <1>6, <1>7, <1>8, <1>9 DEF Continues

-----------------------------------------------------------------------------
(* The steps.                                                              *)

LEMMA HasSession ==
    ASSUME PageTypes, StageInv, NEW t \in Targets, session[t] # Silent
    PROVE  stage[t] \in Connected
BY DEF PageTypes, StageInv, Connected

LEMMA ContinuedKeeps ==
    ASSUME Inv, NEW t \in Targets, Continued(t), UNCHANGED <<doc, revision, loop>>,
           todo' \subseteq todo, stage[t] # "untracked"
    PROVE  Inv'
<1>1. /\ stage'[t] # "connecting"
      /\ \A u \in Targets : u # t => stage'[u] = stage[u] /\ session'[u] = session[u]
  BY DEF Continued, Connected, Inv, PageTypes, SessionInv
<1>2. PageTypes'
  BY DEF Continued, Inv, PageTypes, Connected, Stages
<1>3. SessionInv'
  <2>1. session' = [u \in Targets |-> session'[u]]
    BY DEF Continued, Inv, SessionInv
  <2>2. ASSUME NEW u \in Targets PROVE (doc[u].shown <= revision /\ IsSession(u, session[u]))'
    <3>1. IsSession(u, session'[u])
      BY <1>1 DEF Continued, Inv, SessionInv
    <3>2. doc[u].shown <= revision
      BY DEF Inv, SessionInv
    <3>. QED  BY <3>1, <3>2 DEF IsSession, Ordered
  <2>. QED  BY <2>1, <2>2 DEF SessionInv
<1>4. StageInv'
  <2>1. \A u \in Targets : stage'[u] \in {"untracked", "connecting"} => session'[u] = Silent
    BY <1>1 DEF Continued, Connected, Inv, StageInv
  <2>2. connecting' = {u \in Targets : stage'[u] = "connecting"}
    BY <1>1 DEF Continued, Inv, StageInv
  <2>3. loop # "closed"
    BY DEF Inv, StageInv
  <2>. QED  BY <2>1, <2>2, <2>3 DEF Continued, Inv, StageInv
<1>. QED  BY <1>2, <1>3, <1>4 DEF Inv

(* A step that changes no page's stage or session.                         *)
LEMMA StillKeeps ==
    ASSUME Inv, UNCHANGED <<session, stage, connecting, doc, revision>>, todo' \subseteq Targets,
           runs' \in [Callers -> [does : Calls, left : SUBSET Targets]],
           loop' # "syncing" => connecting = {},
           connecting \cap todo' = {},
           loop' = "closed" => ignored' = {} /\ \A t \in Targets : stage[t] = "untracked"
    PROVE  Inv'
<1>1. PageTypes'
  BY DEF Inv, PageTypes
<1>2. SessionInv'
  BY DEF Inv, SessionInv, IsSession, Ordered
<1>3. StageInv'
  BY DEF Inv, StageInv
<1>. QED  BY <1>1, <1>2, <1>3 DEF Inv

LEMMA OtherWire ==
    ASSUME NEW q, q = [sent |-> q.sent, wire |-> q.wire], NEW c
    PROVE  [q EXCEPT !.wire = c] = [sent |-> q.sent, wire |-> c]
<1>1. \A a, b : [[sent |-> a, wire |-> b] EXCEPT !.wire = c] = [sent |-> a, wire |-> c]
  OBVIOUS
<1>. QED  BY <1>1

LEMMA TailOfWire ==
    ASSUME NEW t, NEW q, IsSession(t, q)
    PROVE  IsSession(t, [q EXCEPT !.wire = Tail(@)])
<1>1. \A c : [q EXCEPT !.wire = c] = [sent |-> q.sent, wire |-> c]
  BY OtherWire DEF IsSession
<1>. DEFINE rest == Tail(q.wire)
<1>2. [q EXCEPT !.wire = Tail(@)] = [q EXCEPT !.wire = rest]
  BY Zenon
<1>. HIDE DEF rest
<1>. QED  BY <1>1, <1>2 DEF IsSession

LEMMA HandleKeeps ==
    ASSUME Inv, NEW t \in Targets, HandleAnswer(t) \/ HandleNavigation(t)
    PROVE  Inv'
<1>1. session[t] # Silent
  BY DEF HandleAnswer, HandleNavigation, Silent
<1>2. stage[t] \in Connected /\ IsSession(t, [session[t] EXCEPT !.wire = Tail(@)])
  BY <1>1, HasSession, TailOfWire DEF Inv, SessionInv
<1>3. Continued(t)
  <2>1. CASE HandleAnswer(t)
    BY <1>2, <2>1, ContinuesContinued DEF HandleAnswer, Inv
  <2>2. CASE HandleNavigation(t)
    BY <1>2, <2>2, RevalidatesContinued DEF HandleNavigation, Inv
  <2>. QED  BY <2>1, <2>2
<1>4. UNCHANGED <<doc, revision, loop, todo>>
  BY DEF HandleAnswer, HandleNavigation, browserVars, loopVars
<1>. QED  BY <1>2, <1>3, <1>4, ContinuedKeeps DEF Connected

(* A session of which a command is not awaited any more.                   *)
LEMMA TimedOutSession ==
    ASSUME Inv, NEW t \in Targets, NEW i \in DOMAIN session[t].sent
    PROVE  LET s == session[t].sent
               q == [session[t] EXCEPT !.sent[i].by = "nobody"]
           IN  /\ IsSession(t, q) /\ q.wire = session[t].wire /\ DOMAIN q.sent = DOMAIN s
               /\ Len(q.sent) = Len(s) /\ DOMAIN s = 1..Len(s)
               /\ \A j \in DOMAIN s : /\ q.sent[j].does = s[j].does
                                      /\ q.sent[j].revision = s[j].revision
                                      /\ q.sent[j].by = IF j = i THEN "nobody" ELSE s[j].by
<1>. DEFINE s == session[t].sent
            r == [s EXCEPT ![i].by = "nobody"]
            q == [session[t] EXCEPT !.sent[i].by = "nobody"]
<1>2. s \in Seq(Commands) /\ Ordered(t, s) /\ session[t] = [sent |-> s, wire |-> session[t].wire]
  BY DEF Inv, SessionInv, IsSession
<1>3. i \in 1..Len(s) /\ Len(s) \in Nat /\ s = [j \in 1..Len(s) |-> s[j]]
      /\ \A j \in 1..Len(s) : s[j] \in Commands
  <2>1. i \in DOMAIN s
    OBVIOUS
  <2>. HIDE DEF s
  <2>. QED  BY <1>2, <2>1
<1>4. \A command \in Commands :
        /\ [command EXCEPT !.by = "nobody"] \in Commands
        /\ [command EXCEPT !.by = "nobody"].by = "nobody"
        /\ [command EXCEPT !.by = "nobody"].does = command.does
        /\ [command EXCEPT !.by = "nobody"].revision = command.revision
  BY DEF Commands, Awaiters
<1>5. /\ r \in Seq(Commands) /\ Len(r) = Len(s) /\ DOMAIN r = 1..Len(s)
      /\ \A j \in 1..Len(s) : /\ r[j].does = s[j].does /\ r[j].revision = s[j].revision
                              /\ r[j].by = IF j = i THEN "nobody" ELSE s[j].by
  <2>. HIDE DEF s
  <2>1. r = [j \in 1..Len(s) |-> IF j = i THEN [s[j] EXCEPT !.by = "nobody"] ELSE s[j]]
    BY <1>3
  <2>. HIDE DEF r
  <2>2. \A j \in 1..Len(s) : r[j] \in Commands
    BY <1>3, <1>4, <2>1
  <2>3. r \in Seq(Commands) /\ Len(r) = Len(s) /\ DOMAIN r = 1..Len(s)
    BY <1>3, <2>1, <2>2
  <2>. QED  BY <1>3, <1>4, <2>1, <2>3
<1>6. q = [sent |-> r, wire |-> session[t].wire]
  <2>1. \A a, b : [[sent |-> a, wire |-> b] EXCEPT !.sent[i].by = "nobody"]
                    = [sent |-> [a EXCEPT ![i].by = "nobody"], wire |-> b]
    OBVIOUS
  <2>. QED  BY <1>2, <2>1
<1>. HIDE DEF s, r, q
<1>7. IsSession(t, q) /\ q.sent = r /\ q.wire = session[t].wire
  <2>1. Ordered(t, r)
    BY <1>2, <1>5, RenamedOrdered
  <2>. QED  BY <1>5, <1>6, <2>1 DEF IsSession
<1>8. DOMAIN s = 1..Len(s)
  BY <1>3
<1>. QED  BY <1>5, <1>7, <1>8 DEF s, q

LEMMA TimesOutExpires ==
    ASSUME NEW t \in Targets, TimesOut(t)
    PROVE  /\ \E i \in DOMAIN session[t].sent :
                  Continues(t, [session[t] EXCEPT !.sent[i].by = "nobody"],
                            session[t].sent[i], "error")
           /\ UNCHANGED <<browserVars, known, loopVars, aborted, revision, stopping>>
           /\ UNCHANGED troubles \/ Trouble
<1>1. \E awaiters : Expires(t, awaiters) /\ (UNCHANGED troubles \/ Trouble)
  BY DEF TimesOut, ClosingExpires
<1>. QED  BY <1>1 DEF Expires

LEMMA TimesOutKeeps ==
    ASSUME Inv, NEW t \in Targets, TimesOut(t)
    PROVE  Inv'
<1>1. PICK i \in DOMAIN session[t].sent :
        Continues(t, [session[t] EXCEPT !.sent[i].by = "nobody"], session[t].sent[i], "error")
  BY TimesOutExpires
<1>2. IsSession(t, [session[t] EXCEPT !.sent[i].by = "nobody"])
  BY TimedOutSession
<1>3. session[t] # Silent
  BY <1>1 DEF Silent
<1>4. stage[t] \in Connected
  BY <1>3, HasSession DEF Inv
<1>5. Continued(t)
  BY <1>1, <1>2, <1>4, ContinuesContinued DEF Inv
<1>6. UNCHANGED <<doc, revision, loop, todo>>
  BY TimesOutExpires DEF browserVars, loopVars
<1>. QED  BY <1>4, <1>5, <1>6, ContinuedKeeps DEF Connected

LEMMA PageStepKeeps ==
    ASSUME Inv, NEW t \in Targets, PageSteps(t)
    PROVE  Inv'
<1>1. CASE HandleAnswer(t) \/ HandleNavigation(t)
  BY <1>1, HandleKeeps
<1>2. CASE TimesOut(t)
  BY <1>2, TimesOutKeeps
<1>3. CASE SessionLost(t) \/ ConnectFails(t)
  <2>1. \E ignore, unclean : Ends(t, ignore, unclean)
    BY <1>3 DEF SessionLost, ConnectFails, Ignores
  <2>2. stage[t] # "untracked" /\ UNCHANGED <<doc, revision, loop, todo>>
    BY <1>3 DEF SessionLost, ConnectFails, Inv, StageInv, browserVars, loopVars
  <2>. QED  BY <2>1, <2>2, EndsContinued, ContinuedKeeps DEF Inv
<1>4. CASE SettleElapses(t)
  <2>1. stage[t] = "settling" /\ stage[t] \in Connected
    BY <1>4 DEF SettleElapses, Connected, Stages
  <2>2. Command("validation", "probe", 0) \in Commands
        /\ Command("validation", "probe", 0).does # "show"
    BY MaxRevisionAssumption DEF Command, Commands, Awaiters, Calls, Revisions
  <2>3. Continued(t)
    BY <1>4, <2>1, <2>2, SendsContinued DEF SettleElapses, Inv, SessionInv, Connected, Stages
  <2>4. UNCHANGED <<doc, revision, loop, todo>>
    BY <1>4 DEF SettleElapses, browserVars, loopVars
  <2>. QED  BY <2>1, <2>3, <2>4, ContinuedKeeps
<1>5. CASE Connects(t)
  <2>1. session'[t] = Superseded(session[t]) /\ session' = [session EXCEPT ![t] = session'[t]]
    BY <1>5 DEF Connects, Inv, SessionInv
  <2>2. IsSession(t, session'[t])
    BY <2>1, SupersededIsSession DEF Inv, SessionInv
  <2>3. stage'[t] = "settling" /\ stage' = [stage EXCEPT ![t] = stage'[t]]
    BY <1>5 DEF Connects, Inv, PageTypes
  <2>4. connecting' = connecting \ {t} /\ UNCHANGED <<doc, revision, runs, loop, todo>>
    BY <1>5 DEF Connects, browserVars, loopVars, bridgeVars
  <2>5. Continued(t)
    BY <2>1, <2>2, <2>3, <2>4 DEF Continued, Connected, Stages, Inv, PageTypes
  <2>6. stage[t] # "untracked"
    BY <1>5 DEF Connects, Inv, StageInv
  <2>. QED  BY <2>4, <2>5, <2>6, ContinuedKeeps
<1>6. CASE IgnoredRetryElapses(t)
  <2>1. UNCHANGED <<session, stage, connecting, doc, revision, todo, runs, loop>>
        /\ ignored' \subseteq ignored
    BY <1>6 DEF IgnoredRetryElapses, browserVars, loopVars, bridgeVars
  <2>2. /\ todo' \subseteq Targets /\ runs' \in [Callers -> [does : Calls, left : SUBSET Targets]]
    BY <2>1 DEF Inv, PageTypes
  <2>3. /\ loop' # "syncing" => connecting = {}
        /\ connecting \cap todo' = {}
        /\ loop' = "closed" => ignored' = {} /\ \A u \in Targets : stage[u] = "untracked"
    BY <2>1 DEF Inv, StageInv
  <2>. QED  BY <2>1, <2>2, <2>3, StillKeeps
<1>. QED  BY <1>1, <1>2, <1>3, <1>4, <1>5, <1>6 DEF PageSteps

LEMMA RemovePageContinued ==
    ASSUME Inv, NEW t \in Targets, Tracked(t), RemovePage(t)
    PROVE  Continued(t)
<1>1. CASE Active(t)
  <2>1. Command("removal", "cleanup", 0) \in Commands
        /\ Command("removal", "cleanup", 0).does # "show"
    BY MaxRevisionAssumption DEF Command, Commands, Awaiters, Calls, Revisions
  <2>2. IsSession(t, Superseded(session[t])) /\ stage[t] \in Connected
    BY <1>1, SupersededIsSession DEF Inv, SessionInv, Active, Connected, Stages
  <2>. QED  BY <1>1, <2>1, <2>2, SendsContinued DEF RemovePage, Inv, Connected, Stages
<1>2. CASE ~Active(t)
  BY <1>2, EndsContinued DEF RemovePage, Inv
<1>. QED  BY <1>1, <1>2

LEMMA SyncingKeeps ==
    ASSUME Inv, NEW t \in Targets, Syncing(t)
    PROVE  Inv'
<1>1. CASE SyncRemoves(t) /\ Tracked(t)
  <2>1. RemovePage(t) /\ stage[t] # "untracked" /\ UNCHANGED <<doc, revision, loop>>
        /\ todo' \subseteq todo
    BY <1>1 DEF SyncRemoves, Handles, Tracked, browserVars
  <2>. QED  BY <1>1, <2>1, RemovePageContinued, ContinuedKeeps
<1>2. CASE SyncSkipsIgnored(t) \/ (SyncRemoves(t) /\ ~Tracked(t))
  <2>1. UNCHANGED <<session, stage, connecting, doc, revision, runs, loop, ignored>>
        /\ todo' = todo \ {t}
    BY <1>2 DEF SyncSkipsIgnored, SyncsListed, SyncRemoves, Handles, browserVars
  <2>2. /\ todo' \subseteq Targets /\ runs' \in [Callers -> [does : Calls, left : SUBSET Targets]]
        /\ loop' # "syncing" => connecting = {}
        /\ connecting \cap todo' = {}
        /\ loop' = "closed" => ignored' = {} /\ \A u \in Targets : stage[u] = "untracked"
    BY <2>1 DEF Inv, PageTypes, StageInv
  <2>. QED  BY <2>1, <2>2, StillKeeps
<1>3. CASE SyncFindsPage(t)
  <2>1. stage[t] \in Connected /\ IsSession(t, session[t])
    BY <1>3 DEF SyncFindsPage, SyncsListed, Handles, Tracked, Inv, PageTypes, SessionInv, StageInv,
                Connected
  <2>2. Command("route", "present", 0) \in Commands
        /\ Command("route", "present", 0).does # "show"
    BY MaxRevisionAssumption DEF Command, Commands, Awaiters, Calls, Revisions
  <2>3. \/ Consumes(t, session[t]) \/ Revalidates(t, session[t])
        \/ Sends(t, session[t], Command("route", "present", 0), stage[t])
    BY <1>3 DEF SyncFindsPage
  <2>4. Continued(t)
    BY <2>1, <2>2, <2>3, ConsumesContinued, RevalidatesContinued, SendsContinued DEF Inv
  <2>5. UNCHANGED <<doc, revision, loop>> /\ todo' \subseteq todo
    BY <1>3 DEF SyncFindsPage, SyncsListed, Handles, browserVars
  <2>. QED  BY <2>1, <2>4, <2>5, ContinuedKeeps DEF Connected
<1>4. CASE SyncAddsPage(t)
  <2>1. /\ UNCHANGED <<session, doc, revision, loop, ignored, runs>>
        /\ todo' = todo \ {t} /\ connecting' = connecting \cup {t}
        /\ stage' = [stage EXCEPT ![t] = "connecting"] /\ loop = "syncing"
        /\ stage[t] \in {"untracked", "removing"} /\ ~Removing
    BY <1>4 DEF SyncAddsPage, SyncsListed, Handles, Tracked, browserVars
  <2>2. stage[t] = "untracked" /\ session[t] = Silent
    BY <2>1 DEF Removing, Inv, StageInv
  <2>3. PageTypes'
    BY <2>1 DEF Inv, PageTypes, Stages
  <2>4. SessionInv'
    BY <2>1 DEF Inv, SessionInv, IsSession, Ordered
  <2>5. StageInv'
    BY <2>1, <2>2 DEF Inv, PageTypes, StageInv
  <2>. QED  BY <2>3, <2>4, <2>5 DEF Inv
<1>5. CASE ClosesPage(t)
  <2>1. RemovePage(t) /\ Tracked(t) /\ stage[t] # "untracked"
        /\ UNCHANGED <<doc, revision, loop, todo>>
    BY <1>5 DEF ClosesPage, Tracked, browserVars, loopVars
  <2>. QED  BY <2>1, RemovePageContinued, ContinuedKeeps
<1>. QED  BY <1>1, <1>2, <1>3, <1>4, <1>5 DEF Syncing

LEMMA LoopKeeps ==
    ASSUME Inv, Loop \/ AnchorLost
    PROVE  Inv'
<1>1. UNCHANGED <<session, stage, connecting, doc, revision, runs>>
  BY DEF Loop, AnchorLost, ListingReturns, SyncEnds, PollElapses, ClosingEnds, ListingFails,
         browserVars, pageVars, bridgeVars
<1>2. /\ todo' \subseteq Targets
      /\ loop' # "syncing" => connecting = {}
      /\ connecting \cap todo' = {}
      /\ loop' = "closed" => ignored' = {} /\ \A t \in Targets : stage[t] = "untracked"
  <2>1. CASE ListingReturns
    BY <2>1 DEF ListingReturns, Inv, StageInv
  <2>2. CASE SyncEnds \/ PollElapses \/ \E terminal \in BOOLEAN : ListingFails(terminal)
    BY <2>2 DEF SyncEnds, PollElapses, ListingFails, pageVars, Inv, PageTypes, StageInv
  <2>3. CASE ClosingEnds
    BY <2>3 DEF ClosingEnds, Inv, PageTypes, StageInv
  <2>4. CASE AnchorLost
    BY <2>4 DEF AnchorLost, pageVars, loopVars, Inv, PageTypes, StageInv
  <2>. QED  BY <2>1, <2>2, <2>3, <2>4 DEF Loop
<1>3. runs' \in [Callers -> [does : Calls, left : SUBSET Targets]]
  BY <1>1 DEF Inv, PageTypes
<1>. QED  BY <1>1, <1>2, <1>3, StillKeeps

LEMMA PublishKeeps ==
    ASSUME Inv, Publish
    PROVE  Inv'
<1>1. revision' = revision + 1 /\ revision' \in Revisions /\ revision \in Nat
  BY MaxRevisionAssumption DEF Publish, Inv, PageTypes, Revisions
<1>2. UNCHANGED <<session, doc, stage, connecting, ignored, loop, todo>>
      /\ runs' \in [Callers -> [does : Calls, left : SUBSET Targets]]
  BY DEF Publish, Begins, browserVars, pageVars, loopVars, Inv, PageTypes, Calls
<1>3. PageTypes'
  BY <1>1, <1>2 DEF Inv, PageTypes
<1>4. SessionInv'
  <2>. SUFFICES ASSUME NEW t \in Targets
                PROVE  doc[t].shown <= revision' /\ IsSession(t, session[t])'
    BY <1>2 DEF Inv, SessionInv
  <2>1. doc[t].shown <= revision /\ IsSession(t, session[t]) /\ doc[t].shown \in Nat
    BY DEF Inv, SessionInv, PageTypes, Documents, Revisions
  <2>. DEFINE s == session[t].sent
  <2>2. s \in Seq(Commands) /\ Ordered(t, s)
    BY <2>1 DEF IsSession
  <2>. HIDE DEF s
  <2>4. \A i \in DOMAIN s : s[i].revision \in Nat
    <3>1. \A i \in DOMAIN s : s[i] \in Commands
      BY <2>2
    <3>2. \A command \in Commands : command.revision \in Nat
      BY DEF Commands, Revisions
    <3>. QED  BY <3>1, <3>2
  <2>5. \A i \in DOMAIN s : s[i].does = "show" =>
          /\ doc[t].shown <= s[i].revision /\ s[i].revision <= revision + 1
          /\ \A j \in DOMAIN s : i < j /\ s[j].does = "show" => s[i].revision <= s[j].revision
    BY <1>1, <2>2, <2>4 DEF Ordered
  <2>3. Ordered(t, session[t].sent)'
    BY <1>1, <1>2, <2>5 DEF s, Ordered
  <2>. QED  BY <1>1, <1>2, <2>1, <2>3 DEF IsSession
<1>5. StageInv'
  BY <1>2 DEF Inv, StageInv
<1>. QED  BY <1>3, <1>4, <1>5 DEF Inv

(* The publisher shows what the bridge has last been given.                *)
LEMMA EvaluatesNextKeeps ==
    ASSUME Inv, NEW caller \in Callers, EvaluatesNext(caller)
    PROVE  Inv'
<1>1. PICK t \in runs[caller].left :
        /\ runs' = [runs EXCEPT ![caller].left = @ \ {t}]
        /\ session' = IF Active(t)
                      THEN [session EXCEPT ![t].sent =
                              Append(@, Command(caller, runs[caller].does, revision))]
                      ELSE session
  BY DEF EvaluatesNext
<1>2. UNCHANGED <<doc, revision, stage, connecting, ignored, loop, todo>>
  BY DEF EvaluatesNext, browserVars, pageVars, loopVars
<1>3. t \in Targets /\ runs' \in [Callers -> [does : Calls, left : SUBSET Targets]]
  BY <1>1 DEF Inv, PageTypes
<1>. DEFINE command == Command(caller, runs[caller].does, revision)
            q == [session[t] EXCEPT !.sent = Append(@, command)]
<1>4. CASE Active(t)
  <2>1. command \in Commands /\ command.revision = revision
    BY DEF Command, Commands, Awaiters, Inv, PageTypes
  <2>2. IsSession(t, q)
    BY <1>3, <2>1, AppendOrdered DEF Inv, SessionInv
  <2>3. session' = [session EXCEPT ![t] = q]
    BY <1>1, <1>4 DEF Inv, SessionInv
  <2>. HIDE DEF q
  <2>4. session'[t] = q /\ session' = [session EXCEPT ![t] = session'[t]]
    BY <1>3, <2>3 DEF Inv, SessionInv
  <2>5. connecting' = connecting \ {t} /\ stage[t] \in Connected
        /\ stage' = [stage EXCEPT ![t] = stage'[t]]
    BY <1>2, <1>3, <1>4 DEF Active, Connected, Stages, Inv, PageTypes, StageInv
  <2>6. Continued(t)
    BY <1>2, <1>3, <2>2, <2>4, <2>5 DEF Continued
  <2>. QED  BY <1>2, <1>3, <2>5, <2>6, ContinuedKeeps DEF Connected
<1>5. CASE ~Active(t)
  <2>1. /\ todo' \subseteq Targets /\ session' = session
        /\ loop' # "syncing" => connecting = {}
        /\ connecting \cap todo' = {}
        /\ loop' = "closed" => ignored' = {} /\ \A u \in Targets : stage[u] = "untracked"
    BY <1>1, <1>2, <1>5 DEF Inv, PageTypes, StageInv
  <2>. QED  BY <1>2, <1>3, <2>1, StillKeeps
<1>. QED  BY <1>4, <1>5

LEMMA BridgeKeeps ==
    ASSUME Inv, Bridge
    PROVE  Inv'
<1>1. CASE Heartbeat \/ Cleanup \/ \E caller \in Callers : EvaluateAllEnds(caller)
  <2>1. UNCHANGED <<session, stage, connecting, doc, revision, todo, loop, ignored>>
    BY <1>1 DEF Heartbeat, Cleanup, EvaluateAllEnds, browserVars, pageVars, loopVars
  <2>2. runs' \in [Callers -> [does : Calls, left : SUBSET Targets]]
    <3>1. CASE Heartbeat \/ Cleanup
      BY <3>1 DEF Heartbeat, Cleanup, Begins, Calls, Inv, PageTypes
    <3>2. CASE \E caller \in Callers : EvaluateAllEnds(caller)
      <4>1. Idle \in [does : Calls, left : SUBSET Targets]
        BY DEF Idle, Calls
      <4>. QED  BY <3>2, <4>1 DEF EvaluateAllEnds, Inv, PageTypes
    <3>. QED  BY <1>1, <3>1, <3>2
  <2>3. /\ todo' \subseteq Targets
        /\ loop' # "syncing" => connecting = {}
        /\ connecting \cap todo' = {}
        /\ loop' = "closed" => ignored' = {} /\ \A u \in Targets : stage[u] = "untracked"
    BY <2>1 DEF Inv, PageTypes, StageInv
  <2>. QED  BY <2>1, <2>2, <2>3, StillKeeps
<1>. QED  BY <1>1, PublishKeeps, EvaluatesNextKeeps DEF Bridge

-----------------------------------------------------------------------------
(* The pages.                                                              *)

(* Of a page whose first command was evaluated, the rest is in order.      *)
LEMMA TailOrdered ==
    ASSUME NEW t, NEW s \in Seq(Commands), s # <<>>, Ordered(t, s)
    PROVE  /\ Tail(s) \in Seq(Commands) /\ Ordered(t, Tail(s))
           /\ Head(s).does = "show" => 
                 \A i \in DOMAIN Tail(s) : Tail(s)[i].does = "show" =>
                     Head(s).revision <= Tail(s)[i].revision
<1>1. Tail(s) \in Seq(Commands) /\ Len(Tail(s)) = Len(s) - 1 /\ Len(s) > 0
      /\ \A i \in 1..Len(Tail(s)) : Tail(s)[i] = s[i + 1] /\ i + 1 \in 1..Len(s)
  OBVIOUS
<1>2. Ordered(t, Tail(s))
  BY <1>1 DEF Ordered
<1>3. Head(s) = s[1]
  OBVIOUS
<1>. QED  BY <1>1, <1>2, <1>3 DEF Ordered

LEMMA PageEvaluatesKeeps ==
    ASSUME Inv, NEW t \in Targets, PageEvaluates(t)
    PROVE  Inv'
<1>. DEFINE s == session[t].sent
            command == Head(s)
<1>1. /\ s # <<>> /\ s \in Seq(Commands) /\ Ordered(t, s) /\ command \in Commands
      /\ doc[t] \in Documents
  BY DEF PageEvaluates, Inv, SessionInv, IsSession, PageTypes
<1>2. \E found \in BOOLEAN : doc' = IF found THEN [doc EXCEPT ![t] = Effect(@, command)] ELSE doc
  BY DEF PageEvaluates, Finds, Inv, PageTypes, Documents
<1>3. UNCHANGED <<stage, connecting, ignored, loop, todo, revision, runs>>
  BY DEF PageEvaluates, pageVars, loopVars, bridgeVars
<1>4. session' = [session EXCEPT ![t] = session'[t]]
      /\ session'[t] = [sent |-> Tail(s), wire |-> session'[t].wire]
  BY DEF PageEvaluates, Inv, SessionInv
<1>. HIDE DEF s
<1>5. /\ Effect(doc[t], command) \in Documents
      /\ Effect(doc[t], command).shown
            = IF command.does = "show" THEN command.revision ELSE doc[t].shown
  BY <1>1 DEF Effect, Documents, Commands
<1>6. /\ doc' \in [Targets -> Documents]
      /\ \A u \in Targets : u # t => doc'[u] = doc[u]
      /\ \/ doc'[t].shown = doc[t].shown
         \/ command.does = "show" /\ doc'[t].shown = command.revision
  BY <1>2, <1>5 DEF Inv, PageTypes
<1>7. PageTypes'
  BY <1>3, <1>6 DEF Inv, PageTypes
<1>8. SessionInv'
  <2>1. session' = [u \in Targets |-> session'[u]]
    BY <1>4 DEF Inv, SessionInv
  <2>2. ASSUME NEW u \in Targets, u # t
        PROVE  doc'[u].shown <= revision' /\ IsSession(u, session[u])'
    BY <1>3, <1>4, <1>6, <2>2 DEF Inv, SessionInv, IsSession, Ordered
  <2>3. doc'[t].shown <= revision'
    <3>1. s[1] = command /\ 1 \in DOMAIN s
      BY <1>1
    <3>2. command.does = "show" => command.revision <= revision
      BY <1>1, <3>1 DEF Ordered
    <3>3. doc[t].shown <= revision
      BY DEF Inv, SessionInv
    <3>. HIDE DEF command
    <3>. QED  BY <1>3, <1>6, <3>2, <3>3
  <2>4. /\ Tail(s) \in Seq(Commands)
        /\ \A i \in DOMAIN Tail(s) : Tail(s)[i].does = "show" =>
             /\ doc'[t].shown <= Tail(s)[i].revision /\ Tail(s)[i].revision <= revision
             /\ \A j \in DOMAIN Tail(s) : i < j /\ Tail(s)[j].does = "show" =>
                  Tail(s)[i].revision <= Tail(s)[j].revision
    <3>1. /\ Tail(s) \in Seq(Commands) /\ Ordered(t, Tail(s))
          /\ command.does = "show" =>
               \A i \in DOMAIN Tail(s) : Tail(s)[i].does = "show" =>
                   command.revision <= Tail(s)[i].revision
      BY <1>1, TailOrdered
    <3>. DEFINE rest == Tail(s)
    <3>2. Ordered(t, rest)
      BY <3>1
    <3>3. command.does = "show" =>
            \A i \in DOMAIN rest : rest[i].does = "show" => command.revision <= rest[i].revision
      BY <3>1
    <3>. HIDE DEF command, rest
    <3>4. \A i \in DOMAIN rest : rest[i].does = "show" => doc'[t].shown <= rest[i].revision
      BY <1>6, <3>2, <3>3 DEF Ordered
    <3>5. \A i \in DOMAIN rest : rest[i].does = "show" =>
            /\ doc'[t].shown <= rest[i].revision /\ rest[i].revision <= revision
            /\ \A j \in DOMAIN rest : i < j /\ rest[j].does = "show" =>
                 rest[i].revision <= rest[j].revision
      BY <3>2, <3>4 DEF Ordered
    <3>. QED  BY <3>1, <3>5 DEF rest
  <2>5. IsSession(t, session[t])'
    <3>1. session'[t].sent = Tail(s)
          /\ session'[t] = [sent |-> session'[t].sent, wire |-> session'[t].wire]
      BY <1>4
    <3>. QED  BY <1>3, <2>4, <3>1 DEF IsSession, Ordered
  <2>. QED  BY <2>1, <2>2, <2>3, <2>5 DEF SessionInv
<1>9. StageInv'
  <2>1. stage[t] \in Connected
    BY <1>1, HasSession DEF Inv, s, Silent
  <2>. QED  BY <1>3, <1>4, <2>1 DEF Inv, SessionInv, StageInv, Connected
<1>. QED  BY <1>7, <1>8, <1>9 DEF Inv

(* A document changes under its session, or the session's commands fail.   *)
LEMMA DocumentKeeps ==
    ASSUME Inv, NEW t \in Targets, NEW d \in Documents, doc' = [doc EXCEPT ![t] = d],
           d.shown \in {0, doc[t].shown},
           NEW q, session' = [session EXCEPT ![t] = q], q = [sent |-> q.sent, wire |-> q.wire],
           q.sent \in {session[t].sent, <<>>},
           q = session[t] \/ stage[t] \in Connected,
           UNCHANGED <<stage, connecting, ignored, loop, todo, revision, runs>>
    PROVE  Inv'
<1>1. PageTypes'
  BY DEF Inv, PageTypes
<1>2. /\ doc'[t] = d /\ session'[t] = q
      /\ \A u \in Targets : u # t => doc'[u] = doc[u] /\ session'[u] = session[u]
      /\ session' = [u \in Targets |-> session'[u]]
  BY DEF Inv, PageTypes, SessionInv
<1>3. SessionInv'
  <2>1. ASSUME NEW u \in Targets, u # t
        PROVE  doc'[u].shown <= revision' /\ IsSession(u, session[u])'
    BY <1>2, <2>1 DEF Inv, SessionInv, IsSession, Ordered
  <2>2. doc[t].shown <= revision /\ doc[t].shown \in Nat /\ revision \in Nat
    BY DEF Inv, PageTypes, SessionInv, Documents, Revisions
  <2>3. q.sent \in Seq(Commands) /\ Ordered(t, q.sent)
    <3>1. session[t].sent \in Seq(Commands) /\ Ordered(t, session[t].sent)
      BY DEF Inv, SessionInv, IsSession
    <3>2. <<>> \in Seq(Commands) /\ Ordered(t, <<>>)
      BY DEF Ordered
    <3>. QED  BY <3>1, <3>2
  <2>. DEFINE s == q.sent
  <2>4. \A i \in DOMAIN s : s[i].does = "show" =>
          /\ d.shown <= s[i].revision /\ s[i].revision <= revision
          /\ \A j \in DOMAIN s : i < j /\ s[j].does = "show" => s[i].revision <= s[j].revision
    <3>. HIDE DEF s
    <3>1. s \in Seq(Commands) /\ Ordered(t, s)
      BY <2>3 DEF s
    <3>2. \A i \in DOMAIN s : s[i] \in Commands
      BY <3>1
    <3>3. \A command \in Commands : command.revision \in Nat
      BY DEF Commands, Revisions
    <3>4. \A i \in DOMAIN s : 0 <= s[i].revision
      BY <3>2, <3>3
    <3>. QED  BY <3>1, <3>4 DEF Ordered
  <2>5. IsSession(t, session[t])'
    BY <1>2, <2>3, <2>4 DEF IsSession, Ordered
  <2>. QED  BY <1>2, <2>1, <2>2, <2>5 DEF SessionInv
<1>4. StageInv'
  BY <1>2 DEF Inv, StageInv, Connected
<1>. QED  BY <1>1, <1>3, <1>4 DEF Inv

LEMMA SameSession ==
    ASSUME SessionInv, NEW t \in Targets
    PROVE  /\ session[t] = [sent |-> session[t].sent, wire |-> session[t].wire]
           /\ session = [session EXCEPT ![t] = session[t]]
<1>1. \A S, f : f \in [Targets -> S] => f = [f EXCEPT ![t] = f[t]]
  OBVIOUS
<1>2. session \in [Targets -> {session[u] : u \in Targets}] /\ IsSession(t, session[t])
  BY DEF SessionInv
<1>3. session[t] = [sent |-> session[t].sent, wire |-> session[t].wire]
  BY <1>2 DEF IsSession
<1>. QED  BY <1>1, <1>2, <1>3

LEMMA NavigatesKeeps ==
    ASSUME Inv, NEW t \in Targets, Navigates(t)
    PROVE  Inv'
<1>. DEFINE q == session[t]
<1>1. PICK main \in BOOLEAN : doc' = [doc EXCEPT ![t] = Fresh(main)]
  BY DEF Navigates
<1>2. Fresh(main) \in Documents /\ Fresh(main).shown = 0
  BY MaxRevisionAssumption DEF Fresh, Documents, Revisions
<1>3. UNCHANGED <<stage, connecting, ignored, loop, todo, revision, runs>>
  BY DEF Navigates, pageVars, loopVars, bridgeVars
<1>4. q = [sent |-> q.sent, wire |-> q.wire] /\ session = [session EXCEPT ![t] = q]
  BY SameSession DEF Inv
<1>5. \/ session' = [session EXCEPT ![t] = q]
      \/ /\ stage[t] \in Connected
         /\ \E next : /\ session' = [session EXCEPT ![t] = next]
                      /\ next = [sent |-> next.sent, wire |-> next.wire]
                      /\ next.sent \in {q.sent, <<>>}
  <2>1. CASE stage[t] \in {"untracked", "connecting"} /\ q = Silent
    BY <1>4, <2>1 DEF Navigates
  <2>2. CASE ~(stage[t] \in {"untracked", "connecting"} /\ q = Silent)
    <3>1. stage[t] \in Connected
      BY <2>2 DEF Inv, PageTypes, StageInv, Connected
    <3>. DEFINE event == [by |-> "browser", version |-> url[t] + 1]
                failed == Heeded([i \in DOMAIN q.sent |-> Answer(q.sent[i], "error")])
                longer == Append(q.wire, event)
                failedFirst == q.wire \o failed \o <<event>>
                eventFirst == q.wire \o <<event>> \o failed
    <3>2. \E next \in {[q EXCEPT !.wire = Append(@, event)],
                       [sent |-> <<>>, wire |-> failedFirst],
                       [sent |-> <<>>, wire |-> eventFirst]} :
              session' = [session EXCEPT ![t] = next]
      BY <2>2, Zenon DEF Navigates
    <3>3. [q EXCEPT !.wire = Append(@, event)] = [q EXCEPT !.wire = longer]
      BY Zenon
    <3>. HIDE DEF longer, failedFirst, eventFirst
    <3>4. [q EXCEPT !.wire = longer] = [sent |-> q.sent, wire |-> longer]
      BY <1>4, OtherWire
    <3>. HIDE DEF event, failed
    <3>5. PICK next : /\ session' = [session EXCEPT ![t] = next]
                      /\ \/ next = [sent |-> q.sent, wire |-> longer]
                         \/ next = [sent |-> <<>>, wire |-> failedFirst]
                         \/ next = [sent |-> <<>>, wire |-> eventFirst]
      BY <3>2, <3>3, <3>4
    <3>6. next = [sent |-> next.sent, wire |-> next.wire] /\ next.sent \in {q.sent, <<>>}
      BY <3>5
    <3>. QED  BY <3>1, <3>5, <3>6
  <2>. QED  BY <2>1, <2>2
<1>6. CASE session' = [session EXCEPT ![t] = q]
  BY <1>1, <1>2, <1>3, <1>4, <1>6, DocumentKeeps
<1>. QED  BY <1>1, <1>2, <1>3, <1>5, <1>6, DocumentKeeps

LEMMA BrowserKeeps ==
    ASSUME Inv, NEW t \in Targets, Browser(t)
    PROVE  Inv'
<1>1. CASE ChangesRoute(t) \/ TargetCloses(t)
  <2>. DEFINE q == session[t]
  <2>1. q = [sent |-> q.sent, wire |-> q.wire] /\ session = [session EXCEPT ![t] = q]
    BY SameSession DEF Inv
  <2>2. UNCHANGED <<session, stage, connecting, ignored, loop, todo, revision, runs>>
    BY <1>1 DEF ChangesRoute, TargetCloses, pageVars, loopVars, bridgeVars
  <2>3. \E d \in Documents : doc' = [doc EXCEPT ![t] = d] /\ d.shown \in {0, doc[t].shown}
    <3>1. CASE ChangesRoute(t)
      <4>1. doc[t] \in Documents
        BY DEF Inv, PageTypes
      <4>2. [doc[t] EXCEPT !.main = ~@] \in Documents
            /\ [doc[t] EXCEPT !.main = ~@].shown = doc[t].shown
        BY <4>1 DEF Documents
      <4>3. doc' = [doc EXCEPT ![t] = [doc[t] EXCEPT !.main = ~@]]
        BY <3>1 DEF ChangesRoute
      <4>. QED  BY <4>2, <4>3
    <3>2. CASE TargetCloses(t)
      <4>1. Fresh(FALSE) \in Documents /\ Fresh(FALSE).shown = 0
        BY MaxRevisionAssumption DEF Fresh, Documents, Revisions
      <4>. QED  BY <3>2, <4>1 DEF TargetCloses
    <3>. QED  BY <1>1, <3>1, <3>2
  <2>. QED  BY <2>1, <2>2, <2>3, DocumentKeeps
<1>2. CASE TargetOpens(t)
  <2>1. UNCHANGED <<session, stage, connecting, doc, revision, todo, runs, loop, ignored>>
    BY <1>2 DEF TargetOpens, pageVars, loopVars, bridgeVars
  <2>2. /\ todo' \subseteq Targets /\ runs' \in [Callers -> [does : Calls, left : SUBSET Targets]]
        /\ loop' # "syncing" => connecting = {}
        /\ connecting \cap todo' = {}
        /\ loop' = "closed" => ignored' = {} /\ \A u \in Targets : stage[u] = "untracked"
    BY <2>1 DEF Inv, PageTypes, StageInv
  <2>. QED  BY <2>1, <2>2, StillKeeps
<1>. QED  BY <1>1, <1>2, PageEvaluatesKeeps, NavigatesKeeps DEF Browser

-----------------------------------------------------------------------------

LEMMA InitInv == Init => Inv
<1>. SUFFICES ASSUME Init PROVE Inv
  OBVIOUS
<1>1. PageTypes
  <2>1. doc \in [Targets -> Documents]
    <3>1. Fresh(TRUE) \in Documents /\ Fresh(FALSE) \in Documents
      BY MaxRevisionAssumption DEF Fresh, Documents, Revisions
    <3>. QED  BY <3>1 DEF Init
  <2>2. runs \in [Callers -> [does : Calls, left : SUBSET Targets]]
    BY DEF Init, Idle, Calls
  <2>3. stage \in [Targets -> Stages] /\ revision \in Revisions
    BY MaxRevisionAssumption DEF Init, Stages, Revisions
  <2>. QED  BY <2>1, <2>2, <2>3 DEF Init, PageTypes
<1>2. SessionInv
  <2>1. ASSUME NEW t \in Targets PROVE doc[t].shown <= revision /\ IsSession(t, session[t])
    BY SilentIsSession DEF Init, Fresh
  <2>. QED  BY <2>1 DEF Init, SessionInv
<1>3. StageInv
  BY DEF Init, StageInv
<1>. QED  BY <1>1, <1>2, <1>3 DEF Inv

LEMMA NextInv == Inv /\ [Next]_vars => Inv'
<1>. SUFFICES ASSUME Inv, [Next]_vars PROVE Inv'
  OBVIOUS
<1>1. CASE UNCHANGED vars
  <2>1. UNCHANGED <<session, stage, connecting, doc, revision, todo, runs, loop, ignored>>
    BY <1>1 DEF vars, browserVars, pageVars, loopVars, bridgeVars
  <2>2. /\ todo' \subseteq Targets /\ runs' \in [Callers -> [does : Calls, left : SUBSET Targets]]
        /\ loop' # "syncing" => connecting = {}
        /\ connecting \cap todo' = {}
        /\ loop' = "closed" => ignored' = {} /\ \A u \in Targets : stage[u] = "untracked"
    BY <2>1 DEF Inv, PageTypes, StageInv
  <2>. QED  BY <2>1, <2>2, StillKeeps
<1>2. CASE \E t \in Targets : PageSteps(t) \/ Syncing(t) \/ Browser(t)
  BY <1>2, PageStepKeeps, SyncingKeeps, BrowserKeeps
<1>3. CASE Loop \/ Bridge \/ AnchorLost
  BY <1>3, LoopKeeps, BridgeKeeps
<1>. QED  BY <1>1, <1>2, <1>3 DEF Next

(* The commands under way to a page are in the order of publication and no *)
(* older than what it shows; a page that is not connected has no session,  *)
(* and nothing connects outside a sync.                                    *)
THEOREM Invariance == Spec => []Inv
<1>. QED  BY InitInv, NextInv, PTL DEF Spec

(* A closed watcher has no page, no session, nothing connecting and no     *)
(* target it would retry: closeSessions leaves none.                       *)
THEOREM ClosedForgetsHolds == Spec => []ClosedForgets
<1>1. Inv => ClosedForgets
  BY DEF Inv, StageInv, ClosedForgets, Quiet
<1>. QED  BY <1>1, Invariance, PTL

(* Which steps change a document, and how.                                 *)
LEMMA DocumentSteps ==
    ASSUME Inv, [Next]_vars, NEW u \in Targets
    PROVE  \/ doc'[u] = doc[u]
           \/ PageEvaluates(u)
           \/ \E main \in BOOLEAN : doc'[u] = Fresh(main)
           \/ doc'[u] = [doc[u] EXCEPT !.main = ~@]
<1>1. CASE UNCHANGED doc
  BY <1>1
<1>2. CASE \E t \in Targets : Browser(t)
  <2>1. PICK t \in Targets : Browser(t)
    BY <1>2
  <2>2. CASE PageEvaluates(t)
    <3>1. \E d : doc' = [doc EXCEPT ![t] = d] \/ doc' = doc
      BY <2>2, Zenon DEF PageEvaluates
    <3>. QED  BY <2>2, <3>1 DEF Inv, PageTypes
  <2>3. CASE Navigates(t)
    <3>1. \E main \in BOOLEAN : doc' = [doc EXCEPT ![t] = Fresh(main)]
      BY <2>3, Zenon DEF Navigates
    <3>. QED  BY <3>1 DEF Inv, PageTypes
  <2>4. CASE ChangesRoute(t)
    <3>1. doc' = [doc EXCEPT ![t] = [doc[t] EXCEPT !.main = ~@]]
      BY <2>4 DEF ChangesRoute
    <3>. QED  BY <3>1 DEF Inv, PageTypes
  <2>5. CASE TargetCloses(t)
    <3>1. doc' = [doc EXCEPT ![t] = Fresh(FALSE)]
      BY <2>5 DEF TargetCloses
    <3>. QED  BY <3>1 DEF Inv, PageTypes
  <2>6. CASE TargetOpens(t)
    BY <2>6 DEF TargetOpens
  <2>. QED  BY <2>1, <2>2, <2>3, <2>4, <2>5, <2>6 DEF Browser
<1>3. CASE UNCHANGED vars
  BY <1>1, <1>3 DEF vars, browserVars
<1>4. CASE \E t \in Targets : PageSteps(t)
  BY <1>1, <1>4, TimesOutExpires
     DEF PageSteps, HandleAnswer, HandleNavigation, SessionLost, SettleElapses,
         Connects, ConnectFails, IgnoredRetryElapses, browserVars
<1>5. CASE \E t \in Targets : Syncing(t)
  BY <1>1, <1>5
     DEF Syncing, SyncRemoves, SyncFindsPage, SyncAddsPage, SyncSkipsIgnored, SyncsListed,
         Handles, ClosesPage, browserVars
<1>6. CASE Loop \/ Bridge \/ AnchorLost
  BY <1>1, <1>6
     DEF Loop, ListingReturns, SyncEnds, PollElapses, ClosingEnds, ListingFails, Bridge, Publish,
         Heartbeat, Cleanup, EvaluatesNext, EvaluateAllEnds, AnchorLost, browserVars
<1>. QED  BY <1>2, <1>3, <1>4, <1>5, <1>6 DEF Next

(* What an evaluation makes of a document.                                 *)
LEMMA EvaluationEffect ==
    ASSUME Inv, NEW u \in Targets, PageEvaluates(u)
    PROVE  /\ doc'[u].controller /\ ~doc[u].controller => doc[u].main
           /\ doc[u].shown <= doc'[u].shown
<1>. DEFINE s == session[u].sent
            command == Head(s)
<1>1. /\ s # <<>> /\ s \in Seq(Commands) /\ Ordered(u, s) /\ command \in Commands
      /\ doc[u] \in Documents
  BY DEF PageEvaluates, Inv, SessionInv, IsSession, PageTypes
<1>2. doc' = IF Finds(doc[u], command.does) THEN [doc EXCEPT ![u] = Effect(doc[u], command)]
             ELSE doc
  BY DEF PageEvaluates
<1>3. command.does = "show" => doc[u].shown <= command.revision
  <2>. HIDE DEF s
  <2>1. s[1] = Head(s) /\ 1 \in DOMAIN s
    BY <1>1
  <2>. QED  BY <1>1, <2>1 DEF Ordered
<1>. HIDE DEF command
<1>4. doc[u].shown \in Nat
  BY <1>1 DEF Documents, Revisions
<1>5. CASE Finds(doc[u], command.does)
  <2>1. doc'[u] = Effect(doc[u], command)
    BY <1>2, <1>5 DEF Inv, PageTypes
  <2>2. command.does = "bootstrap" => doc[u].main
    BY <1>5 DEF Finds
  <2>3. /\ Effect(doc[u], command).shown
              = IF command.does = "show" THEN command.revision ELSE doc[u].shown
        /\ command.does # "bootstrap" => Effect(doc[u], command).controller = doc[u].controller
    BY <1>1 DEF Effect, Documents
  <2>4. doc[u].shown <= doc'[u].shown
    BY <1>3, <1>4, <2>1, <2>3
  <2>. QED  BY <2>1, <2>2, <2>3, <2>4
<1>6. CASE ~Finds(doc[u], command.does)
  BY <1>2, <1>4, <1>6
<1>. QED  BY <1>5, <1>6

(* The panel's controller appears only in a document that is the app's     *)
(* main surface at that moment: the bootstrap probes it once more, so that *)
(* a page that navigated since the watcher's probe is not injected into.   *)
THEOREM InjectedIntoMainOnlyHolds == Spec => InjectedIntoMainOnly
<1>1. Inv /\ [Next]_vars =>
        [\A t \in Targets : doc'[t].controller /\ ~doc[t].controller => doc[t].main]_vars
  <2>. SUFFICES ASSUME Inv, [Next]_vars, NEW t \in Targets, doc'[t].controller, ~doc[t].controller
                PROVE  doc[t].main
    OBVIOUS
  <2>1. CASE PageEvaluates(t)
    BY <2>1, EvaluationEffect
  <2>2. CASE doc'[t] = [doc[t] EXCEPT !.main = ~@]
    BY <2>2 DEF Inv, PageTypes, Documents
  <2>3. CASE \E main \in BOOLEAN : doc'[t] = Fresh(main)
    BY <2>3 DEF Fresh
  <2>. QED  BY <2>1, <2>2, <2>3, DocumentSteps
<1>. QED  BY <1>1, Invariance, PTL DEF Spec, InjectedIntoMainOnly

(* What a document shows is never replaced by something older: all that is *)
(* evaluated in a page, by publications, replays and heartbeats, reaches   *)
(* it over one session in the order it was published.                      *)
THEOREM NeverShowsOlderHolds == Spec => NeverShowsOlder
<1>1. Inv /\ [Next]_vars =>
        [\A t \in Targets :
            doc'[t].controller /\ doc[t].controller => doc'[t].shown >= doc[t].shown]_vars
  <2>. SUFFICES ASSUME Inv, [Next]_vars, NEW t \in Targets, doc'[t].controller, doc[t].controller
                PROVE  doc'[t].shown >= doc[t].shown
    OBVIOUS
  <2>0. doc[t] \in Documents /\ doc[t].shown \in Nat
    BY DEF Inv, PageTypes, Documents, Revisions
  <2>1. CASE PageEvaluates(t)
    BY <2>0, <2>1, EvaluationEffect
  <2>2. CASE doc'[t] = [doc[t] EXCEPT !.main = ~@]
    BY <2>0, <2>2 DEF Documents
  <2>3. CASE \E main \in BOOLEAN : doc'[t] = Fresh(main)
    BY <2>3 DEF Fresh
  <2>4. CASE doc'[t] = doc[t]
    BY <2>0, <2>4
  <2>. QED  BY <2>1, <2>2, <2>3, <2>4, DocumentSteps
<1>. QED  BY <1>1, Invariance, PTL DEF Spec, NeverShowsOlder

-----------------------------------------------------------------------------
(* What a session brings back: of its queues only the messages matter, not *)
(* their order.                                                            *)

Heard == Answers \cup [by : {"browser"}, version : Nat]

Messages(queue) == {queue[i] : i \in DOMAIN queue}

LEMMA LeastNumber ==
    ASSUME NEW A, A \subseteq Nat, A # {}
    PROVE  \E n \in A : \A m \in A : ~ (m < n)
<1>. DEFINE R == {ss \in Nat \X Nat : ss[1] < ss[2]}
<1>1. IsWellFoundedOn(R, Nat)
  BY NatLessThanWellFounded DEF OpToRel
<1>. HIDE DEF R
<1>2. PICK n \in A : \A m \in A : ~ (<<m, n>> \in R)
  BY <1>1, WFMin, Zenon
<1>3. ASSUME NEW m \in A PROVE ~ (m < n)
  <2>1. m \in Nat /\ n \in Nat
    OBVIOUS
  <2>2. m < n => <<m, n>> \in R
    BY <2>1 DEF R
  <2>. QED  BY <1>2, <2>1, <2>2
<1>. QED  BY <1>2, <1>3

(* The recursion of Heeded defines a function: by induction, a function of *)
(* the first l messages does, and the least l without one would not be 0.  *)
LEMMA HeededFunction ==
    ASSUME NEW S, NEW queue \in Seq(S)
    PROVE  \E f : /\ f = [n \in 0..Len(queue) |->
                            IF n = 0 THEN <<>>
                            ELSE IF Awaited(queue[n]) THEN Append(f[n - 1], queue[n])
                                 ELSE f[n - 1]]
                  /\ Heeded(queue) = f[Len(queue)]
<1>. DEFINE Filters(f, l) ==
                f = [n \in 0..l |-> IF n = 0 THEN <<>>
                                    ELSE IF Awaited(queue[n]) THEN Append(f[n - 1], queue[n])
                                         ELSE f[n - 1]]
<1>1. \A l \in Nat : \E f : Filters(f, l)
  <2>. DEFINE A == {l \in Nat : ~ \E f : Filters(f, l)}
  <2>1. CASE A = {}
    BY <2>1
  <2>2. CASE A # {}
    <3>1. PICK l \in A : \A m \in A : ~ (m < l)
      <4>. HIDE DEF A
      <4>1. A \subseteq Nat
        BY DEF A
      <4>. QED  BY <2>2, <4>1, LeastNumber
    <3>2. CASE l = 0
      <4>1. Filters([n \in 0..0 |-> <<>>], 0)
        OBVIOUS
      <4>. QED  BY <3>1, <3>2, <4>1
    <3>3. CASE l # 0
      <4>1. l - 1 \in Nat /\ l - 1 < l /\ l \in Nat
        BY <3>1, <3>3
      <4>2. PICK f : Filters(f, l - 1)
        BY <4>1, <3>1
      <4>. DEFINE g == [n \in 0..l |->
                          IF n = 0 THEN <<>>
                          ELSE IF Awaited(queue[n]) THEN Append(f[n - 1], queue[n])
                               ELSE f[n - 1]]
      <4>3. \A n \in 0..(l - 1) : g[n] = f[n]
        <5>. SUFFICES ASSUME NEW n \in 0..(l - 1) PROVE g[n] = f[n]
          OBVIOUS
        <5>1. n \in 0..l
          BY <4>1
        <5>2. f[n] = IF n = 0 THEN <<>>
                     ELSE IF Awaited(queue[n]) THEN Append(f[n - 1], queue[n]) ELSE f[n - 1]
          BY <4>2, Zenon
        <5>. QED  BY <5>1, <5>2, Zenon
      <4>4. Filters(g, l)
        <5>1. \A n \in 0..l : n # 0 => n - 1 \in 0..(l - 1)
          BY <4>1
        <5>2. \A n \in 0..l : n # 0 => g[n - 1] = f[n - 1]
          <6>. HIDE DEF g
          <6>. QED  BY <4>3, <5>1
        <5>. QED  BY <5>2, Zenon
      <4>. QED  BY <3>1, <4>4
    <3>. QED  BY <3>2, <3>3
  <2>. QED  BY <2>1, <2>2
<1>2. PICK f : Filters(f, Len(queue))
  <2>1. Len(queue) \in Nat
    OBVIOUS
  <2>. HIDE DEF Filters
  <2>. QED  BY <1>1, <2>1, Zenon
<1>. DEFINE h == CHOOSE h : Filters(h, Len(queue))
<1>3. Filters(h, Len(queue))
  BY <1>2, Zenon
<1>4. Heeded(queue) = h[Len(queue)]
  BY Zenon DEF Heeded
<1>. QED  BY <1>3, <1>4, Zenon

LEMMA AppendMessages ==
    ASSUME NEW S, NEW queue \in Seq(S), NEW m \in S
    PROVE  /\ Append(queue, m) \in Seq(S)
           /\ Messages(Append(queue, m)) = Messages(queue) \cup {m}
<1>. DEFINE longer == Append(queue, m)
<1>1. /\ longer \in Seq(S) /\ DOMAIN longer = 1..(Len(queue) + 1) /\ DOMAIN queue = 1..Len(queue)
      /\ Len(queue) \in Nat /\ longer[Len(queue) + 1] = m
      /\ \A i \in 1..Len(queue) : longer[i] = queue[i]
  OBVIOUS
<1>. HIDE DEF longer
<1>2. \A x : x \in Messages(longer) <=> x \in Messages(queue) \cup {m}
  BY <1>1 DEF Messages
<1>. QED  BY <1>1, <1>2 DEF longer

(* Heeded keeps what is awaited, and nothing else: induction once more.    *)
LEMMA HeededMessages ==
    ASSUME NEW S, NEW queue \in Seq(S)
    PROVE  /\ Heeded(queue) \in Seq(S)
           /\ Messages(Heeded(queue)) = {m \in Messages(queue) : Awaited(m)}
<1>1. PICK f : /\ f = [n \in 0..Len(queue) |->
                         IF n = 0 THEN <<>>
                         ELSE IF Awaited(queue[n]) THEN Append(f[n - 1], queue[n])
                              ELSE f[n - 1]]
               /\ Heeded(queue) = f[Len(queue)]
  BY HeededFunction
<1>. DEFINE Right(n) == /\ f[n] \in Seq(S)
                        /\ Messages(f[n]) = {queue[i] : i \in {j \in 1..n : Awaited(queue[j])}}
            A == {n \in 0..Len(queue) : ~ Right(n)}
<1>2. Len(queue) \in Nat /\ DOMAIN queue = 1..Len(queue)
      /\ \A i \in 1..Len(queue) : queue[i] \in S
  OBVIOUS
<1>3. A = {}
  <2>. SUFFICES ASSUME A # {} PROVE FALSE
    OBVIOUS
  <2>1. PICK n \in A : \A m \in A : ~ (m < n)
    <3>. HIDE DEF Right
    <3>1. A \subseteq Nat
      BY <1>2
    <3>. HIDE DEF A
    <3>. QED  BY <3>1, LeastNumber
  <2>2. n \in 0..Len(queue) /\ ~ Right(n)
    BY <2>1
  <2>3. f[n] = IF n = 0 THEN <<>>
               ELSE IF Awaited(queue[n]) THEN Append(f[n - 1], queue[n]) ELSE f[n - 1]
    BY <1>1, <2>2, Zenon
  <2>4. CASE n = 0
    <3>1. f[n] = <<>> /\ <<>> \in Seq(S) /\ Messages(<<>>) = {}
      BY <2>3, <2>4 DEF Messages
    <3>2. {queue[i] : i \in {j \in 1..n : Awaited(queue[j])}} = {}
      BY <2>4
    <3>. QED  BY <2>2, <3>1, <3>2
  <2>5. CASE n # 0
    <3>1. n - 1 \in 0..Len(queue) /\ n - 1 < n /\ n \in 1..Len(queue) /\ queue[n] \in S
      BY <1>2, <2>2, <2>5
    <3>2. Right(n - 1)
      BY <2>1, <3>1
    <3>3. \A i : i \in 1..n <=> i \in 1..(n - 1) \/ i = n
      BY <3>1
    <3>. DEFINE Some(k) == {queue[i] : i \in {j \in 1..k : Awaited(queue[j])}}
    <3>4. Some(n) = IF Awaited(queue[n]) THEN Some(n - 1) \cup {queue[n]} ELSE Some(n - 1)
      BY <3>3
    <3>5. f[n - 1] \in Seq(S) /\ Messages(f[n - 1]) = Some(n - 1)
      BY <3>2
    <3>6. f[n] \in Seq(S) /\ Messages(f[n]) = Some(n)
      <4>. HIDE DEF Some
      <4>1. CASE Awaited(queue[n])
        BY <2>3, <2>5, <3>1, <3>4, <3>5, <4>1, AppendMessages
      <4>2. CASE ~ Awaited(queue[n])
        BY <2>3, <2>5, <3>4, <3>5, <4>2
      <4>. QED  BY <4>1, <4>2
    <3>. QED  BY <2>2, <3>6
  <2>. QED  BY <2>4, <2>5
<1>4. Right(Len(queue))
  <2>1. Len(queue) \in 0..Len(queue)
    BY <1>2
  <2>. HIDE DEF Right
  <2>. QED  BY <1>3, <2>1
<1>5. {queue[i] : i \in {j \in 1..Len(queue) : Awaited(queue[j])}}
        = {m \in Messages(queue) : Awaited(m)}
  BY <1>2 DEF Messages
<1>. QED  BY <1>1, <1>4, <1>5

-----------------------------------------------------------------------------
(* What holds of a page with the document d, of whose session the commands *)
(* S and the messages W are left, at the stage st, when r was published    *)
(* last; gone: its target is closed, publishing: its turn will come.       *)

Noticed(gone, W) == gone \/ \E m \in W : m.by = "browser"

Replaying(m) == m.by = "validation" /\ m.does = "show"
BootstrapDone(m) == m.by = "validation" /\ m.does = "bootstrap" /\ m.outcome = "done"
ReplayDone(m) == Replaying(m) /\ m.outcome = "done"

(* Whoever was injected still has the controller, and whoever was replayed *)
(* to shows that, or the watcher will hear of what happened to it.         *)
Sound(gone, d, S, W, st, r, publishing) ==
    /\ \/ Noticed(gone, W)
       \/ /\ st \in {"replaying", "ready"} => d.controller
          /\ \A m \in S \cup W : Replaying(m) => d.controller
          /\ \A m \in W : BootstrapDone(m) => d.controller
          /\ \A m \in W : ReplayDone(m) => m.revision <= d.shown
          /\ st = "ready" =>
                d.shown = r \/ publishing \/ \E m \in S : m.does = "show" /\ m.revision = r
    /\ \A m \in S \cup W : m.by # IF st = "removing" THEN "validation" ELSE "removal"

(* The removal's cleanup is the last thing a page is sent.                 *)
Leaving(d, s, W, st) ==
    st = "removing" =>
        /\ s = <<>> => ~ d.mounted
        /\ s # <<>> => (s[Len(s)].by = "removal" /\ s[Len(s)].does = "cleanup")
        /\ \A i \in DOMAIN s : s[i].by = "removal" => i = Len(s)
        /\ (\E m \in W : m.by = "removal") => s = <<>>

Publishing(t) == runs["publisher"].does = "show" /\ t \in runs["publisher"].left

PageOk(t) ==
    /\ url[t] \in Nat
    /\ session[t].wire \in Seq(Heard)
    /\ doc[t].mounted => doc[t].controller
    /\ Sound(target[t] = "gone", doc[t], Messages(session[t].sent), Messages(session[t].wire),
             stage[t], revision, Publishing(t))
    /\ Leaving(doc[t], session[t].sent, Messages(session[t].wire), stage[t])
    /\ stage[t] \in {"untracked", "connecting"} /\ doc[t].mounted => t \in orphan

PagesOk == /\ target = [t \in Targets |-> target[t]] /\ url = [t \in Targets |-> url[t]]
           /\ \A t \in Targets : PageOk(t)

-----------------------------------------------------------------------------
(* What becomes of Sound.                                                  *)

(* Something was handled, or is not awaited any more.                      *)
LEMMA SoundFewer ==
    ASSUME NEW gone, NEW d, NEW S, NEW W, NEW st, NEW r, NEW publishing,
           Sound(gone, d, S, W, st, r, publishing),
           NEW V, V \subseteq W, \A m \in W : m.by = "browser" => m \in V,
           NEW T,
           \A m \in T : \E k \in S : /\ m.does = k.does /\ m.revision = k.revision
                                     /\ (m.by = k.by \/ m.by = "nobody"),
           \A k \in S : \E m \in T : m.does = k.does /\ m.revision = k.revision
    PROVE  Sound(gone, d, T, V, st, r, publishing)
<1>1. \A m \in T \cup V : m.by # IF st = "removing" THEN "validation" ELSE "removal"
  BY DEF Sound
<1>2. CASE Noticed(gone, W)
  BY <1>1, <1>2 DEF Sound, Noticed
<1>3. CASE ~ Noticed(gone, W)
  <2>1. \A m \in T \cup V : Replaying(m) => d.controller
    BY <1>3 DEF Sound, Replaying
  <2>2. st = "ready" =>
          d.shown = r \/ publishing \/ \E m \in T : m.does = "show" /\ m.revision = r
    BY <1>3 DEF Sound
  <2>3. /\ st \in {"replaying", "ready"} => d.controller
        /\ \A m \in V : BootstrapDone(m) => d.controller
        /\ \A m \in V : ReplayDone(m) => m.revision <= d.shown
    BY <1>3 DEF Sound
  <2>. QED  BY <1>1, <2>1, <2>2, <2>3 DEF Sound
<1>. QED  BY <1>2, <1>3

(* Nothing of a validation is left: it begins anew, or is over.            *)
LEMMA SoundAnew ==
    ASSUME NEW gone, NEW d, NEW S, NEW W, NEW st, NEW r, NEW publishing,
           st \notin {"replaying", "ready"}, \A m \in S \cup W : m.by # "validation",
           \A m \in S \cup W : m.by = "removal" => st = "removing"
    PROVE  Sound(gone, d, S, W, st, r, publishing)
BY DEF Sound, Replaying, BootstrapDone, ReplayDone

(* The validation goes on to the stage `next'.                             *)
LEMMA SoundSends ==
    ASSUME NEW gone, NEW d, NEW S, NEW W, NEW st, NEW r, NEW publishing,
           Sound(gone, d, S, W, st, r, publishing), st # "removing",
           NEW command, command.by = "validation",
           NEW next, next \notin {"removing", "ready"},
           (command.does = "show" \/ next = "replaying") => Noticed(gone, W) \/ d.controller
    PROVE  Sound(gone, d, S \cup {command}, W, next, r, publishing)
<1>. DEFINE T == S \cup {command}
<1>0. \A m : m \in T <=> m \in S \/ m = command
  OBVIOUS
<1>. HIDE DEF T
<1>1. \A m \in T \cup W : m.by # IF next = "removing" THEN "validation" ELSE "removal"
  BY <1>0 DEF Sound
<1>2. CASE Noticed(gone, W)
  BY <1>1, <1>2 DEF Sound, T
<1>3. CASE ~ Noticed(gone, W)
  BY <1>0, <1>1, <1>3 DEF Sound, Replaying, T
<1>. QED  BY <1>2, <1>3

(* The replay is over, or does not go on.                                  *)
LEMMA SoundReplayed ==
    ASSUME NEW gone, NEW d, NEW S, NEW W, NEW st, NEW r, NEW publishing,
           Sound(gone, d, S, W, st, r, publishing), st # "removing",
           NEW next \in {"replaying", "ready"}, Noticed(gone, W) \/ d.controller,
           next = "ready" => Noticed(gone, W) \/ d.shown = r
    PROVE  Sound(gone, d, S, W, next, r, publishing)
BY DEF Sound

(* Something is sent that nothing is concluded from, and the page stays.   *)
LEMMA SoundAdds ==
    ASSUME NEW gone, NEW d, NEW S, NEW W, NEW st, NEW r, NEW publishing,
           Sound(gone, d, S, W, st, r, publishing),
           NEW command, command.by \notin {"validation", "removal"}
    PROVE  Sound(gone, d, S \cup {command}, W, st, r, publishing)
<1>. DEFINE T == S \cup {command}
<1>0. \A m : m \in T <=> m \in S \/ m = command
  OBVIOUS
<1>. HIDE DEF T
<1>1. Sound(gone, d, T, W, st, r, publishing)
  BY <1>0 DEF Sound, Replaying
<1>. QED  BY <1>1 DEF T

-----------------------------------------------------------------------------
(* The queues.                                                             *)

LEMMA TailMessages ==
    ASSUME NEW S, NEW queue \in Seq(S), queue # <<>>
    PROVE  /\ Tail(queue) \in Seq(S) /\ Head(queue) \in S
           /\ Messages(queue) = {Head(queue)} \cup Messages(Tail(queue))
<1>. DEFINE rest == Tail(queue)
            first == Head(queue)
<1>1. /\ rest \in Seq(S) /\ first \in S
      /\ Len(rest) = Len(queue) - 1 /\ Len(queue) \in Nat /\ Len(queue) > 0
      /\ DOMAIN rest = 1..Len(rest) /\ DOMAIN queue = 1..Len(queue)
      /\ first = queue[1] /\ \A i \in 1..Len(rest) : rest[i] = queue[i + 1]
  OBVIOUS
<1>. HIDE DEF rest, first
<1>2. \A x : x \in Messages(queue) => x = first \/ x \in Messages(rest)
  <2>. SUFFICES ASSUME NEW i \in 1..Len(queue) PROVE queue[i] = first \/ queue[i] \in Messages(rest)
    BY <1>1 DEF Messages
  <2>1. CASE i = 1
    BY <1>1, <2>1
  <2>2. CASE i # 1
    <3>1. i - 1 \in 1..Len(rest) /\ rest[i - 1] = queue[i]
      BY <1>1, <2>2
    <3>. QED  BY <1>1, <3>1 DEF Messages
  <2>. QED  BY <2>1, <2>2
<1>3. \A x : x = first \/ x \in Messages(rest) => x \in Messages(queue)
  <2>1. \A i \in 1..Len(rest) : i + 1 \in 1..Len(queue)
    BY <1>1
  <2>2. 1 \in 1..Len(queue)
    BY <1>1
  <2>. QED  BY <1>1, <2>1, <2>2 DEF Messages
<1>4. \A x : x \in Messages(queue) <=> x \in {first} \cup Messages(rest)
  BY <1>2, <1>3
<1>. QED  BY <1>1, <1>4 DEF rest, first

LEMMA ConcatMessages ==
    ASSUME NEW S, NEW queue \in Seq(S), NEW more \in Seq(S)
    PROVE  /\ queue \o more \in Seq(S)
           /\ Messages(queue \o more) = Messages(queue) \cup Messages(more)
<1>. DEFINE all == queue \o more
<1>1. /\ all \in Seq(S) /\ DOMAIN all = 1..(Len(queue) + Len(more))
      /\ DOMAIN queue = 1..Len(queue) /\ DOMAIN more = 1..Len(more)
      /\ Len(queue) \in Nat /\ Len(more) \in Nat
      /\ \A i \in 1..Len(queue) : all[i] = queue[i]
      /\ \A i \in 1..Len(more) : all[i + Len(queue)] = more[i]
  OBVIOUS
<1>. HIDE DEF all
<1>2. \A i \in DOMAIN all :
        i \in DOMAIN queue \/ (i - Len(queue) \in DOMAIN more /\ i = (i - Len(queue)) + Len(queue))
  BY <1>1
<1>3. \A i \in DOMAIN more : i + Len(queue) \in DOMAIN all
  BY <1>1
<1>4. \A i \in DOMAIN queue : i \in DOMAIN all
  BY <1>1
<1>5. \A x : x \in Messages(all) => x \in Messages(queue) \/ x \in Messages(more)
  BY <1>1, <1>2 DEF Messages
<1>6. \A x : x \in Messages(queue) \/ x \in Messages(more) => x \in Messages(all)
  BY <1>1, <1>3, <1>4 DEF Messages
<1>7. \A x : x \in Messages(all) <=> x \in Messages(queue) \cup Messages(more)
  BY <1>5, <1>6
<1>. QED  BY <1>1, <1>7 DEF all

(* A new generation leaves nothing of the validation.                      *)
LEMMA SupersededMessages ==
    ASSUME NEW q, q.sent \in Seq(Commands), q.wire \in Seq(Heard)
    PROVE  /\ Superseded(q).wire \in Seq(Heard)
           /\ \A m \in Messages(Superseded(q).sent) \cup Messages(Superseded(q).wire) :
                /\ m.by # "validation"
                /\ m.by = "removal" =>
                     \E k \in Messages(q.sent) \cup Messages(q.wire) : k.by = "removal"
<1>. DEFINE Stale(message) ==
                IF message.by # "validation" THEN message
                ELSE [message EXCEPT !.by = IF message.does = "show" THEN "stale" ELSE "nobody"]
            StaleAll(queue) == [i \in DOMAIN queue |-> Stale(queue[i])]
<1>1. ASSUME NEW m \in Heard \cup Commands
      PROVE  /\ m \in Heard => Stale(m) \in Heard
             /\ m \in Commands => Stale(m) \in Commands
             /\ Stale(m).by # "validation" /\ (Stale(m).by = "removal" => m.by = "removal")
  BY DEF Heard, Answers, Commands, Awaiters
<1>2. ASSUME NEW S, S = Heard \/ S = Commands, NEW queue \in Seq(S)
      PROVE  /\ StaleAll(queue) \in Seq(S)
             /\ \A m \in Messages(StaleAll(queue)) :
                  m.by # "validation" /\ (m.by = "removal" => \E k \in Messages(queue) : k.by = "removal")
  <2>. DEFINE all == StaleAll(queue)
  <2>1. /\ \A i \in 1..Len(queue) : queue[i] \in S
        /\ DOMAIN queue = 1..Len(queue) /\ Len(queue) \in Nat
    OBVIOUS
  <2>2. all = [i \in 1..Len(queue) |-> Stale(queue[i])]
    BY <2>1
  <2>. HIDE DEF all, Stale
  <2>3. all \in Seq(S)
    BY <1>1, <1>2, <2>1, <2>2
  <2>4. \A i \in DOMAIN all :
          /\ all[i].by # "validation" /\ i \in DOMAIN queue
          /\ all[i].by = "removal" => queue[i].by = "removal"
    BY <1>1, <1>2, <2>1, <2>2
  <2>5. \A m \in Messages(all) :
          m.by # "validation" /\ (m.by = "removal" => \E k \in Messages(queue) : k.by = "removal")
    BY <2>4 DEF Messages
  <2>. QED  BY <2>3, <2>5 DEF all
<1>3. Superseded(q) = [sent |-> StaleAll(q.sent), wire |-> Heeded(StaleAll(q.wire))]
  BY Zenon DEF Superseded
<1>. DEFINE commands == StaleAll(q.sent)
            heard == StaleAll(q.wire)
<1>4. /\ \A m \in Messages(commands) :
           m.by # "validation" /\ (m.by = "removal" => \E k \in Messages(q.sent) : k.by = "removal")
  <2>. HIDE DEF StaleAll
  <2>. QED  BY <1>2
<1>5. /\ heard \in Seq(Heard)
      /\ \A m \in Messages(heard) :
           m.by # "validation" /\ (m.by = "removal" => \E k \in Messages(q.wire) : k.by = "removal")
  <2>. HIDE DEF StaleAll
  <2>. QED  BY <1>2
<1>6. Superseded(q).sent = commands /\ Superseded(q).wire = Heeded(heard)
  <2>. HIDE DEF StaleAll
  <2>. QED  BY <1>3
<1>. HIDE DEF commands, heard
<1>7. Heeded(heard) \in Seq(Heard) /\ Messages(Heeded(heard)) \subseteq Messages(heard)
  BY <1>5, HeededMessages
<1>. QED  BY <1>4, <1>5, <1>6, <1>7

-----------------------------------------------------------------------------
(* What a continuation makes of its page.                                  *)

Here(t, q, st) ==
    Sound(target[t] = "gone", doc[t], Messages(q.sent), Messages(q.wire), st, revision,
          Publishing(t))

LEMMA BecomesOk ==
    ASSUME PageTypes, SessionInv, NEW t \in Targets, PageOk(t),
           UNCHANGED <<target, doc, url, revision, runs>>,
           NEW q, q.wire \in Seq(Heard), session' = [session EXCEPT ![t] = q],
           NEW st \in Connected, stage' = [stage EXCEPT ![t] = st],
           Here(t, q, st), Leaving(doc[t], q.sent, Messages(q.wire), st)
    PROVE  PageOk(t)'
<1>1. session'[t] = q /\ stage'[t] = st
  BY DEF PageTypes, SessionInv
<1>2. st \notin {"untracked", "connecting"}
  BY DEF Connected
<1>3. Publishing(t)' = Publishing(t)
  BY DEF Publishing
<1>. QED  BY <1>1, <1>2, <1>3 DEF PageOk, Here

LEMMA ConsumesOk ==
    ASSUME PageTypes, SessionInv, NEW t \in Targets, PageOk(t), stage[t] \in Connected,
           UNCHANGED <<target, doc, url, revision>>,
           NEW q, q.wire \in Seq(Heard), Consumes(t, q),
           Here(t, q, stage[t]), Leaving(doc[t], q.sent, Messages(q.wire), stage[t])
    PROVE  PageOk(t)'
<1>1. stage' = [stage EXCEPT ![t] = stage[t]] /\ runs' = runs
      /\ session' = [session EXCEPT ![t] = q]
  BY DEF Consumes, PageTypes
<1>. QED  BY <1>1, BecomesOk

LEMMA RevalidatesOk ==
    ASSUME PageTypes, SessionInv, NEW t \in Targets, PageOk(t), stage[t] \in Connected,
           UNCHANGED <<target, doc, url, revision>>,
           NEW q, q.sent \in Seq(Commands), q.wire \in Seq(Heard), Revalidates(t, q),
           IF stage[t] = "removing"
           THEN Here(t, q, stage[t]) /\ Leaving(doc[t], q.sent, Messages(q.wire), stage[t])
           ELSE \A m \in Messages(q.sent) \cup Messages(q.wire) : m.by # "removal"
    PROVE  PageOk(t)'
<1>1. CASE stage[t] = "removing"
  BY <1>1, ConsumesOk DEF Revalidates, Tracked
<1>2. CASE stage[t] # "removing"
  <2>1. Tracked(t)
    BY <1>2 DEF Tracked, Connected
  <2>2. session' = [session EXCEPT ![t] = Superseded(q)] /\ runs' = runs
        /\ stage' = [stage EXCEPT ![t] = "settling"]
    BY <2>1 DEF Revalidates, Moves
  <2>3. /\ Superseded(q).wire \in Seq(Heard)
        /\ \A m \in Messages(Superseded(q).sent) \cup Messages(Superseded(q).wire) :
             m.by \notin {"validation", "removal"}
    BY <1>2, SupersededMessages
  <2>4. Here(t, Superseded(q), "settling")
    BY <2>3, SoundAnew DEF Here
  <2>. QED  BY <2>2, <2>3, <2>4, BecomesOk DEF Connected, Stages, Leaving
<1>. QED  BY <1>1, <1>2

(* The session with one command more.                                      *)
LEMMA AppendToSent ==
    ASSUME NEW t, NEW q, IsSession(t, q), NEW command \in Commands
    PROVE  /\ [q EXCEPT !.sent = Append(@, command)].wire = q.wire
           /\ [q EXCEPT !.sent = Append(@, command)].sent = Append(q.sent, command)
           /\ Messages(Append(q.sent, command)) = Messages(q.sent) \cup {command}
<1>. DEFINE r == Append(q.sent, command)
<1>1. Messages(r) = Messages(q.sent) \cup {command}
  BY AppendMessages DEF IsSession
<1>2. [q EXCEPT !.sent = Append(@, command)] = [sent |-> r, wire |-> q.wire]
  <2>1. \A a, b, c : [[sent |-> a, wire |-> b] EXCEPT !.sent = c] = [sent |-> c, wire |-> b]
    OBVIOUS
  <2>2. q = [sent |-> q.sent, wire |-> q.wire]
    BY DEF IsSession
  <2>. QED  BY <2>1, <2>2
<1>. HIDE DEF r
<1>3. [q EXCEPT !.sent = Append(@, command)].sent = r
      /\ [q EXCEPT !.sent = Append(@, command)].wire = q.wire
  BY <1>2
<1>. QED  BY <1>1, <1>3 DEF r

LEMMA SendsOk ==
    ASSUME PageTypes, SessionInv, NEW t \in Targets, PageOk(t), stage[t] # "removing",
           UNCHANGED <<target, doc, url, revision>>,
           NEW q, IsSession(t, q), q.wire \in Seq(Heard), Here(t, q, stage[t]),
           NEW command \in Commands, command.by = "validation",
           NEW next \in {"probing", "bootstrapping", "replaying"},
           (command.does = "show" \/ next = "replaying") =>
               Noticed(target[t] = "gone", Messages(q.wire)) \/ doc[t].controller,
           Sends(t, q, command, next)
    PROVE  PageOk(t)'
<1>. DEFINE p == [q EXCEPT !.sent = Append(@, command)]
<1>1. /\ p.wire = q.wire /\ Messages(p.sent) = Messages(q.sent) \cup {command}
  BY AppendToSent
<1>2. session' = [session EXCEPT ![t] = p] /\ stage' = [stage EXCEPT ![t] = next] /\ runs' = runs
  BY DEF Sends, Moves
<1>. HIDE DEF p
<1>3. Here(t, p, next)
  <2>1. Sound(target[t] = "gone", doc[t], Messages(q.sent) \cup {command}, Messages(q.wire), next,
              revision, Publishing(t))
    BY SoundSends DEF Here
  <2>. QED  BY <1>1, <2>1 DEF Here
<1>4. next \in Connected /\ next # "removing"
  BY DEF Connected, Stages
<1>5. Leaving(doc[t], p.sent, Messages(p.wire), next)
  BY <1>4 DEF Leaving
<1>. QED  BY <1>1, <1>2, <1>3, <1>4, <1>5, BecomesOk

LEMMA ReplaysOk ==
    ASSUME PageTypes, SessionInv, NEW t \in Targets, PageOk(t), stage[t] # "removing",
           UNCHANGED <<target, doc, url, revision>>,
           NEW q, IsSession(t, q), q.wire \in Seq(Heard), Here(t, q, stage[t]),
           NEW replayed,
           \/ Noticed(target[t] = "gone", Messages(q.wire))
           \/ doc[t].controller /\ replayed <= doc[t].shown,
           Replays(t, q, replayed)
    PROVE  PageOk(t)'
<1>1. CASE revision # replayed /\ ~ aborted
  <2>1. Command("validation", "show", revision) \in Commands
        /\ Command("validation", "show", revision).by = "validation"
    BY DEF Command, Commands, Awaiters, Calls, PageTypes
  <2>2. Sends(t, q, Command("validation", "show", revision), "replaying")
    BY <1>1 DEF Replays
  <2>. QED  BY <2>1, <2>2, SendsOk
<1>2. CASE ~ (revision # replayed /\ ~ aborted)
  <2>. DEFINE next == IF revision = replayed THEN "ready" ELSE "replaying"
  <2>1. session' = [session EXCEPT ![t] = q] /\ stage' = [stage EXCEPT ![t] = next] /\ runs' = runs
    BY <1>2 DEF Replays, Moves
  <2>2. next \in {"replaying", "ready"} /\ next \in Connected
    BY DEF Connected, Stages
  <2>3. next = "ready" =>
          Noticed(target[t] = "gone", Messages(q.wire)) \/ doc[t].shown = revision
    BY DEF SessionInv, PageTypes, Documents, Revisions
  <2>. HIDE DEF next
  <2>4. Here(t, q, next)
    BY <2>2, <2>3, SoundReplayed DEF Here
  <2>5. Leaving(doc[t], q.sent, Messages(q.wire), next)
    BY <2>2 DEF Leaving
  <2>. QED  BY <2>1, <2>2, <2>4, <2>5, BecomesOk
<1>. QED  BY <1>1, <1>2

LEMMA EndsOk ==
    ASSUME PageTypes, SessionInv, NEW t \in Targets, PageOk(t),
           UNCHANGED <<target, doc, url, revision>>,
           NEW ignore, NEW unclean, unclean = TRUE \/ ~ doc[t].mounted, Ends(t, ignore, unclean)
    PROVE  PageOk(t)'
<1>1. session'[t] = Silent /\ stage'[t] = "untracked"
  BY DEF Ends, PageTypes, SessionInv
<1>2. doc[t].mounted => t \in orphan'
  BY DEF Ends
<1>3. Silent.sent = <<>> /\ Silent.wire = <<>> /\ <<>> \in Seq(Heard) /\ Messages(<<>>) = {}
  BY DEF Silent, Messages
<1>4. Sound((target[t] = "gone")', doc'[t], Messages(session'[t].sent),
            Messages(session'[t].wire), stage'[t], revision', Publishing(t)')
  BY <1>1, <1>3, SoundAnew
<1>5. Leaving(doc[t], Silent.sent, Messages(Silent.wire), "untracked")
  BY DEF Leaving
<1>. QED  BY <1>1, <1>2, <1>3, <1>4, <1>5 DEF PageOk

LEMMA ContinuesBy ==
    ASSUME NEW t, NEW q, NEW command, NEW outcome, Continues(t, q, command, outcome)
    PROVE  /\ command.by = "validation" /\ command.does = "probe" => Probed(t, q, outcome)
           /\ command.by = "validation" /\ command.does = "bootstrap" =>
                Bootstrapped(t, q, outcome)
           /\ Replaying(command) => Replayed(t, q, outcome, command.revision)
           /\ command.by = "removal" => Ends(t, FALSE, outcome = "error")
<1>1. ASSUME command.by = "validation", command.does = "probe" PROVE Probed(t, q, outcome)
  BY <1>1 DEF Continues, Callers
<1>2. ASSUME command.by = "validation", command.does = "bootstrap"
      PROVE  Bootstrapped(t, q, outcome)
  BY <1>2 DEF Continues, Callers
<1>3. ASSUME Replaying(command) PROVE Replayed(t, q, outcome, command.revision)
  BY <1>3 DEF Continues, Callers, Replaying
<1>4. ASSUME command.by = "removal" PROVE Ends(t, FALSE, outcome = "error")
  BY <1>4 DEF Continues, Callers
<1>. QED  BY <1>1, <1>2, <1>3, <1>4

(* What the message that is continued from has to say.                     *)
LEMMA ContinuesOk ==
    ASSUME PageTypes, SessionInv, NEW t \in Targets, PageOk(t), stage[t] \in Connected,
           UNCHANGED <<target, doc, url, revision>>,
           NEW q, IsSession(t, q), q.wire \in Seq(Heard), Here(t, q, stage[t]),
           NEW command, NEW outcome,
           command.by # "removal" => Leaving(doc[t], q.sent, Messages(q.wire), stage[t]),
           command.by = "validation" => stage[t] # "removing",
           command.by = "removal" => outcome = "error" \/ ~ doc[t].mounted,
           command.by = "validation" /\ command.does = "bootstrap" /\ outcome = "done" =>
               Noticed(target[t] = "gone", Messages(q.wire)) \/ doc[t].controller,
           Replaying(command) /\ outcome = "done" =>
               \/ Noticed(target[t] = "gone", Messages(q.wire))
               \/ doc[t].controller /\ command.revision <= doc[t].shown,
           Continues(t, q, command, outcome)
    PROVE  PageOk(t)'
<1>0. /\ q.sent \in Seq(Commands)
      /\ stage[t] # "removing" =>
           \A m \in Messages(q.sent) \cup Messages(q.wire) : m.by # "removal"
  BY DEF IsSession, Here, Sound
<1>1. ASSUME Consumes(t, q), command.by # "removal" PROVE PageOk(t)'
  BY <1>1, ConsumesOk
<1>2. ASSUME Revalidates(t, q), command.by # "removal" PROVE PageOk(t)'
  BY <1>0, <1>2, RevalidatesOk
<1>3. ASSUME Ends(t, TRUE, TRUE) PROVE PageOk(t)'
  BY <1>3, EndsOk
<1>4. CASE command.by = "validation" /\ command.does = "probe"
  <2>1. Probed(t, q, outcome)
    BY <1>4, ContinuesBy DEF Replaying
  <2>2. Command("validation", "bootstrap", 0) \in Commands
        /\ Command("validation", "bootstrap", 0).by = "validation"
        /\ Command("validation", "bootstrap", 0).does # "show"
    BY MaxRevisionAssumption DEF Command, Commands, Awaiters, Calls, Revisions
  <2>. QED  BY <1>2, <1>4, <2>1, <2>2, SendsOk DEF Probed
<1>5. CASE command.by = "validation" /\ command.does = "bootstrap"
  <2>1. Bootstrapped(t, q, outcome)
    BY <1>5, ContinuesBy DEF Replaying
  <2>2. CASE Replays(t, q, 0) /\ outcome = "done"
    <3>1. 0 <= doc[t].shown
      BY DEF PageTypes, Documents, Revisions
    <3>. QED  BY <1>5, <2>2, <3>1, ReplaysOk
  <2>. QED  BY <1>1, <1>3, <1>5, <2>1, <2>2 DEF Bootstrapped, Ignores
<1>6. CASE command.by = "validation" /\ command.does = "show"
  <2>1. Replayed(t, q, outcome, command.revision)
    BY <1>6, ContinuesBy DEF Replaying
  <2>2. CASE Replays(t, q, command.revision) /\ outcome = "done"
    BY <1>6, <2>2, ReplaysOk DEF Replaying
  <2>. QED  BY <1>1, <1>2, <1>3, <1>6, <2>1, <2>2 DEF Replayed, Ignores
<1>7. CASE command.by = "removal"
  <2>1. Ends(t, FALSE, outcome = "error")
    BY <1>7, ContinuesBy DEF Replaying
  <2>2. CASE outcome = "error"
    <3>1. Ends(t, FALSE, TRUE)
      BY <2>1, <2>2 DEF Ends
    <3>. QED  BY <3>1, EndsOk
  <2>3. CASE outcome # "error"
    BY <1>7, <2>1, <2>3, EndsOk
  <2>. QED  BY <2>2, <2>3
<1>8. CASE /\ command.by # "removal"
           /\ ~ (command.by = "validation" /\ command.does \in {"probe", "bootstrap", "show"})
  <2>1. Consumes(t, q) \/ Revalidates(t, q)
    BY <1>8 DEF Continues, Updated
  <2>. QED  BY <1>1, <1>2, <1>8, <2>1
<1>. QED  BY <1>4, <1>5, <1>6, <1>7, <1>8

(* The first message of a session is taken from it.                        *)
LEMMA FirstMessage ==
    ASSUME Inv, PagesOk, NEW t \in Targets, session[t].wire # <<>>
    PROVE  LET q == [session[t] EXCEPT !.wire = Tail(@)]
               m == Head(session[t].wire)
           IN  /\ q.sent = session[t].sent /\ q.wire \in Seq(Heard) /\ IsSession(t, q)
               /\ m \in Heard
               /\ Messages(session[t].wire) = {m} \cup Messages(q.wire)
<1>. DEFINE q == [session[t] EXCEPT !.wire = Tail(@)]
            m == Head(session[t].wire)
            rest == Tail(session[t].wire)
<1>1. IsSession(t, session[t]) /\ session[t].wire \in Seq(Heard)
  BY DEF Inv, SessionInv, PagesOk, PageOk
<1>2. q = [sent |-> session[t].sent, wire |-> rest]
  <2>1. \A c : [session[t] EXCEPT !.wire = c] = [sent |-> session[t].sent, wire |-> c]
    BY <1>1, OtherWire DEF IsSession
  <2>2. q = [session[t] EXCEPT !.wire = rest]
    BY Zenon
  <2>. HIDE DEF rest
  <2>. QED  BY <2>1, <2>2
<1>3. IsSession(t, q)
  BY <1>1, TailOfWire
<1>4. rest \in Seq(Heard) /\ m \in Heard
      /\ Messages(session[t].wire) = {m} \cup Messages(rest)
  BY <1>1, TailMessages
<1>. HIDE DEF rest, m
<1>5. q.sent = session[t].sent /\ q.wire = rest
  BY <1>2
<1>. QED  BY <1>3, <1>4, <1>5 DEF m

LEMMA HandleAnswerOk ==
    ASSUME Inv, PagesOk, NEW t \in Targets, HandleAnswer(t)
    PROVE  PageOk(t)'
<1>. DEFINE q == [session[t] EXCEPT !.wire = Tail(@)]
            m == Head(session[t].wire)
            S == Messages(session[t].sent)
            W == Messages(session[t].wire)
<1>1. /\ q.sent = session[t].sent /\ q.wire \in Seq(Heard) /\ IsSession(t, q)
      /\ W = {m} \cup Messages(q.wire)
  BY FirstMessage DEF HandleAnswer
<1>2. /\ m.by # "browser" /\ Continues(t, q, m, m.outcome)
      /\ UNCHANGED <<target, doc, url, revision>> /\ session[t] # Silent
  BY DEF HandleAnswer, browserVars, Silent
<1>3. stage[t] \in Connected /\ PageTypes /\ SessionInv /\ PageOk(t)
  BY <1>2, HasSession DEF Inv, PagesOk
<1>. HIDE DEF q, m, W
<1>4. /\ Sound(target[t] = "gone", doc[t], S, W, stage[t], revision, Publishing(t))
      /\ Leaving(doc[t], session[t].sent, W, stage[t])
  BY <1>3 DEF PageOk, W
<1>5. Sound(target[t] = "gone", doc[t], S, Messages(q.wire), stage[t], revision, Publishing(t))
  BY <1>1, <1>2, <1>4, SoundFewer
<1>6. Noticed(target[t] = "gone", W) => Noticed(target[t] = "gone", Messages(q.wire))
  BY <1>1, <1>2 DEF Noticed
<1>7. Here(t, q, stage[t])
  BY <1>1, <1>5 DEF Here
<1>8. Leaving(doc[t], q.sent, Messages(q.wire), stage[t])
  BY <1>1, <1>4 DEF Leaving
<1>9. m.by = "removal" => ~ doc[t].mounted
  BY <1>1, <1>4 DEF Leaving, Sound
<1>10. m.by = "validation" => stage[t] # "removing"
  BY <1>1, <1>4 DEF Sound
<1>11. m.by = "validation" /\ m.does = "bootstrap" /\ m.outcome = "done" =>
         Noticed(target[t] = "gone", Messages(q.wire)) \/ doc[t].controller
  BY <1>1, <1>4, <1>6 DEF Sound, BootstrapDone
<1>12. Replaying(m) /\ m.outcome = "done" =>
         \/ Noticed(target[t] = "gone", Messages(q.wire))
         \/ doc[t].controller /\ m.revision <= doc[t].shown
  BY <1>1, <1>4, <1>6 DEF Sound, ReplayDone
<1>. QED  BY <1>1, <1>2, <1>3, <1>7, <1>8, <1>9, <1>10, <1>11, <1>12, ContinuesOk

LEMMA HandleNavigationOk ==
    ASSUME Inv, PagesOk, NEW t \in Targets, HandleNavigation(t)
    PROVE  PageOk(t)'
<1>. DEFINE q == [session[t] EXCEPT !.wire = Tail(@)]
            m == Head(session[t].wire)
            S == Messages(session[t].sent)
            W == Messages(session[t].wire)
<1>1. /\ q.sent = session[t].sent /\ q.wire \in Seq(Heard) /\ IsSession(t, q)
      /\ W = {m} \cup Messages(q.wire)
  BY FirstMessage DEF HandleNavigation
<1>2. /\ Revalidates(t, q)
      /\ UNCHANGED <<target, doc, url, revision>> /\ session[t] # Silent
  BY DEF HandleNavigation, browserVars, Silent
<1>3. stage[t] \in Connected /\ PageTypes /\ SessionInv /\ PageOk(t)
  BY <1>2, HasSession DEF Inv, PagesOk
<1>. HIDE DEF q, m, W
<1>4. /\ Sound(target[t] = "gone", doc[t], S, W, stage[t], revision, Publishing(t))
      /\ Leaving(doc[t], session[t].sent, W, stage[t])
  BY <1>3 DEF PageOk, W
<1>5. q.sent \in Seq(Commands)
  BY <1>1 DEF IsSession
<1>6. CASE stage[t] = "removing"
  <2>1. Here(t, q, stage[t])
    <3>1. \A k \in Messages(q.sent) \cup Messages(q.wire) : k.by # "validation"
      BY <1>1, <1>4, <1>6 DEF Sound
    <3>. QED  BY <1>6, <3>1, SoundAnew DEF Here
  <2>2. Leaving(doc[t], q.sent, Messages(q.wire), stage[t])
    BY <1>1, <1>4 DEF Leaving
  <2>. QED  BY <1>1, <1>2, <1>3, <1>5, <1>6, <2>1, <2>2, RevalidatesOk
<1>7. CASE stage[t] # "removing"
  <2>1. \A k \in Messages(q.sent) \cup Messages(q.wire) : k.by # "removal"
    BY <1>1, <1>4, <1>7 DEF Sound
  <2>. QED  BY <1>1, <1>2, <1>3, <1>5, <1>7, <2>1, RevalidatesOk
<1>. QED  BY <1>6, <1>7

LEMMA TimesOutOk ==
    ASSUME Inv, PagesOk, NEW t \in Targets, TimesOut(t)
    PROVE  PageOk(t)'
<1>1. PICK i \in DOMAIN session[t].sent :
        Continues(t, [session[t] EXCEPT !.sent[i].by = "nobody"], session[t].sent[i], "error")
  BY TimesOutExpires
<1>. DEFINE q == [session[t] EXCEPT !.sent[i].by = "nobody"]
            s == session[t].sent
            S == Messages(s)
            W == Messages(session[t].wire)
<1>2. /\ IsSession(t, q) /\ q.wire = session[t].wire /\ DOMAIN q.sent = DOMAIN s
      /\ Len(q.sent) = Len(s) /\ DOMAIN s = 1..Len(s)
      /\ \A j \in DOMAIN s : /\ q.sent[j].does = s[j].does
                             /\ q.sent[j].revision = s[j].revision
                             /\ q.sent[j].by = IF j = i THEN "nobody" ELSE s[j].by
  BY TimedOutSession
<1>3. Continues(t, q, s[i], "error") /\ i \in DOMAIN s
  BY <1>1
<1>4. /\ UNCHANGED <<target, doc, url, revision>> /\ session[t] # Silent
  BY <1>1, TimesOutExpires DEF browserVars, Silent
<1>5. stage[t] \in Connected /\ PageTypes /\ SessionInv /\ PageOk(t)
  BY <1>4, HasSession DEF Inv, PagesOk
<1>6. /\ Sound(target[t] = "gone", doc[t], S, W, stage[t], revision, Publishing(t))
      /\ Leaving(doc[t], s, W, stage[t]) /\ session[t].wire \in Seq(Heard)
  BY <1>5 DEF PageOk
<1>. HIDE DEF q, s, W
<1>7. Here(t, q, stage[t])
  <2>1. \A m \in Messages(q.sent) : \E k \in S : /\ m.does = k.does /\ m.revision = k.revision
                                                /\ (m.by = k.by \/ m.by = "nobody")
    <3>. SUFFICES ASSUME NEW j \in DOMAIN s
                  PROVE  \E k \in S : /\ q.sent[j].does = k.does /\ q.sent[j].revision = k.revision
                                      /\ (q.sent[j].by = k.by \/ q.sent[j].by = "nobody")
      BY <1>2 DEF Messages
    <3>. QED  BY <1>2 DEF Messages
  <2>2. \A k \in S : \E m \in Messages(q.sent) : m.does = k.does /\ m.revision = k.revision
    BY <1>2 DEF Messages
  <2>3. \A m \in W : m.by = "browser" => m \in W
    OBVIOUS
  <2>4. Sound(target[t] = "gone", doc[t], Messages(q.sent), W, stage[t], revision, Publishing(t))
    BY <1>6, <2>1, <2>2, <2>3, SoundFewer
  <2>. QED  BY <1>2, <2>4 DEF Here, W
<1>8. s[i].by # "removal" => Leaving(doc[t], q.sent, Messages(q.wire), stage[t])
  <2>. SUFFICES ASSUME s[i].by # "removal", stage[t] = "removing"
                PROVE  Leaving(doc[t], q.sent, Messages(q.wire), stage[t])
    BY DEF Leaving
  <2>1. s # <<>> /\ q.sent # <<>> /\ Len(s) \in DOMAIN s
    <3>1. s \in Seq(Commands) /\ q.sent \in Seq(Commands)
      BY <1>2, <1>5 DEF s, SessionInv, IsSession
    <3>2. Len(s) # 0 /\ Len(s) \in Nat
      BY <1>2, <1>3, <3>1
    <3>. QED  BY <1>2, <3>1, <3>2
  <2>2. s[Len(s)].by = "removal" /\ s[Len(s)].does = "cleanup"
        /\ (\A j \in DOMAIN s : s[j].by = "removal" => j = Len(s))
        /\ \A m \in W : m.by # "removal"
    BY <1>6, <2>1 DEF Leaving
  <2>3. q.sent[Len(s)].by = "removal" /\ q.sent[Len(s)].does = "cleanup"
    BY <1>2, <2>1, <2>2
  <2>4. \A j \in DOMAIN q.sent : q.sent[j].by = "removal" => j = Len(q.sent)
    BY <1>2, <2>2
  <2>. QED  BY <1>2, <2>1, <2>2, <2>3, <2>4 DEF Leaving, W
<1>9. s[i] \in S
  BY <1>3 DEF Messages
<1>10. s[i].by = "validation" => stage[t] # "removing"
  BY <1>6, <1>9 DEF Sound
<1>11. q.wire \in Seq(Heard)
  BY <1>2, <1>6
<1>. QED  BY <1>2, <1>3, <1>4, <1>5, <1>7, <1>8, <1>10, <1>11, ContinuesOk

(* A step that concerns one page only.                                     *)
OnlyPage(t) ==
    /\ target' = [u \in Targets |-> target'[u]] /\ url' = [u \in Targets |-> url'[u]]
    /\ revision' = revision
    /\ \A u \in Targets \ {t} :
          /\ target'[u] = target[u] /\ doc'[u] = doc[u] /\ url'[u] = url[u]
          /\ session'[u] = session[u] /\ stage'[u] = stage[u]
          /\ u \in orphan' <=> u \in orphan
          /\ Publishing(u)' = Publishing(u)

LEMMA OnlyPageOk ==
    ASSUME PagesOk, NEW t \in Targets, OnlyPage(t), PageOk(t)'
    PROVE  PagesOk'
<1>1. ASSUME NEW u \in Targets, u # t PROVE PageOk(u)'
  <2>1. PageOk(u)
    BY DEF PagesOk
  <2>2. /\ target'[u] = target[u] /\ doc'[u] = doc[u] /\ url'[u] = url[u]
        /\ session'[u] = session[u] /\ stage'[u] = stage[u] /\ revision' = revision
        /\ u \in orphan' <=> u \in orphan
        /\ Publishing(u)' = Publishing(u)
    BY <1>1 DEF OnlyPage
  <2>. QED  BY <2>1, <2>2 DEF PageOk
<1>. QED  BY <1>1 DEF PagesOk, OnlyPage

LEMMA ContinuedOnlyPage ==
    ASSUME Inv, PagesOk, NEW t \in Targets, UNCHANGED <<target, doc, url, revision>>,
           Continued(t),
           UNCHANGED <<orphan, runs>> \/ \E ignore, unclean : Ends(t, ignore, unclean)
    PROVE  OnlyPage(t)
<1>1. \A u \in Targets \ {t} : session'[u] = session[u] /\ stage'[u] = stage[u]
  BY DEF Continued, Inv, PageTypes, SessionInv
<1>2. \A u \in Targets \ {t} : (u \in orphan' <=> u \in orphan) /\ Publishing(u)' = Publishing(u)
  <2>1. CASE UNCHANGED <<orphan, runs>>
    BY <2>1 DEF Publishing
  <2>2. CASE \E ignore, unclean : Ends(t, ignore, unclean)
    <3>1. PICK ignore, unclean : Ends(t, ignore, unclean)
      BY <2>2
    <3>2. \A u \in Targets \ {t} : u \in orphan' <=> u \in orphan
      BY <3>1 DEF Ends
    <3>3. /\ runs'["publisher"].does = runs["publisher"].does
          /\ runs'["publisher"].left = runs["publisher"].left \ {t}
      BY <3>1 DEF Ends, Callers, Inv, PageTypes
    <3>. QED  BY <3>2, <3>3 DEF Publishing
  <2>. QED  BY <2>1, <2>2
<1>3. target' = [u \in Targets |-> target'[u]] /\ url' = [u \in Targets |-> url'[u]]
  BY DEF PagesOk
<1>. QED  BY <1>1, <1>2, <1>3 DEF OnlyPage

LEMMA ContinuesTouches ==
    ASSUME NEW t, NEW q, NEW command, NEW outcome, Continues(t, q, command, outcome)
    PROVE  UNCHANGED <<orphan, runs>> \/ \E ignore, unclean : Ends(t, ignore, unclean)
<1>1. Consumes(t, q) \/ Revalidates(t, q) => UNCHANGED <<orphan, runs>>
  BY DEF Consumes, Revalidates, Moves
<1>2. \A p, c, next : Sends(t, p, c, next) => UNCHANGED <<orphan, runs>>
  BY DEF Sends, Moves
<1>3. \A replayed : Replays(t, q, replayed) => UNCHANGED <<orphan, runs>>
  BY <1>2 DEF Replays, Moves
<1>4. Probed(t, q, outcome) => UNCHANGED <<orphan, runs>>
  BY <1>1, <1>2 DEF Probed
<1>5. Bootstrapped(t, q, outcome) =>
        UNCHANGED <<orphan, runs>> \/ \E ignore, unclean : Ends(t, ignore, unclean)
  BY <1>1, <1>3 DEF Bootstrapped, Ignores
<1>6. Replayed(t, q, outcome, command.revision) =>
        UNCHANGED <<orphan, runs>> \/ \E ignore, unclean : Ends(t, ignore, unclean)
  BY <1>1, <1>3 DEF Replayed, Ignores
<1>7. Updated(t, q, command.by, outcome) => UNCHANGED <<orphan, runs>>
  BY <1>1 DEF Updated
<1>. QED  BY <1>1, <1>4, <1>5, <1>6, <1>7 DEF Continues

-----------------------------------------------------------------------------
(* The steps.                                                              *)

LEMMA StillOk ==
    ASSUME PagesOk, UNCHANGED <<target, url, doc, session, stage, orphan, revision, runs>>
    PROVE  PagesOk'
BY DEF PagesOk, PageOk, Publishing

LEMMA EndsKeepsOk ==
    ASSUME Inv, PagesOk, NEW t \in Targets, UNCHANGED <<target, doc, url, revision>>,
           NEW ignore, Ends(t, ignore, TRUE)
    PROVE  PagesOk'
<1>1. PageOk(t)'
  BY EndsOk DEF Inv, PagesOk
<1>2. Continued(t)
  BY EndsContinued DEF Inv
<1>. QED  BY <1>1, <1>2, ContinuedOnlyPage, OnlyPageOk

LEMMA HandleOk ==
    ASSUME Inv, PagesOk, NEW t \in Targets, HandleAnswer(t) \/ HandleNavigation(t)
    PROVE  PagesOk'
<1>. DEFINE q == [session[t] EXCEPT !.wire = Tail(@)]
<1>1. session[t] # Silent /\ UNCHANGED <<target, doc, url, revision>>
  BY DEF HandleAnswer, HandleNavigation, Silent, browserVars
<1>2. stage[t] \in Connected /\ IsSession(t, q)
  BY <1>1, HasSession, TailOfWire DEF Inv, SessionInv
<1>3. CASE HandleAnswer(t)
  <2>1. Continues(t, q, Head(session[t].wire), Head(session[t].wire).outcome)
    BY <1>3 DEF HandleAnswer
  <2>. HIDE DEF q
  <2>2. Continued(t)
    BY <1>2, <2>1, ContinuesContinued DEF Inv
  <2>3. UNCHANGED <<orphan, runs>> \/ \E ignore, unclean : Ends(t, ignore, unclean)
    BY <2>1, ContinuesTouches
  <2>. QED  BY <1>1, <1>3, <2>2, <2>3, HandleAnswerOk, ContinuedOnlyPage, OnlyPageOk
<1>4. CASE HandleNavigation(t)
  <2>1. Revalidates(t, q)
    BY <1>4 DEF HandleNavigation
  <2>. HIDE DEF q
  <2>2. Continued(t)
    BY <1>2, <2>1, RevalidatesContinued DEF Inv
  <2>3. UNCHANGED <<orphan, runs>>
    BY <2>1 DEF Revalidates, Consumes, Moves
  <2>. QED  BY <1>1, <1>4, <2>2, <2>3, HandleNavigationOk, ContinuedOnlyPage, OnlyPageOk
<1>. QED  BY <1>3, <1>4

LEMMA TimesOutKeepsOk ==
    ASSUME Inv, PagesOk, NEW t \in Targets, TimesOut(t)
    PROVE  PagesOk'
<1>1. PICK i \in DOMAIN session[t].sent :
        Continues(t, [session[t] EXCEPT !.sent[i].by = "nobody"], session[t].sent[i], "error")
  BY TimesOutExpires
<1>2. IsSession(t, [session[t] EXCEPT !.sent[i].by = "nobody"])
  BY TimedOutSession
<1>3. session[t] # Silent /\ UNCHANGED <<target, doc, url, revision>>
  BY <1>1, TimesOutExpires DEF Silent, browserVars
<1>4. stage[t] \in Connected
  BY <1>3, HasSession DEF Inv
<1>5. Continued(t)
  BY <1>1, <1>2, <1>4, ContinuesContinued DEF Inv
<1>6. UNCHANGED <<orphan, runs>> \/ \E ignore, unclean : Ends(t, ignore, unclean)
  BY <1>1, ContinuesTouches
<1>. QED  BY <1>3, <1>5, <1>6, TimesOutOk, ContinuedOnlyPage, OnlyPageOk

LEMMA PageStepOk ==
    ASSUME Inv, PagesOk, NEW t \in Targets, PageSteps(t)
    PROVE  PagesOk'
<1>1. CASE HandleAnswer(t) \/ HandleNavigation(t)
  BY <1>1, HandleOk
<1>2. CASE TimesOut(t)
  BY <1>2, TimesOutKeepsOk
<1>3. CASE SessionLost(t) \/ ConnectFails(t)
  <2>1. \E ignore : Ends(t, ignore, TRUE)
    BY <1>3 DEF SessionLost, ConnectFails, Ignores
  <2>2. UNCHANGED <<target, doc, url, revision>>
    BY <1>3 DEF SessionLost, ConnectFails, browserVars
  <2>. QED  BY <2>1, <2>2, EndsKeepsOk
<1>4. CASE SettleElapses(t)
  <2>1. stage[t] = "settling" /\ stage[t] \in Connected
    BY <1>4 DEF SettleElapses, Connected, Stages
  <2>2. Command("validation", "probe", 0) \in Commands
        /\ Command("validation", "probe", 0).by = "validation"
        /\ Command("validation", "probe", 0).does # "show"
    BY MaxRevisionAssumption DEF Command, Commands, Awaiters, Calls, Revisions
  <2>3. /\ Sends(t, session[t], Command("validation", "probe", 0), "probing")
        /\ UNCHANGED <<target, doc, url, revision>>
    BY <1>4 DEF SettleElapses, browserVars
  <2>4. Continued(t)
    BY <2>1, <2>2, <2>3, SendsContinued DEF Inv, SessionInv, Connected, Stages
  <2>5. /\ PageOk(t) /\ IsSession(t, session[t]) /\ session[t].wire \in Seq(Heard)
        /\ Here(t, session[t], stage[t])
    BY DEF PagesOk, PageOk, Inv, SessionInv, Here
  <2>6. PageOk(t)'
    BY <2>1, <2>2, <2>3, <2>5, SendsOk DEF Inv
  <2>7. UNCHANGED <<orphan, runs>>
    BY <2>3 DEF Sends, Moves
  <2>. QED  BY <2>3, <2>4, <2>6, <2>7, ContinuedOnlyPage, OnlyPageOk
<1>5. CASE Connects(t)
  <2>1. /\ session' = [session EXCEPT ![t] = Superseded(session[t])]
        /\ stage' = [stage EXCEPT ![t] = "settling"]
        /\ UNCHANGED <<target, doc, url, revision, runs, orphan>> /\ session[t] = Silent
    BY <1>5 DEF Connects, browserVars, bridgeVars, Inv, PageTypes, SessionInv, StageInv
  <2>2. Silent.sent \in Seq(Commands) /\ Silent.wire \in Seq(Heard)
        /\ Messages(Silent.sent) = {} /\ Messages(Silent.wire) = {}
    BY DEF Silent, Messages
  <2>3. /\ Superseded(Silent).wire \in Seq(Heard)
        /\ \A m \in Messages(Superseded(Silent).sent) \cup Messages(Superseded(Silent).wire) :
             m.by \notin {"validation", "removal"}
    BY <2>2, SupersededMessages
  <2>4. Here(t, Superseded(Silent), "settling")
    BY <2>3, SoundAnew DEF Here
  <2>5. Leaving(doc[t], Superseded(Silent).sent, Messages(Superseded(Silent).wire), "settling")
    BY DEF Leaving
  <2>6. PageOk(t)'
    BY <2>1, <2>3, <2>4, <2>5, BecomesOk DEF Connected, Stages, Inv, PagesOk
  <2>7. OnlyPage(t)
    BY <2>1 DEF OnlyPage, PagesOk, Publishing, Inv, PageTypes, SessionInv
  <2>. QED  BY <2>6, <2>7, OnlyPageOk
<1>6. CASE IgnoredRetryElapses(t)
  BY <1>6, StillOk DEF IgnoredRetryElapses, browserVars, bridgeVars
<1>. QED  BY <1>1, <1>2, <1>3, <1>4, <1>5, <1>6 DEF PageSteps

LEMMA RemovePageOk ==
    ASSUME Inv, PagesOk, NEW t \in Targets, Tracked(t), RemovePage(t),
           UNCHANGED <<target, doc, url, revision>>
    PROVE  PagesOk'
<1>1. CASE Active(t)
  <2>. DEFINE q == Superseded(session[t])
              command == Command("removal", "cleanup", 0)
              p == [q EXCEPT !.sent = Append(@, command)]
  <2>1. command \in Commands /\ command.by = "removal" /\ command.does = "cleanup"
    BY MaxRevisionAssumption DEF Command, Commands, Awaiters, Calls, Revisions
  <2>2. /\ session[t].sent \in Seq(Commands) /\ session[t].wire \in Seq(Heard)
        /\ PageOk(t) /\ IsSession(t, session[t]) /\ stage[t] # "removing"
    BY <1>1 DEF Inv, SessionInv, IsSession, PagesOk, PageOk, Active
  <2>3. \A m \in Messages(session[t].sent) \cup Messages(session[t].wire) : m.by # "removal"
    BY <2>2 DEF PageOk, Sound
  <2>4. /\ q.wire \in Seq(Heard) /\ IsSession(t, q)
        /\ \A m \in Messages(q.sent) \cup Messages(q.wire) : m.by \notin {"validation", "removal"}
    BY <2>2, <2>3, SupersededMessages, SupersededIsSession
  <2>5. session' = [session EXCEPT ![t] = p] /\ stage' = [stage EXCEPT ![t] = "removing"]
        /\ UNCHANGED <<orphan, runs>>
    BY <1>1 DEF RemovePage, Sends, Moves
  <2>. HIDE DEF command, q
  <2>6. p.wire = q.wire /\ p.sent = Append(q.sent, command)
        /\ Messages(p.sent) = Messages(q.sent) \cup {command}
    <3>1. /\ p.wire = q.wire /\ p.sent = Append(q.sent, command)
          /\ Messages(Append(q.sent, command)) = Messages(q.sent) \cup {command}
      BY <2>1, <2>4, AppendToSent, Zenon
    <3>. HIDE DEF p
    <3>. QED  BY <3>1
  <2>. HIDE DEF p
  <2>7. Here(t, p, "removing")
    <3>1. \A m \in Messages(p.sent) \cup Messages(p.wire) : m.by # "validation"
      BY <2>1, <2>4, <2>6
    <3>. QED  BY <3>1, SoundAnew DEF Here
  <2>8. Leaving(doc[t], p.sent, Messages(p.wire), "removing")
    <3>. DEFINE s == q.sent
                r == Append(s, command)
    <3>1. s \in Seq(Commands)
      BY <2>4 DEF IsSession
    <3>2. /\ r # <<>> /\ Len(r) = Len(s) + 1 /\ r[Len(r)] = command /\ DOMAIN r = 1..(Len(s) + 1)
          /\ DOMAIN s = 1..Len(s) /\ Len(s) \in Nat /\ \A i \in 1..Len(s) : r[i] = s[i]
      BY <2>1, <3>1
    <3>3. \A i \in DOMAIN s : s[i].by # "removal"
      BY <2>4 DEF Messages
    <3>. HIDE DEF s, r
    <3>4. \A i \in DOMAIN r : r[i].by = "removal" => i = Len(r)
      BY <3>2, <3>3
    <3>5. p.sent = r
      BY <2>6 DEF r, s
    <3>. QED  BY <2>1, <2>4, <2>6, <3>2, <3>4, <3>5 DEF Leaving
  <2>9. PageOk(t)'
    BY <2>2, <2>4, <2>5, <2>6, <2>7, <2>8, BecomesOk DEF Connected, Stages, Inv
  <2>10. Continued(t)
    BY RemovePageContinued
  <2>. QED  BY <2>5, <2>9, <2>10, ContinuedOnlyPage, OnlyPageOk
<1>2. CASE ~ Active(t)
  BY <1>2, EndsKeepsOk DEF RemovePage
<1>. QED  BY <1>1, <1>2

LEMMA SyncingOk ==
    ASSUME Inv, PagesOk, NEW t \in Targets, Syncing(t)
    PROVE  PagesOk'
<1>0. UNCHANGED <<target, doc, url, revision>>
  BY DEF Syncing, SyncRemoves, SyncFindsPage, SyncAddsPage, SyncSkipsIgnored, SyncsListed,
         Handles, ClosesPage, browserVars
<1>1. CASE (SyncRemoves(t) /\ Tracked(t)) \/ ClosesPage(t)
  BY <1>0, <1>1, RemovePageOk DEF SyncRemoves, ClosesPage
<1>2. CASE SyncSkipsIgnored(t) \/ (SyncRemoves(t) /\ ~ Tracked(t))
  BY <1>0, <1>2, StillOk DEF SyncSkipsIgnored, SyncRemoves
<1>3. CASE SyncFindsPage(t)
  <2>1. /\ stage[t] \in Connected /\ IsSession(t, session[t]) /\ session[t].wire \in Seq(Heard)
        /\ PageOk(t) /\ stage[t] # "removing" /\ Here(t, session[t], stage[t])
        /\ session[t].sent \in Seq(Commands)
    BY <1>3 DEF SyncFindsPage, SyncsListed, Handles, Tracked, Inv, PageTypes, SessionInv, StageInv,
                Connected, PagesOk, PageOk, Here, IsSession
  <2>. DEFINE command == Command("route", "present", 0)
              p == [session[t] EXCEPT !.sent = Append(@, command)]
  <2>2. command \in Commands /\ command.by = "route" /\ command.does # "show"
    BY MaxRevisionAssumption DEF Command, Commands, Awaiters, Calls, Revisions
  <2>3. \/ Consumes(t, session[t]) \/ Revalidates(t, session[t])
        \/ Sends(t, session[t], command, stage[t])
    BY <1>3 DEF SyncFindsPage
  <2>4. Continued(t)
    BY <2>1, <2>2, <2>3, ConsumesContinued, RevalidatesContinued, SendsContinued DEF Inv
  <2>5. UNCHANGED <<orphan, runs>>
    BY <2>3 DEF Consumes, Revalidates, Sends, Moves
  <2>6. Leaving(doc[t], session[t].sent, Messages(session[t].wire), stage[t])
        /\ \A m \in Messages(session[t].sent) \cup Messages(session[t].wire) : m.by # "removal"
    BY <2>1 DEF Leaving, Here, Sound
  <2>7. CASE Consumes(t, session[t])
    <3>1. PageOk(t)'
      BY <1>0, <2>1, <2>6, <2>7, ConsumesOk DEF Inv
    <3>. QED  BY <1>0, <2>4, <2>5, <3>1, ContinuedOnlyPage, OnlyPageOk
  <2>8. CASE Revalidates(t, session[t])
    <3>1. PageOk(t)'
      BY <1>0, <2>1, <2>6, <2>8, RevalidatesOk DEF Inv
    <3>. QED  BY <1>0, <2>4, <2>5, <3>1, ContinuedOnlyPage, OnlyPageOk
  <2>9. CASE Sends(t, session[t], command, stage[t])
    <3>1. session' = [session EXCEPT ![t] = p] /\ stage' = [stage EXCEPT ![t] = stage[t]]
      BY <2>9 DEF Sends, Moves
    <3>2. p.wire = session[t].wire
          /\ Messages(p.sent) = Messages(session[t].sent) \cup {command}
      BY <2>1, <2>2, AppendToSent
    <3>. HIDE DEF p, command
    <3>3. Here(t, p, stage[t])
      <4>1. Sound(target[t] = "gone", doc[t], Messages(session[t].sent) \cup {command},
                  Messages(session[t].wire), stage[t], revision, Publishing(t))
        BY <2>1, <2>2, SoundAdds DEF Here
      <4>. QED  BY <3>2, <4>1 DEF Here
    <3>4. Leaving(doc[t], p.sent, Messages(p.wire), stage[t])
      BY <2>1 DEF Leaving
    <3>5. PageOk(t)'
      BY <1>0, <2>1, <2>5, <3>1, <3>2, <3>3, <3>4, BecomesOk DEF Inv
    <3>. QED  BY <1>0, <2>4, <2>5, <3>5, ContinuedOnlyPage, OnlyPageOk
  <2>. QED  BY <2>3, <2>7, <2>8, <2>9
<1>4. CASE SyncAddsPage(t)
  <2>1. /\ UNCHANGED <<session, orphan, runs>> /\ stage' = [stage EXCEPT ![t] = "connecting"]
        /\ stage[t] \in {"untracked", "removing"} /\ ~ Removing
    BY <1>4 DEF SyncAddsPage, SyncsListed, Handles, Tracked
  <2>2. stage[t] = "untracked" /\ session[t] = Silent /\ stage'[t] = "connecting"
    BY <2>1 DEF Removing, Inv, PageTypes, StageInv
  <2>3. Messages(session[t].sent) = {} /\ Messages(session[t].wire) = {}
    BY <2>2 DEF Silent, Messages
  <2>4. Sound((target[t] = "gone")', doc'[t], Messages(session'[t].sent),
              Messages(session'[t].wire), stage'[t], revision', Publishing(t)')
    <3>1. Messages(session'[t].sent) = {} /\ Messages(session'[t].wire) = {}
      BY <2>1, <2>3
    <3>. QED  BY <2>2, <3>1, SoundAnew
  <2>5. PageOk(t)'
    BY <1>0, <2>1, <2>2, <2>4 DEF PagesOk, PageOk, Leaving
  <2>6. OnlyPage(t)
    BY <1>0, <2>1 DEF OnlyPage, PagesOk, Publishing, Inv, PageTypes
  <2>. QED  BY <2>5, <2>6, OnlyPageOk
<1>. QED  BY <1>1, <1>2, <1>3, <1>4 DEF Syncing

LEMMA LoopOk ==
    ASSUME PagesOk, Loop \/ AnchorLost
    PROVE  PagesOk'
BY StillOk DEF Loop, AnchorLost, ListingReturns, SyncEnds, PollElapses, ClosingEnds, ListingFails,
               browserVars, pageVars, bridgeVars

(* The publisher begins, or ends, to go from page to page.                 *)
LEMMA BeginsOk ==
    ASSUME PagesOk, UNCHANGED <<target, url, doc, session, stage, orphan>>,
           \A t \in Targets : stage[t] = "ready" =>
               Publishing(t)' \/ (revision' = revision /\ ~ Publishing(t))
    PROVE  PagesOk'
<1>1. ASSUME NEW t \in Targets PROVE PageOk(t)'
  <2>1. PageOk(t)
    BY DEF PagesOk
  <2>2. Sound(target[t] = "gone", doc[t], Messages(session[t].sent), Messages(session[t].wire),
              stage[t], revision', Publishing(t)')
    BY <2>1 DEF PageOk, Sound
  <2>. QED  BY <2>1, <2>2 DEF PageOk
<1>. QED  BY <1>1 DEF PagesOk

(* Its turn is over for a page that it has sent what it publishes.         *)
LEMMA EvaluatesNextOk ==
    ASSUME Inv, PagesOk, NEW caller \in Callers, EvaluatesNext(caller)
    PROVE  PagesOk'
<1>1. PICK t \in runs[caller].left :
        /\ runs' = [runs EXCEPT ![caller].left = @ \ {t}]
        /\ session' = IF Active(t)
                      THEN [session EXCEPT ![t].sent =
                              Append(@, Command(caller, runs[caller].does, revision))]
                      ELSE session
  BY DEF EvaluatesNext
<1>2. UNCHANGED <<target, doc, url, revision, stage, orphan>>
  BY DEF EvaluatesNext, browserVars, pageVars
<1>3. t \in Targets /\ PageOk(t)
  BY <1>1 DEF Inv, PageTypes, PagesOk
<1>4. \A u \in Targets : u # t => session'[u] = session[u]
  BY <1>1 DEF Inv, SessionInv
<1>5. /\ \A u \in Targets \ {t} : Publishing(u)' = Publishing(u)
      /\ Publishing(t) => Publishing(t)' \/ (caller = "publisher" /\ runs[caller].does = "show")
  BY <1>1 DEF Publishing, Inv, PageTypes, Callers
<1>6. OnlyPage(t)
  BY <1>2, <1>4, <1>5 DEF OnlyPage, PagesOk
<1>7. CASE Active(t)
  <2>. DEFINE command == Command(caller, runs[caller].does, revision)
              p == [session[t] EXCEPT !.sent = Append(@, command)]
              S == Messages(session[t].sent)
              W == Messages(session[t].wire)
  <2>1. /\ command \in Commands /\ command.revision = revision /\ command.does = runs[caller].does
        /\ command.by \notin {"validation", "removal"}
    BY DEF Command, Commands, Awaiters, Callers, Inv, PageTypes
  <2>2. session'[t] = p
    BY <1>1, <1>3, <1>7 DEF Inv, SessionInv
  <2>3. IsSession(t, session[t])
    BY <1>3 DEF Inv, SessionInv
  <2>4. p.wire = session[t].wire /\ Messages(p.sent) = S \cup {command}
    BY <2>1, <2>3, AppendToSent
  <2>. HIDE DEF command, p
  <2>5. Sound(target[t] = "gone", doc[t], S, W, stage[t], revision, Publishing(t))
    BY <1>3 DEF PageOk
  <2>. DEFINE T == S \cup {command}
  <2>6. Sound(target[t] = "gone", doc[t], T, W, stage[t], revision, Publishing(t))
    BY <2>1, <2>5, SoundAdds
  <2>7. command \in T
    OBVIOUS
  <2>. HIDE DEF T
  <2>8. Sound(target[t] = "gone", doc[t], T, W, stage[t], revision, Publishing(t)')
    BY <1>5, <2>1, <2>6, <2>7 DEF Sound
  <2>9. session'[t].wire = session[t].wire /\ Messages(session'[t].sent) = T
    BY <2>2, <2>4 DEF T
  <2>10. Leaving(doc[t], session'[t].sent, W, stage[t])
    BY <1>7 DEF Leaving, Active
  <2>11. PageOk(t)'
    BY <1>2, <1>3, <2>8, <2>9, <2>10 DEF PageOk
  <2>. QED  BY <1>3, <1>6, <2>11, OnlyPageOk
<1>8. CASE ~ Active(t)
  <2>1. stage[t] # "ready" /\ session' = session
    BY <1>1, <1>8 DEF Active
  <2>2. Sound(target[t] = "gone", doc[t], Messages(session[t].sent), Messages(session[t].wire),
              stage[t], revision, Publishing(t)')
    BY <1>3, <2>1 DEF PageOk, Sound
  <2>3. PageOk(t)'
    BY <1>2, <1>3, <2>1, <2>2 DEF PageOk
  <2>. QED  BY <1>3, <1>6, <2>3, OnlyPageOk
<1>. QED  BY <1>7, <1>8

LEMMA BridgeOk ==
    ASSUME Inv, PagesOk, Bridge
    PROVE  PagesOk'
<1>1. CASE Publish
  <2>1. \A t \in Targets : stage[t] = "ready" => Publishing(t)'
    BY <1>1 DEF Publish, Begins, Publishing, Active, Callers, Inv, PageTypes
  <2>. QED  BY <1>1, <2>1, BeginsOk DEF Publish, browserVars, pageVars
<1>2. CASE Heartbeat
  <2>1. runs'["publisher"] = runs["publisher"]
    BY <1>2 DEF Heartbeat, Begins, Callers, Inv, PageTypes
  <2>2. \A t \in Targets : Publishing(t)' = Publishing(t)
    BY <2>1 DEF Publishing
  <2>. QED  BY <1>2, <2>2, BeginsOk DEF Heartbeat, browserVars, pageVars
<1>3. CASE Cleanup
  <2>1. \A t \in Targets : ~ Publishing(t)
    BY <1>3 DEF Cleanup, Running, Idle, Publishing
  <2>. QED  BY <1>3, <2>1, BeginsOk DEF Cleanup, browserVars, pageVars
<1>4. ASSUME NEW caller \in Callers, EvaluateAllEnds(caller)
      PROVE  PagesOk'
  <2>1. UNCHANGED <<target, url, doc, session, stage, orphan, revision>>
    BY <1>4 DEF EvaluateAllEnds, browserVars, pageVars
  <2>2. CASE caller = "publisher"
    <3>1. \A t \in Targets : ~ Publishing(t)
      BY <1>4, <2>2 DEF EvaluateAllEnds, Publishing
    <3>. QED  BY <2>1, <3>1, BeginsOk
  <2>3. CASE caller = "heartbeat"
    <3>1. runs'["publisher"] = runs["publisher"]
      BY <1>4, <2>3 DEF EvaluateAllEnds, Callers, Inv, PageTypes
    <3>2. \A t \in Targets : Publishing(t)' = Publishing(t)
      BY <3>1 DEF Publishing
    <3>. QED  BY <2>1, <3>2, BeginsOk
  <2>. QED  BY <2>2, <2>3 DEF Callers
<1>. QED  BY <1>1, <1>2, <1>3, <1>4, EvaluatesNextOk DEF Bridge

-----------------------------------------------------------------------------
(* The pages.                                                              *)

(* What the first command of a page comes to.                              *)
LEMMA EvaluationMeans ==
    ASSUME NEW d \in Documents, d.mounted => d.controller, NEW command \in Commands
    PROVE  LET found == Finds(d, command.does)
               e == IF found THEN Effect(d, command) ELSE d
           IN  /\ found \in BOOLEAN
               /\ e.mounted => e.controller
               /\ d.controller => e.controller
               /\ command.does = "bootstrap" /\ found => e.controller
               /\ command.does = "show" /\ found => e.shown = command.revision
               /\ command.does = "show" /\ ~ found => ~ d.controller
               /\ command.does = "cleanup" => ~ e.mounted
BY DEF Documents, Commands, Finds, Effect

LEMMA TailPositions ==
    ASSUME NEW S, NEW s \in Seq(S), s # <<>>
    PROVE  /\ Head(s) = s[1] /\ Len(s) \in Nat /\ Len(s) # 0 /\ DOMAIN s = 1..Len(s)
           /\ Len(Tail(s)) = Len(s) - 1 /\ DOMAIN Tail(s) = 1..(Len(s) - 1)
           /\ \A i \in 1..(Len(s) - 1) : Tail(s)[i] = s[i + 1]
           /\ Tail(s) = <<>> <=> Len(s) = 1
<1>1. /\ Head(s) = s[1] /\ Len(s) \in Nat /\ Len(s) # 0 /\ DOMAIN s = 1..Len(s)
      /\ Len(Tail(s)) = Len(s) - 1 /\ DOMAIN Tail(s) = 1..(Len(s) - 1)
      /\ \A i \in 1..(Len(s) - 1) : Tail(s)[i] = s[i + 1]
  OBVIOUS
<1>2. Tail(s) = <<>> <=> Len(s) = 1
  <2>1. Tail(s) \in Seq(S)
    OBVIOUS
  <2>2. \A r \in Seq(S) : r = <<>> <=> Len(r) = 0
    OBVIOUS
  <2>3. Len(s) - 1 = 0 <=> Len(s) = 1
    BY <1>1
  <2>. DEFINE r == Tail(s)
  <2>4. r = <<>> <=> Len(r) = 0
    BY <2>1, <2>2, Zenon
  <2>5. Len(r) = Len(s) - 1
    BY <1>1
  <2>. HIDE DEF r
  <2>6. r = <<>> <=> Len(s) = 1
    BY <2>3, <2>4, <2>5
  <2>. QED  BY <2>6 DEF r
<1>. QED  BY <1>1, <1>2

LEMMA PageEvaluatesOk ==
    ASSUME Inv, Inv', PagesOk, NEW t \in Targets, PageEvaluates(t)
    PROVE  PagesOk'
<1>. DEFINE s == session[t].sent
            w == session[t].wire
            command == Head(s)
            found == Finds(doc[t], command.does)
            answer == Answer(command, IF found THEN "done" ELSE "skipped")
            d == IF found THEN Effect(doc[t], command) ELSE doc[t]
            v == IF Awaited(answer) THEN Append(w, answer) ELSE w
            S == Messages(s)
            W == Messages(w)
            T == Messages(Tail(s))
            V == Messages(v)
            gone == target[t] = "gone"
<1>1. /\ s # <<>> /\ s \in Seq(Commands) /\ w \in Seq(Heard) /\ PageOk(t)
      /\ doc[t] \in Documents /\ doc[t].shown <= doc'[t].shown /\ doc'[t].shown <= revision
      /\ doc[t].shown \in Nat /\ doc'[t].shown \in Nat /\ revision \in Nat
  <2>1. s # <<>> /\ s \in Seq(Commands) /\ w \in Seq(Heard) /\ PageOk(t)
    BY DEF PageEvaluates, Inv, SessionInv, IsSession, PagesOk, PageOk
  <2>2. doc[t] \in Documents /\ doc'[t] \in Documents /\ revision \in Revisions
    BY DEF Inv, PageTypes
  <2>3. doc[t].shown <= doc'[t].shown
    BY EvaluationEffect
  <2>4. doc'[t].shown <= revision' /\ revision' = revision
    BY DEF Inv, SessionInv, PageEvaluates, bridgeVars
  <2>. HIDE DEF s, w
  <2>. QED  BY <2>1, <2>2, <2>3, <2>4 DEF Documents, Revisions
<1>2. UNCHANGED <<target, url, stage, orphan, revision, runs>>
  BY DEF PageEvaluates, pageVars, bridgeVars
<1>3. doc'[t] = d /\ \A u \in Targets : u # t => doc'[u] = doc[u]
  BY DEF PageEvaluates, Inv, PageTypes
<1>4. session'[t].sent = Tail(s) /\ session'[t].wire = v
      /\ \A u \in Targets : u # t => session'[u] = session[u]
  BY DEF PageEvaluates, Inv, SessionInv
<1>5. /\ Tail(s) \in Seq(Commands) /\ command \in Commands /\ S = {command} \cup T
  BY <1>1, TailMessages
<1>6. /\ answer \in Heard /\ answer.by = command.by /\ answer.does = command.does
      /\ answer.revision = command.revision
      /\ answer.outcome = IF found THEN "done" ELSE "skipped"
  BY <1>5 DEF Answer, Heard, Answers, Commands
<1>7. v \in Seq(Heard) /\ W \subseteq V /\ V \subseteq W \cup {answer}
  <2>. HIDE DEF answer, w
  <2>. QED  BY <1>1, <1>6, AppendMessages
<1>8. doc[t].mounted => doc[t].controller
  BY <1>1 DEF PageOk
<1>9. /\ d.mounted => d.controller
      /\ doc[t].controller => d.controller
      /\ command.does = "bootstrap" /\ found => d.controller
      /\ command.does = "show" /\ found => d.shown = command.revision
      /\ command.does = "show" /\ ~ found => ~ doc[t].controller
      /\ command.does = "cleanup" => ~ d.mounted
  BY <1>1, <1>5, <1>8, EvaluationMeans
<1>10. /\ Sound(gone, doc[t], S, W, stage[t], revision, Publishing(t))
       /\ Leaving(doc[t], s, W, stage[t])
  BY <1>1 DEF PageOk
<1>11. stage[t] \in Connected
  <2>1. session[t] # Silent
    BY <1>1 DEF Silent
  <2>. QED  BY <2>1, HasSession DEF Inv
<1>12. doc[t].shown <= d.shown /\ d.shown <= revision /\ d.shown \in Nat
  BY <1>1, <1>3
<1>13. \A m \in W : ReplayDone(m) => m.revision \in Nat
  <2>1. \A m \in W : m \in Heard
    BY <1>1 DEF Messages
  <2>. HIDE DEF W
  <2>. QED  BY <2>1 DEF ReplayDone, Replaying, Heard, Answers, Revisions
<1>14. \A m \in S : m \in Commands
  BY <1>1 DEF Messages
<1>. DEFINE rest == Tail(s)
<1>15. /\ command = s[1] /\ Len(s) \in Nat /\ Len(s) # 0 /\ DOMAIN s = 1..Len(s)
       /\ Len(rest) = Len(s) - 1 /\ DOMAIN rest = 1..(Len(s) - 1)
       /\ \A i \in 1..(Len(s) - 1) : rest[i] = s[i + 1]
       /\ rest = <<>> <=> Len(s) = 1
  BY <1>1, TailPositions
<1>. HIDE DEF s, w, command, found, answer, d, v, S, W, T, V, gone, rest
<1>16. Sound(gone, d, T, V, stage[t], revision, Publishing(t))
  <2>1. \A m \in T \cup V : m.by # IF stage[t] = "removing" THEN "validation" ELSE "removal"
    BY <1>5, <1>6, <1>7, <1>10 DEF Sound
  <2>2. CASE Noticed(gone, W)
    BY <1>7, <2>1, <2>2 DEF Sound, Noticed
  <2>3. CASE ~ Noticed(gone, W)
    <3>1. /\ stage[t] \in {"replaying", "ready"} => doc[t].controller
          /\ \A m \in S \cup W : Replaying(m) => doc[t].controller
          /\ \A m \in W : BootstrapDone(m) => doc[t].controller
          /\ \A m \in W : ReplayDone(m) => m.revision <= doc[t].shown
          /\ stage[t] = "ready" =>
                \/ doc[t].shown = revision \/ Publishing(t)
                \/ \E m \in S : m.does = "show" /\ m.revision = revision
      BY <1>10, <2>3 DEF Sound
    <3>2. stage[t] \in {"replaying", "ready"} => d.controller
      BY <1>9, <3>1
    <3>3. \A m \in T \cup V : Replaying(m) => d.controller
      BY <1>5, <1>6, <1>7, <1>9, <3>1 DEF Replaying
    <3>4. \A m \in V : BootstrapDone(m) => d.controller
      BY <1>6, <1>7, <1>9, <3>1 DEF BootstrapDone
    <3>5. \A m \in V : ReplayDone(m) => m.revision <= d.shown
      <4>1. ASSUME NEW m \in W, ReplayDone(m) PROVE m.revision <= d.shown
        BY <1>1, <1>12, <1>13, <3>1, <4>1
      <4>2. ReplayDone(answer) => answer.revision <= d.shown
        BY <1>6, <1>9, <1>12 DEF ReplayDone, Replaying
      <4>. QED  BY <1>7, <4>1, <4>2
    <3>6. stage[t] = "ready" =>
            \/ d.shown = revision \/ Publishing(t)
            \/ \E m \in T : m.does = "show" /\ m.revision = revision
      <4>1. doc[t].shown = revision => d.shown = revision
        BY <1>1, <1>12
      <4>2. stage[t] = "ready" /\ command.does = "show" /\ command.revision = revision =>
              d.shown = revision
        BY <1>9, <3>1
      <4>. QED  BY <1>5, <3>1, <4>1, <4>2
    <3>. QED  BY <2>1, <3>2, <3>3, <3>4, <3>5, <3>6 DEF Sound
  <2>. QED  BY <2>2, <2>3
<1>17. Leaving(d, rest, V, stage[t])
  <2>. SUFFICES ASSUME stage[t] = "removing" PROVE Leaving(d, rest, V, stage[t])
    BY DEF Leaving
  <2>1. /\ s[Len(s)].by = "removal" /\ s[Len(s)].does = "cleanup"
        /\ \A i \in DOMAIN s : s[i].by = "removal" => i = Len(s)
        /\ \A m \in W : m.by # "removal"
    BY <1>1, <1>10 DEF Leaving
  <2>2. rest = <<>> => ~ d.mounted
    BY <1>9, <1>15, <2>1
  <2>3. rest # <<>> => (rest[Len(rest)].by = "removal" /\ rest[Len(rest)].does = "cleanup")
    <3>. SUFFICES ASSUME rest # <<>> PROVE rest[Len(rest)] = s[Len(s)]
      BY <2>1
    <3>1. Len(s) - 1 \in 1..(Len(s) - 1) /\ (Len(s) - 1) + 1 = Len(s)
      BY <1>15
    <3>. QED  BY <1>15, <3>1
  <2>4. \A i \in DOMAIN rest : rest[i].by = "removal" => i = Len(rest)
    <3>. SUFFICES ASSUME NEW i \in DOMAIN rest, rest[i].by = "removal" PROVE i = Len(rest)
      OBVIOUS
    <3>1. i + 1 \in DOMAIN s /\ rest[i] = s[i + 1] /\ i \in Nat
      BY <1>15
    <3>2. i + 1 = Len(s)
      BY <2>1, <3>1
    <3>. QED  BY <1>15, <3>1, <3>2
  <2>5. answer.by = "removal" => rest = <<>>
    <3>1. 1 \in DOMAIN s
      BY <1>15
    <3>. QED  BY <1>6, <1>15, <2>1, <3>1
  <2>6. (\E m \in V : m.by = "removal") => rest = <<>>
    BY <1>7, <2>1, <2>5
  <2>. QED  BY <2>2, <2>3, <2>4, <2>6 DEF Leaving
<1>18. PageOk(t)'
  <2>1. /\ url'[t] \in Nat /\ session'[t].wire \in Seq(Heard)
        /\ doc'[t].mounted => doc'[t].controller
    BY <1>1, <1>2, <1>3, <1>4, <1>7, <1>9 DEF PageOk
  <2>2. Messages(session'[t].sent) = T /\ Messages(session'[t].wire) = V
        /\ session'[t].sent = rest
    BY <1>4 DEF T, V, rest
  <2>3. Sound((target[t] = "gone")', doc'[t], Messages(session'[t].sent),
              Messages(session'[t].wire), stage'[t], revision', Publishing(t)')
    BY <1>2, <1>3, <1>16, <2>2 DEF gone, Publishing
  <2>4. Leaving(doc'[t], session'[t].sent, Messages(session'[t].wire), stage'[t])
    BY <1>2, <1>3, <1>17, <2>2
  <2>5. stage'[t] \notin {"untracked", "connecting"}
    BY <1>2, <1>11 DEF Connected
  <2>. QED  BY <2>1, <2>3, <2>4, <2>5 DEF PageOk
<1>19. OnlyPage(t)
  BY <1>2, <1>3, <1>4 DEF OnlyPage, PagesOk, Publishing
<1>. QED  BY <1>18, <1>19, OnlyPageOk

(* The document is another one, and the watcher will hear of it.           *)
LEMMA ReplacedOk ==
    ASSUME PagesOk, NEW t \in Targets,
           UNCHANGED <<stage, orphan, runs, revision>>,
           target' = [u \in Targets |-> target'[u]], url' = [u \in Targets |-> url'[u]],
           \A u \in Targets \ {t} : /\ target'[u] = target[u] /\ doc'[u] = doc[u]
                                    /\ url'[u] = url[u] /\ session'[u] = session[u],
           url'[t] \in Nat, session'[t].wire \in Seq(Heard), ~ doc'[t].mounted,
           Noticed((target[t] = "gone")', Messages(session'[t].wire)),
           \A m \in Messages(session'[t].sent) \cup Messages(session'[t].wire) :
               \/ m.by = "browser"
               \/ \E k \in Messages(session[t].sent) \cup Messages(session[t].wire) : m.by = k.by,
           \/ session'[t].sent = <<>>
           \/ /\ session'[t].sent = session[t].sent
              /\ \A m \in Messages(session'[t].wire) :
                   m.by = "browser" \/ m \in Messages(session[t].wire)
    PROVE  PagesOk'
<1>1. PageOk(t)
  BY DEF PagesOk
<1>2. Sound((target[t] = "gone")', doc'[t], Messages(session'[t].sent),
            Messages(session'[t].wire), stage'[t], revision', Publishing(t)')
  BY <1>1 DEF PageOk, Sound
<1>3. Leaving(doc'[t], session'[t].sent, Messages(session'[t].wire), stage'[t])
  BY <1>1 DEF PageOk, Leaving
<1>4. PageOk(t)'
  BY <1>2, <1>3 DEF PageOk
<1>5. OnlyPage(t)
  BY DEF OnlyPage, Publishing
<1>. QED  BY <1>4, <1>5, OnlyPageOk

(* A navigation is heard of, before or after the commands that fail with   *)
(* the old document, which wait for the new one if they do not.            *)
LEMMA NavigatedSession ==
    ASSUME Inv, PagesOk, NEW t \in Targets, Navigates(t),
           ~ (stage[t] \in {"untracked", "connecting"} /\ session[t] = Silent)
    PROVE  LET q == session[t]
               next == session'[t]
               event == [by |-> "browser", version |-> url[t] + 1]
           IN  /\ next.wire \in Seq(Heard) /\ event \in Messages(next.wire)
               /\ \A m \in Messages(next.wire) :
                    \/ m = event \/ m \in Messages(q.wire)
                    \/ m.by # "browser" /\ \E k \in Messages(q.sent) : m.by = k.by
               /\ \/ next.sent = <<>>
                  \/ /\ next.sent = q.sent
                     /\ \A m \in Messages(next.wire) : m = event \/ m \in Messages(q.wire)
               /\ \A u \in Targets : u # t => session'[u] = session[u]
<1>. DEFINE q == session[t]
            event == [by |-> "browser", version |-> url[t] + 1]
            errors == [i \in DOMAIN q.sent |-> Answer(q.sent[i], "error")]
            failed == Heeded(errors)
            longer == Append(q.wire, event)
            failedFirst == q.wire \o failed \o <<event>>
            eventFirst == q.wire \o <<event>> \o failed
<1>2. url[t] \in Nat
  BY DEF PagesOk, PageOk
<1>4. /\ q = [sent |-> q.sent, wire |-> q.wire]
      /\ q.sent \in Seq(Commands) /\ q.wire \in Seq(Heard)
  <2>1. IsSession(t, session[t]) /\ session[t].wire \in Seq(Heard)
    BY DEF Inv, SessionInv, PagesOk, PageOk
  <2>. HIDE DEF failed, errors
  <2>. QED  BY <2>1 DEF IsSession
<1>5. event \in Heard /\ event.by = "browser"
  BY <1>2 DEF Heard
<1>6. /\ errors \in Seq(Heard)
      /\ \A m \in Messages(errors) : m.by # "browser" /\ \E k \in Messages(q.sent) : m.by = k.by
  <2>. DEFINE s == q.sent
  <2>1. /\ DOMAIN s = 1..Len(s) /\ Len(s) \in Nat /\ \A i \in 1..Len(s) : s[i] \in Commands
    BY <1>4
  <2>2. \A command \in Commands :
          /\ Answer(command, "error") \in Heard /\ Answer(command, "error").by = command.by
          /\ command.by # "browser"
    BY DEF Answer, Heard, Answers, Commands, Awaiters, Callers
  <2>3. errors = [i \in 1..Len(s) |-> Answer(s[i], "error")]
    BY <2>1
  <2>. HIDE DEF s, errors
  <2>4. errors \in Seq(Heard) /\ DOMAIN errors = 1..Len(s)
    BY <2>1, <2>2, <2>3
  <2>5. \A i \in 1..Len(s) : errors[i].by = s[i].by /\ s[i].by # "browser"
    BY <2>1, <2>2, <2>3
  <2>6. \A m \in Messages(errors) : m.by # "browser" /\ \E k \in Messages(s) : m.by = k.by
    BY <2>1, <2>4, <2>5 DEF Messages
  <2>. QED  BY <2>4, <2>6 DEF s
<1>. HIDE DEF errors, event
<1>7. failed \in Seq(Heard) /\ Messages(failed) \subseteq Messages(errors)
  BY <1>6, HeededMessages
<1>. HIDE DEF failed
<1>8. longer \in Seq(Heard) /\ Messages(longer) = Messages(q.wire) \cup {event}
  BY <1>4, <1>5, AppendMessages
<1>9. <<event>> \in Seq(Heard) /\ Messages(<<event>>) = {event}
  BY <1>5 DEF Messages
<1>. DEFINE one == <<event>>
<1>. HIDE DEF one
<1>10. /\ failedFirst \in Seq(Heard) /\ eventFirst \in Seq(Heard)
       /\ Messages(failedFirst) = Messages(q.wire) \cup Messages(failed) \cup {event}
       /\ Messages(eventFirst) = Messages(q.wire) \cup Messages(failed) \cup {event}
  <2>1. one \in Seq(Heard) /\ Messages(one) = {event}
    BY <1>9 DEF one
  <2>. DEFINE a == q.wire \o failed
              b == q.wire \o one
  <2>2. a \in Seq(Heard) /\ Messages(a) = Messages(q.wire) \cup Messages(failed)
    BY <1>4, <1>7, ConcatMessages
  <2>3. b \in Seq(Heard) /\ Messages(b) = Messages(q.wire) \cup {event}
    BY <1>4, <2>1, ConcatMessages
  <2>. HIDE DEF a, b
  <2>4. a \o one \in Seq(Heard) /\ Messages(a \o one) = Messages(a) \cup {event}
    BY <2>1, <2>2, ConcatMessages
  <2>5. b \o failed \in Seq(Heard) /\ Messages(b \o failed) = Messages(b) \cup Messages(failed)
    BY <1>7, <2>3, ConcatMessages
  <2>. QED  BY <2>2, <2>3, <2>4, <2>5 DEF a, b, one
<1>11. \E next \in {[q EXCEPT !.wire = Append(@, event)],
                   [sent |-> <<>>, wire |-> failedFirst],
                   [sent |-> <<>>, wire |-> eventFirst]} :
          session' = [session EXCEPT ![t] = next]
  BY Zenon DEF Navigates, event, errors, failed
<1>12. [q EXCEPT !.wire = Append(@, event)] = [q EXCEPT !.wire = longer]
  BY Zenon
<1>. HIDE DEF longer, failedFirst, eventFirst
<1>13. [q EXCEPT !.wire = longer] = [sent |-> q.sent, wire |-> longer]
  BY <1>4, OtherWire
<1>14. PICK next : /\ session' = [session EXCEPT ![t] = next]
                  /\ \/ next = [sent |-> q.sent, wire |-> longer]
                     \/ next = [sent |-> <<>>, wire |-> failedFirst]
                     \/ next = [sent |-> <<>>, wire |-> eventFirst]
  BY <1>11, <1>12, <1>13
<1>15. /\ session'[t] = next
       /\ \A u \in Targets : u # t => session'[u] = session[u]
  BY <1>14 DEF Inv, SessionInv
<1>16. \/ next.sent = q.sent /\ next.wire = longer
       \/ next.sent = <<>> /\ next.wire \in {failedFirst, eventFirst}
  BY <1>14
<1>17. next.wire \in Seq(Heard) /\ event \in Messages(next.wire)
       /\ Messages(next.wire) \subseteq Messages(q.wire) \cup Messages(failed) \cup {event}
  BY <1>8, <1>10, <1>16
<1>18. \/ next.sent = <<>>
       \/ next.sent = q.sent /\ Messages(next.wire) = Messages(q.wire) \cup {event}
  BY <1>8, <1>16
<1>. QED  BY <1>6, <1>7, <1>15, <1>17, <1>18 DEF event

LEMMA NavigatesOk ==
    ASSUME Inv, PagesOk, NEW t \in Targets, Navigates(t)
    PROVE  PagesOk'
<1>1. PICK main \in BOOLEAN : doc' = [doc EXCEPT ![t] = Fresh(main)]
  BY DEF Navigates
<1>2. /\ ~ doc'[t].mounted /\ \A u \in Targets : u # t => doc'[u] = doc[u]
      /\ url[t] \in Nat /\ url'[t] = url[t] + 1 /\ url' = [u \in Targets |-> url'[u]]
      /\ \A u \in Targets : u # t => url'[u] = url[u]
  BY <1>1 DEF Fresh, Navigates, Inv, PageTypes, PagesOk, PageOk
<1>3. UNCHANGED <<target, stage, orphan, runs, revision>>
  BY DEF Navigates, pageVars, bridgeVars
<1>4. CASE stage[t] \in {"untracked", "connecting"} /\ session[t] = Silent
  <2>1. session' = session
    BY <1>4 DEF Navigates
  <2>2. /\ Messages(session'[t].sent) = {} /\ Messages(session'[t].wire) = {}
        /\ session'[t].wire \in Seq(Heard)
    <3>1. session'[t].sent = <<>> /\ session'[t].wire = <<>>
      BY <1>4, <2>1 DEF Silent
    <3>2. Messages(<<>>) = {} /\ <<>> \in Seq(Heard)
      BY DEF Messages
    <3>. QED  BY <3>1, <3>2
  <2>3. Sound((target[t] = "gone")', doc'[t], Messages(session'[t].sent),
              Messages(session'[t].wire), stage'[t], revision', Publishing(t)')
    BY <1>3, <1>4, <2>2, SoundAnew
  <2>4. PageOk(t)'
    BY <1>2, <1>3, <1>4, <2>2, <2>3 DEF PageOk, Leaving
  <2>5. OnlyPage(t)
    BY <1>2, <1>3, <2>1 DEF OnlyPage, PagesOk, Publishing
  <2>. QED  BY <2>4, <2>5, OnlyPageOk
<1>5. CASE ~ (stage[t] \in {"untracked", "connecting"} /\ session[t] = Silent)
  <2>. DEFINE q == session[t]
              next == session'[t]
              event == [by |-> "browser", version |-> url[t] + 1]
  <2>1. /\ next.wire \in Seq(Heard) /\ event \in Messages(next.wire)
        /\ \A m \in Messages(next.wire) :
              \/ m = event \/ m \in Messages(q.wire)
              \/ \E k \in Messages(q.sent) : m.by = k.by
        /\ \/ next.sent = <<>>
           \/ /\ next.sent = q.sent
              /\ \A m \in Messages(next.wire) : m = event \/ m \in Messages(q.wire)
        /\ \A u \in Targets : u # t => session'[u] = session[u]
    BY <1>5, NavigatedSession
  <2>2. event.by = "browser"
    OBVIOUS
  <2>. HIDE DEF q, next, event
  <2>3. \A m \in Messages(next.sent) \cup Messages(next.wire) :
          \/ m.by = "browser"
          \/ \E k \in Messages(q.sent) \cup Messages(q.wire) : m.by = k.by
    <3>1. Messages(<<>>) = {}
      BY DEF Messages
    <3>2. Messages(next.sent) \subseteq Messages(q.sent)
      BY <2>1, <3>1
    <3>. QED  BY <2>1, <2>2, <3>2
  <2>4. Noticed((target[t] = "gone")', Messages(session'[t].wire))
    BY <2>1, <2>2 DEF Noticed, next
  <2>5. target' = [u \in Targets |-> target'[u]] /\ url'[t] \in Nat
    BY <1>2, <1>3 DEF PagesOk
  <2>. QED  BY <1>2, <1>3, <2>1, <2>2, <2>3, <2>4, <2>5, ReplacedOk DEF q, next
<1>. QED  BY <1>4, <1>5

LEMMA BrowserOk ==
    ASSUME Inv, Inv', PagesOk, NEW t \in Targets, Browser(t)
    PROVE  PagesOk'
<1>1. CASE PageEvaluates(t)
  BY <1>1, PageEvaluatesOk
<1>2. CASE Navigates(t)
  BY <1>2, NavigatesOk
<1>3. CASE ChangesRoute(t)
  <2>1. /\ doc'[t] = [doc[t] EXCEPT !.main = ~@] /\ doc[t] \in Documents
        /\ \A u \in Targets : u # t => doc'[u] = doc[u] /\ url'[u] = url[u]
        /\ url[t] \in Nat /\ url'[t] = url[t] + 1
        /\ url' = [u \in Targets |-> url'[u]]
    BY <1>3 DEF ChangesRoute, Inv, PageTypes, PagesOk, PageOk
  <2>2. UNCHANGED <<target, session, stage, orphan, revision, runs>>
    BY <1>3 DEF ChangesRoute, pageVars, bridgeVars
  <2>3. /\ doc'[t].controller = doc[t].controller /\ doc'[t].mounted = doc[t].mounted
        /\ doc'[t].shown = doc[t].shown
    BY <2>1 DEF Documents
  <2>4. PageOk(t)
    BY DEF PagesOk
  <2>5. Sound(target[t] = "gone", doc'[t], Messages(session[t].sent), Messages(session[t].wire),
              stage[t], revision, Publishing(t))
    BY <2>3, <2>4 DEF PageOk, Sound
  <2>6. Leaving(doc'[t], session[t].sent, Messages(session[t].wire), stage[t])
    BY <2>3, <2>4 DEF PageOk, Leaving
  <2>7. PageOk(t)'
    BY <2>1, <2>2, <2>3, <2>4, <2>5, <2>6 DEF PageOk, Publishing
  <2>8. OnlyPage(t)
    BY <2>1, <2>2 DEF OnlyPage, PagesOk, Publishing
  <2>. QED  BY <2>7, <2>8, OnlyPageOk
<1>4. CASE TargetOpens(t)
  <2>1. /\ target[t] = "unborn" /\ target'[t] = "open" /\ target' = [u \in Targets |-> target'[u]]
        /\ \A u \in Targets : u # t => target'[u] = target[u]
        /\ UNCHANGED <<url, doc, session, stage, orphan, revision, runs>>
    BY <1>4 DEF TargetOpens, pageVars, bridgeVars, PagesOk
  <2>2. PageOk(t)'
    BY <2>1 DEF PagesOk, PageOk, Publishing
  <2>3. OnlyPage(t)
    BY <2>1 DEF OnlyPage, PagesOk, Publishing
  <2>. QED  BY <2>2, <2>3, OnlyPageOk
<1>5. CASE TargetCloses(t)
  <2>1. /\ target'[t] = "gone" /\ target' = [u \in Targets |-> target'[u]]
        /\ doc'[t] = Fresh(FALSE)
        /\ \A u \in Targets : u # t => target'[u] = target[u] /\ doc'[u] = doc[u]
        /\ UNCHANGED <<url, session, stage, orphan, revision, runs>>
    BY <1>5 DEF TargetCloses, pageVars, bridgeVars, PagesOk, Inv, PageTypes
  <2>2. ~ doc'[t].mounted
    BY <2>1 DEF Fresh
  <2>3. Noticed((target[t] = "gone")', Messages(session'[t].wire))
    BY <2>1 DEF Noticed
  <2>4. url'[t] \in Nat /\ session'[t].wire \in Seq(Heard) /\ url' = [u \in Targets |-> url'[u]]
    BY <2>1 DEF PagesOk, PageOk
  <2>. QED  BY <2>1, <2>2, <2>3, <2>4, ReplacedOk
<1>. QED  BY <1>1, <1>2, <1>3, <1>4, <1>5 DEF Browser

-----------------------------------------------------------------------------

LEMMA InitOk == Init => PagesOk
<1>. SUFFICES ASSUME Init PROVE PagesOk
  OBVIOUS
<1>1. ASSUME NEW t \in Targets PROVE PageOk(t)
  <2>1. /\ session[t].sent = <<>> /\ session[t].wire = <<>> /\ stage[t] = "untracked"
        /\ url[t] = 0 /\ ~ doc[t].mounted
    BY DEF Init, Silent, Fresh
  <2>2. Messages(<<>>) = {} /\ <<>> \in Seq(Heard)
    BY DEF Messages
  <2>3. Sound(target[t] = "gone", doc[t], Messages(session[t].sent), Messages(session[t].wire),
              stage[t], revision, Publishing(t))
    BY <2>1, <2>2, SoundAnew
  <2>. QED  BY <2>1, <2>2, <2>3 DEF PageOk, Leaving
<1>. QED  BY <1>1 DEF Init, PagesOk

LEMMA NextOk == Inv /\ Inv' /\ PagesOk /\ [Next]_vars => PagesOk'
<1>. SUFFICES ASSUME Inv, Inv', PagesOk, [Next]_vars PROVE PagesOk'
  OBVIOUS
<1>1. CASE UNCHANGED vars
  BY <1>1, StillOk DEF vars, browserVars, pageVars, bridgeVars
<1>2. CASE \E t \in Targets : PageSteps(t) \/ Syncing(t) \/ Browser(t)
  BY <1>2, PageStepOk, SyncingOk, BrowserOk
<1>3. CASE Loop \/ Bridge \/ AnchorLost
  BY <1>3, LoopOk, BridgeOk
<1>. QED  BY <1>1, <1>2, <1>3 DEF Next

LEMMA PagesOkHolds == Spec => []PagesOk
<1>1. Inv /\ Inv' /\ PagesOk /\ [Next]_vars => PagesOk'
  BY NextOk
<1>. QED  BY InitOk, <1>1, Invariance, PTL DEF Spec

(* A page whose replay is over, and of which nobody waits for anything,    *)
(* shows the last call of the bridge, or the publisher will still get to   *)
(* it: for any pages, publications, navigations, timeouts and lost         *)
(* sessions, in whatever order they cross.                                 *)
THEOREM ReadyPagesShowLatestHolds == Spec => []ReadyPagesShowLatest
<1>1. Inv /\ PagesOk => ReadyPagesShowLatest
  <2>. SUFFICES ASSUME Inv, PagesOk, NEW t \in Targets,
                       stage[t] = "ready", Quiet(t), target[t] = "open"
                PROVE  \/ doc[t].controller /\ doc[t].shown = revision
                       \/ runs["publisher"].does = "show" /\ t \in runs["publisher"].left
    BY DEF ReadyPagesShowLatest
  <2>1. Messages(session[t].sent) = {} /\ Messages(session[t].wire) = {}
    BY DEF Quiet, Silent, Messages
  <2>2. Sound(target[t] = "gone", doc[t], {}, {}, stage[t], revision, Publishing(t))
    BY <2>1 DEF PagesOk, PageOk
  <2>3. ~ Noticed(target[t] = "gone", {})
    BY DEF Noticed
  <2>. QED  BY <2>2, <2>3 DEF Sound, Publishing
<1>. QED  BY <1>1, PagesOkHolds, Invariance, PTL

(* When the watcher has closed, the panel is off every page, but for those *)
(* whose session was lost, that were not active (again) or did not answer: *)
(* nothing else puts it back after the cleanup.                            *)
THEOREM PanelsCleanedHolds == Spec => []PanelsCleaned
<1>1. Inv /\ PagesOk => PanelsCleaned
  BY DEF Inv, StageInv, PagesOk, PageOk, PanelsCleaned
<1>. QED  BY <1>1, PagesOkHolds, Invariance, PTL

-----------------------------------------------------------------------------
(* The types of the rest: versions are counted by troubles, and a session  *)
(* brings no event but those of its page's navigations.                    *)

Dated(t) == \A m \in Messages(session[t].wire) : m.by = "browser" => m.version \in Versions

RestInv ==
    /\ target \in [Targets -> {"unborn", "open", "gone"}]
    /\ url \in [Targets -> Nat] /\ \A t \in Targets : url[t] <= troubles
    /\ known \in [Targets -> Versions]
    /\ ignored \subseteq Targets /\ orphan \subseteq Targets
    /\ loop \in {"delay", "listing", "syncing", "closing", "closed"}
    /\ list \in [Targets -> Versions \cup {MaxTroubles + 1}]
    /\ failures \in 0..MaxFailures
    /\ started \in BOOLEAN /\ aborted \in BOOLEAN /\ stopping \in BOOLEAN
    /\ troubles \in 0..MaxTroubles
    /\ \A t \in Targets : Dated(t)

LEMMA TypesOfAll == Inv /\ PagesOk /\ RestInv => TypeOK
<1>. SUFFICES ASSUME Inv, PagesOk, RestInv PROVE TypeOK
  OBVIOUS
<1>1. url \in [Targets -> Versions]
  <2>1. /\ \A t \in Targets : url[t] \in Nat /\ url[t] <= troubles
        /\ troubles \in Nat /\ troubles <= MaxTroubles
    BY MaxTroublesAssumption DEF RestInv
  <2>2. \A t \in Targets : url[t] \in Versions
    <3>1. \A n \in Nat : n <= troubles => n \in Versions
      BY <2>1, MaxTroublesAssumption DEF Versions
    <3>. QED  BY <2>1, <3>1
  <2>. QED  BY <2>2 DEF RestInv
<1>2. ASSUME NEW t \in Targets
      PROVE  /\ DOMAIN session[t] = {"sent", "wire"}
             /\ \A i \in DOMAIN session[t].sent : session[t].sent[i] \in Commands
             /\ \A i \in DOMAIN session[t].wire : session[t].wire[i] \in Answers \cup Events
  <2>1. /\ session[t] = [sent |-> session[t].sent, wire |-> session[t].wire]
        /\ session[t].sent \in Seq(Commands) /\ session[t].wire \in Seq(Heard) /\ Dated(t)
    BY DEF Inv, SessionInv, IsSession, PagesOk, PageOk, RestInv
  <2>. DEFINE w == session[t].wire
              s == session[t].sent
  <2>2. DOMAIN session[t] = {"sent", "wire"}
    <3>1. \A a, b : DOMAIN [sent |-> a, wire |-> b] = {"sent", "wire"}
      OBVIOUS
    <3>. QED  BY <2>1, <3>1
  <2>. HIDE DEF w, s
  <2>3. \A i \in DOMAIN s : s[i] \in Commands
    BY <2>1 DEF s
  <2>4. ASSUME NEW i \in DOMAIN w PROVE w[i] \in Answers \cup Events
    <3>1. w[i] \in Heard /\ w[i] \in Messages(w)
      BY <2>1 DEF w, Messages
    <3>2. w[i].by = "browser" => w[i].version \in Versions
      BY <2>1, <3>1 DEF w, Dated
    <3>. QED  BY <3>1, <3>2 DEF Heard, Events
  <2>. QED  BY <2>2, <2>3, <2>4 DEF s, w
<1>. QED  BY <1>1, <1>2 DEF Inv, PageTypes, Stages, RestInv, TypeOK

(* A continuation brings no event, and lets go of its own page at most.    *)
BringsNothing(t) ==
    /\ \A u \in Targets \ {t} : session'[u] = session[u]
    /\ \A m \in Messages(session'[t].wire) : m.by = "browser" => m \in Messages(session[t].wire)
    /\ ignored' \subseteq ignored \cup {t} /\ orphan' \subseteq orphan \cup {t}

NoNews(t, q) ==
    /\ IsSession(t, q) /\ q.wire \in Seq(Heard)
    /\ \A m \in Messages(q.wire) : m.by = "browser" => m \in Messages(session[t].wire)

LEMMA SupersededBringsNothing ==
    ASSUME NEW q, q.wire \in Seq(Heard)
    PROVE  \A m \in Messages(Superseded(q).wire) : m.by = "browser" => m \in Messages(q.wire)
<1>. DEFINE Stale(message) ==
                IF message.by # "validation" THEN message
                ELSE [message EXCEPT !.by = IF message.does = "show" THEN "stale" ELSE "nobody"]
            w == q.wire
            all == [i \in DOMAIN w |-> Stale(w[i])]
<1>1. \A m \in Heard : Stale(m) \in Heard /\ (Stale(m).by = "browser" => Stale(m) = m)
  BY DEF Heard, Answers, Awaiters
<1>2. Superseded(q).wire = Heeded(all)
  BY Zenon DEF Superseded
<1>3. /\ \A i \in 1..Len(w) : w[i] \in Heard
      /\ DOMAIN w = 1..Len(w) /\ Len(w) \in Nat
  <2>. HIDE DEF Stale, all
  <2>. QED  OBVIOUS
<1>4. all = [i \in 1..Len(w) |-> Stale(w[i])]
  BY <1>3
<1>. HIDE DEF Stale, w, all
<1>5. /\ all \in Seq(Heard)
      /\ \A i \in DOMAIN all : i \in DOMAIN w /\ (all[i].by = "browser" => all[i] = w[i])
  BY <1>1, <1>3, <1>4
<1>6. Messages(Heeded(all)) \subseteq Messages(all)
  BY <1>5, HeededMessages
<1>7. \A m \in Messages(all) : m.by = "browser" => m \in Messages(w)
  BY <1>5 DEF Messages
<1>. QED  BY <1>2, <1>6, <1>7 DEF w

LEMMA ConsumesBringsNothing ==
    ASSUME SessionInv, NEW t \in Targets, NEW q, NoNews(t, q),
           session' = [session EXCEPT ![t] = q], UNCHANGED <<ignored, orphan>>
    PROVE  BringsNothing(t)
<1>1. session'[t] = q /\ \A u \in Targets \ {t} : session'[u] = session[u]
  BY DEF SessionInv
<1>. QED  BY <1>1 DEF BringsNothing, NoNews

LEMMA SendsBringsNothing ==
    ASSUME SessionInv, NEW t \in Targets, NEW q, NoNews(t, q),
           NEW command \in Commands, NEW next, Sends(t, q, command, next)
    PROVE  BringsNothing(t)
<1>. DEFINE p == [q EXCEPT !.sent = Append(@, command)]
<1>1. p.wire = q.wire
  BY AppendToSent DEF NoNews
<1>2. session' = [session EXCEPT ![t] = p] /\ UNCHANGED <<ignored, orphan>>
  BY DEF Sends, Moves
<1>. HIDE DEF p
<1>3. session'[t] = p /\ \A u \in Targets \ {t} : session'[u] = session[u]
  BY <1>2 DEF SessionInv
<1>. QED  BY <1>1, <1>2, <1>3 DEF BringsNothing, NoNews

LEMMA SupersedesBringsNothing ==
    ASSUME SessionInv, NEW t \in Targets, NEW q, NoNews(t, q),
           session' = [session EXCEPT ![t] = Superseded(q)], UNCHANGED <<ignored, orphan>>
    PROVE  BringsNothing(t)
<1>1. session'[t] = Superseded(q) /\ \A u \in Targets \ {t} : session'[u] = session[u]
  BY DEF SessionInv
<1>2. \A m \in Messages(Superseded(q).wire) : m.by = "browser" => m \in Messages(q.wire)
  BY SupersededBringsNothing DEF NoNews
<1>. QED  BY <1>1, <1>2 DEF BringsNothing, NoNews

LEMMA RevalidatesBringsNothing ==
    ASSUME SessionInv, NEW t \in Targets, NEW q, NoNews(t, q), Revalidates(t, q)
    PROVE  BringsNothing(t)
BY ConsumesBringsNothing, SupersedesBringsNothing DEF Revalidates, Consumes, Moves

LEMMA EndsBringsNothing ==
    ASSUME SessionInv, NEW t \in Targets, NEW ignore, NEW unclean, Ends(t, ignore, unclean)
    PROVE  BringsNothing(t)
<1>1. session'[t] = Silent /\ \A u \in Targets \ {t} : session'[u] = session[u]
  BY DEF Ends, SessionInv
<1>2. Messages(session'[t].wire) = {}
  BY <1>1 DEF Silent, Messages
<1>3. ignored' \subseteq ignored \cup {t} /\ orphan' \subseteq orphan \cup {t}
  BY DEF Ends
<1>. QED  BY <1>1, <1>2, <1>3 DEF BringsNothing

LEMMA ReplaysBringsNothing ==
    ASSUME PageTypes, SessionInv, NEW t \in Targets, NEW q, NoNews(t, q),
           NEW replayed, Replays(t, q, replayed)
    PROVE  BringsNothing(t)
<1>1. Command("validation", "show", revision) \in Commands
  BY DEF Command, Commands, Awaiters, Calls, PageTypes
<1>2. CASE revision # replayed /\ ~aborted
  BY <1>1, <1>2, SendsBringsNothing DEF Replays
<1>3. CASE ~(revision # replayed /\ ~aborted)
  BY <1>3, ConsumesBringsNothing DEF Replays, Moves
<1>. QED  BY <1>2, <1>3

LEMMA ContinuesBringsNothing ==
    ASSUME PageTypes, SessionInv, NEW t \in Targets, NEW q, NoNews(t, q),
           NEW command, NEW outcome, Continues(t, q, command, outcome)
    PROVE  BringsNothing(t)
<1>1. CASE Consumes(t, q)
  BY <1>1, ConsumesBringsNothing DEF Consumes
<1>2. CASE Revalidates(t, q)
  BY <1>2, RevalidatesBringsNothing
<1>3. CASE \E ignore, unclean : Ends(t, ignore, unclean)
  BY <1>3, EndsBringsNothing
<1>4. CASE \E replayed : Replays(t, q, replayed)
  BY <1>4, ReplaysBringsNothing
<1>5. CASE Sends(t, q, Command("validation", "bootstrap", 0), "bootstrapping")
  <2>1. Command("validation", "bootstrap", 0) \in Commands
    BY MaxRevisionAssumption DEF Command, Commands, Awaiters, Calls, Revisions
  <2>. QED  BY <1>5, <2>1, SendsBringsNothing
<1>6. Probed(t, q, outcome) =>
        \/ Sends(t, q, Command("validation", "bootstrap", 0), "bootstrapping")
        \/ Revalidates(t, q)
  BY DEF Probed
<1>7. Bootstrapped(t, q, outcome) =>
        Consumes(t, q) \/ Replays(t, q, 0) \/ Ends(t, TRUE, TRUE)
  BY DEF Bootstrapped, Ignores
<1>8. Replayed(t, q, outcome, command.revision) =>
        \/ Replays(t, q, command.revision) \/ Revalidates(t, q) \/ Consumes(t, q)
        \/ Ends(t, TRUE, TRUE)
  BY DEF Replayed, Ignores
<1>9. Updated(t, q, command.by, outcome) => Revalidates(t, q) \/ Consumes(t, q)
  BY DEF Updated
<1>. QED  BY <1>1, <1>2, <1>3, <1>4, <1>5, <1>6, <1>7, <1>8, <1>9 DEF Continues

(* The session as it is, and without its first message.                    *)
LEMMA SessionHasNoNews ==
    ASSUME Inv, PagesOk, NEW t \in Targets
    PROVE  NoNews(t, session[t])
BY DEF NoNews, Inv, SessionInv, PagesOk, PageOk

LEMMA RestOfSessionHasNoNews ==
    ASSUME Inv, PagesOk, NEW t \in Targets, session[t].wire # <<>>
    PROVE  NoNews(t, [session[t] EXCEPT !.wire = Tail(@)])
<1>. DEFINE q == [session[t] EXCEPT !.wire = Tail(@)]
<1>1. /\ q.wire \in Seq(Heard) /\ IsSession(t, q)
      /\ Messages(q.wire) \subseteq Messages(session[t].wire)
  BY FirstMessage
<1>. HIDE DEF q
<1>2. NoNews(t, q)
  BY <1>1 DEF NoNews
<1>. QED  BY <1>2 DEF q

LEMMA RestKept ==
    ASSUME RestInv, NEW t \in Targets, BringsNothing(t), UNCHANGED browserVars,
           UNCHANGED <<loop, started, list, failures, aborted, stopping>>,
           UNCHANGED troubles \/ Trouble,
           known' \in [Targets -> Versions]
    PROVE  RestInv'
<1>1. troubles' \in 0..MaxTroubles /\ troubles <= troubles' /\ troubles \in Nat /\ troubles' \in Nat
  BY MaxTroublesAssumption DEF RestInv, Trouble
<1>2. \A u \in Targets : url'[u] <= troubles'
  BY <1>1 DEF RestInv, browserVars
<1>3. \A u \in Targets : Dated(u)'
  BY DEF RestInv, BringsNothing, Dated
<1>. QED  BY <1>1, <1>2, <1>3 DEF RestInv, browserVars, BringsNothing

LEMMA PageStepRest ==
    ASSUME Inv, PagesOk, RestInv, NEW t \in Targets, PageSteps(t)
    PROVE  RestInv'
<1>0. known \in [Targets -> Versions] /\ PageTypes /\ SessionInv
  BY DEF RestInv, Inv
<1>. DEFINE q == [session[t] EXCEPT !.wire = Tail(@)]
<1>1. CASE HandleAnswer(t)
  <2>1. /\ session[t].wire # <<>>
        /\ Continues(t, q, Head(session[t].wire), Head(session[t].wire).outcome)
    BY <1>1 DEF HandleAnswer
  <2>2. NoNews(t, q)
    BY <2>1, RestOfSessionHasNoNews
  <2>. HIDE DEF q
  <2>3. BringsNothing(t)
    BY <1>0, <2>1, <2>2, ContinuesBringsNothing
  <2>. QED  BY <1>0, <1>1, <2>3, RestKept DEF HandleAnswer, loopVars
<1>2. CASE HandleNavigation(t)
  <2>. DEFINE m == Head(session[t].wire)
  <2>1. /\ session[t].wire # <<>> /\ m.by = "browser" /\ Revalidates(t, q)
        /\ known' = [known EXCEPT ![t] = m.version]
    BY <1>2 DEF HandleNavigation
  <2>2. NoNews(t, q) /\ m \in Messages(session[t].wire)
    BY <2>1, RestOfSessionHasNoNews, FirstMessage
  <2>3. m.version \in Versions
    BY <2>1, <2>2 DEF RestInv, Dated
  <2>. HIDE DEF q, m
  <2>4. BringsNothing(t)
    BY <1>0, <2>1, <2>2, RevalidatesBringsNothing
  <2>5. known' \in [Targets -> Versions]
    BY <1>0, <2>1, <2>3
  <2>. QED  BY <1>2, <2>4, <2>5, RestKept DEF HandleNavigation, loopVars
<1>3. CASE TimesOut(t)
  <2>1. PICK i \in DOMAIN session[t].sent :
          Continues(t, [session[t] EXCEPT !.sent[i].by = "nobody"], session[t].sent[i], "error")
    BY <1>3, TimesOutExpires
  <2>. DEFINE p == [session[t] EXCEPT !.sent[i].by = "nobody"]
  <2>2. IsSession(t, p) /\ p.wire = session[t].wire
    BY TimedOutSession
  <2>3. Continues(t, p, session[t].sent[i], "error")
    BY <2>1
  <2>. HIDE DEF p
  <2>4. NoNews(t, p)
    BY <2>2 DEF NoNews, PagesOk, PageOk
  <2>5. BringsNothing(t)
    BY <1>0, <2>3, <2>4, ContinuesBringsNothing
  <2>. QED  BY <1>0, <1>3, <2>5, RestKept, TimesOutExpires DEF loopVars
<1>4. CASE SessionLost(t) \/ ConnectFails(t)
  <2>1. \E ignore : Ends(t, ignore, TRUE)
    BY <1>4 DEF SessionLost, ConnectFails, Ignores
  <2>2. BringsNothing(t)
    BY <1>0, <2>1, EndsBringsNothing
  <2>. QED  BY <1>0, <1>4, <2>2, RestKept DEF SessionLost, ConnectFails, loopVars
<1>5. CASE SettleElapses(t)
  <2>1. Command("validation", "probe", 0) \in Commands
    BY MaxRevisionAssumption DEF Command, Commands, Awaiters, Calls, Revisions
  <2>2. BringsNothing(t)
    BY <1>0, <1>5, <2>1, SessionHasNoNews, SendsBringsNothing DEF SettleElapses
  <2>. QED  BY <1>0, <1>5, <2>2, RestKept DEF SettleElapses, loopVars
<1>6. CASE Connects(t)
  <2>1. session' = [session EXCEPT ![t] = Superseded(session[t])] /\ UNCHANGED <<ignored, orphan>>
    BY <1>6 DEF Connects
  <2>2. BringsNothing(t)
    BY <1>0, <2>1, SessionHasNoNews, SupersedesBringsNothing
  <2>. QED  BY <1>0, <1>6, <2>2, RestKept DEF Connects, loopVars, bridgeVars
<1>7. CASE IgnoredRetryElapses(t)
  BY <1>7 DEF IgnoredRetryElapses, RestInv, Dated, browserVars, loopVars, bridgeVars
<1>. QED  BY <1>1, <1>2, <1>3, <1>4, <1>5, <1>6, <1>7 DEF PageSteps

LEMMA RemovePageBringsNothing ==
    ASSUME Inv, PagesOk, NEW t \in Targets, RemovePage(t)
    PROVE  BringsNothing(t)
<1>1. SessionInv /\ NoNews(t, session[t])
  BY SessionHasNoNews DEF Inv
<1>2. CASE Active(t)
  <2>. DEFINE q == Superseded(session[t])
  <2>1. Command("removal", "cleanup", 0) \in Commands
    BY MaxRevisionAssumption DEF Command, Commands, Awaiters, Calls, Revisions
  <2>2. NoNews(t, q)
    <3>1. IsSession(t, q)
      BY <1>1, SupersededIsSession DEF NoNews
    <3>2. q.wire \in Seq(Heard)
      BY <1>1, SupersededMessages DEF NoNews, IsSession
    <3>3. \A m \in Messages(q.wire) : m.by = "browser" => m \in Messages(session[t].wire)
      BY <1>1, SupersededBringsNothing DEF NoNews
    <3>. HIDE DEF q
    <3>. QED  BY <3>1, <3>2, <3>3 DEF NoNews
  <2>3. Sends(t, q, Command("removal", "cleanup", 0), "removing")
    BY <1>2 DEF RemovePage
  <2>. HIDE DEF q
  <2>. QED  BY <1>1, <2>1, <2>2, <2>3, SendsBringsNothing
<1>3. CASE ~ Active(t)
  BY <1>1, <1>3, EndsBringsNothing DEF RemovePage
<1>. QED  BY <1>2, <1>3

LEMMA SyncingRest ==
    ASSUME Inv, PagesOk, RestInv, NEW t \in Targets, Syncing(t)
    PROVE  RestInv'
<1>0. /\ known \in [Targets -> Versions] /\ list \in [Targets -> Versions \cup {MaxTroubles + 1}]
      /\ SessionInv /\ PageTypes /\ NoNews(t, session[t])
  BY SessionHasNoNews DEF RestInv, Inv
<1>1. /\ UNCHANGED browserVars
      /\ UNCHANGED <<loop, started, list, failures, aborted, stopping, troubles>>
  BY DEF Syncing, SyncRemoves, SyncFindsPage, SyncAddsPage, SyncSkipsIgnored, SyncsListed,
         Handles, ClosesPage, loopVars
<1>2. CASE (SyncRemoves(t) /\ Tracked(t)) \/ ClosesPage(t)
  <2>1. RemovePage(t) /\ UNCHANGED known
    BY <1>2 DEF SyncRemoves, ClosesPage
  <2>2. BringsNothing(t)
    BY <2>1, RemovePageBringsNothing
  <2>. QED  BY <1>0, <1>1, <2>1, <2>2, RestKept
<1>3. CASE SyncSkipsIgnored(t) \/ (SyncRemoves(t) /\ ~ Tracked(t))
  BY <1>1, <1>3 DEF SyncSkipsIgnored, SyncRemoves, RestInv, Dated, browserVars
<1>4. ASSUME SyncsListed(t), known' = [known EXCEPT ![t] = list[t]]
      PROVE  known' \in [Targets -> Versions]
  <2>1. list[t] \in Versions
    BY <1>0, <1>4 DEF SyncsListed, Handles, Unlisted
  <2>. QED  BY <1>0, <1>4, <2>1
<1>5. CASE SyncFindsPage(t)
  <2>1. known' \in [Targets -> Versions]
    BY <1>4, <1>5 DEF SyncFindsPage
  <2>2. \/ Consumes(t, session[t])
        \/ Sends(t, session[t], Command("route", "present", 0), stage[t])
        \/ Revalidates(t, session[t])
    BY <1>5 DEF SyncFindsPage
  <2>3. Command("route", "present", 0) \in Commands
    BY MaxRevisionAssumption DEF Command, Commands, Awaiters, Calls, Revisions
  <2>4. BringsNothing(t)
    BY <1>0, <2>2, <2>3, ConsumesBringsNothing, SendsBringsNothing, RevalidatesBringsNothing
       DEF Consumes
  <2>. QED  BY <1>1, <2>1, <2>4, RestKept
<1>6. CASE SyncAddsPage(t)
  <2>1. known' \in [Targets -> Versions]
    BY <1>4, <1>6 DEF SyncAddsPage
  <2>. QED  BY <1>1, <1>6, <2>1 DEF SyncAddsPage, RestInv, Dated, browserVars
<1>. QED  BY <1>2, <1>3, <1>5, <1>6 DEF Syncing

LEMMA LoopRest ==
    ASSUME Inv, RestInv, Loop \/ AnchorLost
    PROVE  RestInv'
<1>1. UNCHANGED <<target, url, session, known, orphan, stopping>>
  BY DEF Loop, AnchorLost, ListingReturns, SyncEnds, PollElapses, ClosingEnds, ListingFails,
         browserVars, pageVars, bridgeVars
<1>2. \A t \in Targets : Dated(t)'
  BY <1>1 DEF RestInv, Dated
<1>3. ASSUME UNCHANGED troubles \/ Trouble
      PROVE  troubles' \in 0..MaxTroubles /\ \A t \in Targets : url'[t] <= troubles'
  BY <1>1, <1>3, MaxTroublesAssumption DEF RestInv, Trouble
<1>4. CASE ListingReturns
  <2>1. /\ list' = [t \in Targets |-> IF target[t] = "open" THEN url[t] ELSE Unlisted]
        /\ ignored' \subseteq ignored /\ loop' = "syncing"
        /\ UNCHANGED <<started, failures, aborted, troubles>>
    BY <1>4 DEF ListingReturns
  <2>2. /\ \A t \in Targets : url[t] \in Nat /\ url[t] <= troubles
        /\ troubles \in Nat /\ troubles <= MaxTroubles
    BY MaxTroublesAssumption DEF RestInv
  <2>3. \A t \in Targets : url[t] \in Versions
    <3>1. \A n \in Nat : n <= troubles => n \in Versions
      BY <2>2, MaxTroublesAssumption DEF Versions
    <3>. QED  BY <2>2, <3>1
  <2>4. list' \in [Targets -> Versions \cup {MaxTroubles + 1}]
    BY <2>1, <2>3 DEF Unlisted
  <2>. QED  BY <1>1, <1>2, <1>3, <2>1, <2>4 DEF RestInv
<1>5. CASE SyncEnds
  <2>1. /\ list' = [t \in Targets |-> Unlisted] /\ failures' = 0 /\ loop' = "delay"
        /\ started' = TRUE /\ UNCHANGED <<ignored, aborted, troubles>>
    BY <1>5 DEF SyncEnds, pageVars
  <2>2. list' \in [Targets -> Versions \cup {MaxTroubles + 1}] /\ failures' \in 0..MaxFailures
    BY <2>1, MaxFailuresAssumption DEF Unlisted
  <2>. QED  BY <1>1, <1>2, <1>3, <2>1, <2>2 DEF RestInv
<1>6. CASE PollElapses \/ ClosingEnds
  <2>1. /\ loop' \in {"delay", "listing", "syncing", "closing", "closed"}
        /\ ignored' \subseteq ignored /\ UNCHANGED <<started, list, failures, aborted, troubles>>
    BY <1>6 DEF PollElapses, ClosingEnds, pageVars
  <2>. QED  BY <1>1, <1>2, <1>3, <2>1 DEF RestInv
<1>7. ASSUME NEW terminal \in BOOLEAN, ListingFails(terminal)
      PROVE  RestInv'
  <2>1. /\ loop' \in {"delay", "closing"} /\ aborted' \in BOOLEAN
        /\ UNCHANGED <<ignored, started, list>> /\ Trouble
        /\ failures' = failures \/ (failures # MaxFailures /\ failures' = failures + 1)
    BY <1>7 DEF ListingFails, pageVars, RestInv
  <2>2. failures' \in 0..MaxFailures
    BY <2>1, MaxFailuresAssumption DEF RestInv
  <2>. QED  BY <1>1, <1>2, <1>3, <2>1, <2>2 DEF RestInv
<1>8. CASE AnchorLost
  <2>1. /\ aborted' = TRUE /\ UNCHANGED <<ignored, loop, started, list, failures>> /\ Trouble
    BY <1>8 DEF AnchorLost, pageVars, loopVars
  <2>. QED  BY <1>1, <1>2, <1>3, <2>1 DEF RestInv
<1>. QED  BY <1>4, <1>5, <1>6, <1>7, <1>8 DEF Loop

LEMMA BridgeRest ==
    ASSUME Inv, RestInv, Bridge
    PROVE  RestInv'
<1>1. ASSUME NEW caller \in Callers, EvaluatesNext(caller), NEW u \in Targets
      PROVE  session'[u].wire = session[u].wire
  <2>1. PICK t \in Targets :
            session' = IF Active(t)
                       THEN [session EXCEPT ![t].sent =
                               Append(@, Command(caller, runs[caller].does, revision))]
                       ELSE session
    <3>1. runs[caller].left \subseteq Targets
      BY DEF Inv, PageTypes
    <3>. QED  BY <1>1, <3>1, Zenon DEF EvaluatesNext
  <2>. DEFINE command == Command(caller, runs[caller].does, revision)
              more == Append(session[t].sent, command)
  <2>2. session = [v \in Targets |-> session[v]]
        /\ session[t] = [sent |-> session[t].sent, wire |-> session[t].wire]
    BY DEF Inv, SessionInv, IsSession
  <2>3. [session EXCEPT ![t].sent = Append(@, command)] = [session EXCEPT ![t].sent = more]
    BY Zenon
  <2>4. session' = [session EXCEPT ![t].sent = more] \/ session' = session
    BY <2>1, <2>3
  <2>. HIDE DEF command, more
  <2>5. \A a, b : [[sent |-> a, wire |-> b] EXCEPT !.sent = more] = [sent |-> more, wire |-> b]
    OBVIOUS
  <2>6. [session EXCEPT ![t].sent = more] = [session EXCEPT ![t] = [sent |-> more, wire |-> session[t].wire]]
    BY <2>2, <2>5
  <2>. QED  BY <2>2, <2>4, <2>6
<1>2. \A t \in Targets : session'[t].wire = session[t].wire
  BY <1>1 DEF Bridge, Publish, Heartbeat, Cleanup, EvaluateAllEnds
<1>3. \A t \in Targets : Dated(t)'
  BY <1>2 DEF RestInv, Dated
<1>4. /\ UNCHANGED <<target, url, known, ignored, orphan, loop, started, list, failures, troubles>>
      /\ aborted' \in BOOLEAN /\ stopping' \in BOOLEAN
  BY DEF Bridge, Publish, Heartbeat, Cleanup, EvaluatesNext, EvaluateAllEnds, RestInv,
         browserVars, pageVars, loopVars
<1>. QED  BY <1>3, <1>4 DEF RestInv

LEMMA PageEvaluatesRest ==
    ASSUME Inv, PagesOk, RestInv, NEW t \in Targets, PageEvaluates(t)
    PROVE  \A u \in Targets : Dated(u)'
<1>. DEFINE s == session[t].sent
            w == session[t].wire
            command == Head(s)
            answer == Answer(command, IF Finds(doc[t], command.does) THEN "done" ELSE "skipped")
            v == IF Awaited(answer) THEN Append(w, answer) ELSE w
<1>1. s # <<>> /\ s \in Seq(Commands) /\ w \in Seq(Heard)
  BY DEF PageEvaluates, Inv, SessionInv, IsSession, PagesOk, PageOk
<1>2. session'[t].wire = v /\ \A u \in Targets : u # t => session'[u] = session[u]
  BY DEF PageEvaluates, Inv, SessionInv
<1>3. command \in Commands
  BY <1>1, TailMessages
<1>. HIDE DEF command, s, w
<1>4. answer \in Heard /\ answer.by # "browser"
  BY <1>3 DEF Answer, Heard, Answers, Commands, Awaiters, Callers
<1>. HIDE DEF answer
<1>5. Messages(v) \subseteq Messages(w) \cup {answer}
  BY <1>1, <1>4, AppendMessages
<1>. HIDE DEF v
<1>6. Dated(t)'
  BY <1>2, <1>4, <1>5 DEF RestInv, Dated, w
<1>. QED  BY <1>2, <1>6 DEF RestInv, Dated

LEMMA NavigatesRest ==
    ASSUME Inv, PagesOk, RestInv, NEW t \in Targets, Navigates(t)
    PROVE  \A u \in Targets : Dated(u)'
<1>1. url[t] + 1 \in Versions
  BY MaxTroublesAssumption DEF Navigates, Trouble, RestInv, Versions
<1>2. CASE stage[t] \in {"untracked", "connecting"} /\ session[t] = Silent
  BY <1>2 DEF Navigates, RestInv, Dated
<1>3. CASE ~ (stage[t] \in {"untracked", "connecting"} /\ session[t] = Silent)
  <2>. DEFINE event == [by |-> "browser", version |-> url[t] + 1]
  <2>1. /\ \A m \in Messages(session'[t].wire) :
              m = event \/ m \in Messages(session[t].wire) \/ m.by # "browser"
        /\ \A u \in Targets : u # t => session'[u] = session[u]
    BY <1>3, NavigatedSession
  <2>2. event.version = url[t] + 1
    OBVIOUS
  <2>. HIDE DEF event
  <2>. QED  BY <1>1, <2>1, <2>2 DEF RestInv, Dated
<1>. QED  BY <1>2, <1>3

LEMMA BrowserRest ==
    ASSUME Inv, PagesOk, RestInv, NEW t \in Targets, Browser(t)
    PROVE  RestInv'
<1>1. UNCHANGED <<known, ignored, orphan, loop, started, list, failures, aborted, stopping>>
  BY DEF Browser, PageEvaluates, Navigates, ChangesRoute, TargetOpens, TargetCloses,
         pageVars, loopVars, bridgeVars
<1>2. \A u \in Targets : Dated(u)'
  <2>1. CASE ChangesRoute(t) \/ TargetOpens(t) \/ TargetCloses(t)
    BY <2>1 DEF ChangesRoute, TargetOpens, TargetCloses, RestInv, Dated
  <2>. QED  BY <2>1, PageEvaluatesRest, NavigatesRest DEF Browser
<1>3. target' \in [Targets -> {"unborn", "open", "gone"}]
  BY DEF Browser, PageEvaluates, Navigates, ChangesRoute, TargetOpens, TargetCloses, RestInv
<1>4. troubles' \in 0..MaxTroubles /\ url' \in [Targets -> Nat]
      /\ \A u \in Targets : url'[u] <= troubles'
  <2>1. /\ url \in [Targets -> Nat] /\ troubles \in 0..MaxTroubles
        /\ \A u \in Targets : url[u] <= troubles
    BY DEF RestInv
  <2>2. CASE UNCHANGED url /\ (UNCHANGED troubles \/ Trouble)
    BY <2>1, <2>2, MaxTroublesAssumption DEF Trouble
  <2>3. CASE Trouble /\ url' = [url EXCEPT ![t] = @ + 1]
    BY <2>1, <2>3, MaxTroublesAssumption DEF Trouble
  <2>. QED  BY <2>2, <2>3
            DEF Browser, PageEvaluates, Navigates, ChangesRoute, TargetOpens, TargetCloses
<1>. QED  BY <1>1, <1>2, <1>3, <1>4 DEF RestInv

LEMMA InitRest == Init => RestInv
<1>. SUFFICES ASSUME Init PROVE RestInv
  OBVIOUS
<1>1. \A t \in Targets : Dated(t)
  BY DEF Init, Dated, Messages, Silent
<1>2. /\ url \in [Targets -> Nat] /\ \A t \in Targets : url[t] <= troubles
      /\ known \in [Targets -> Versions] /\ list \in [Targets -> Versions \cup {MaxTroubles + 1}]
      /\ failures \in 0..MaxFailures /\ troubles \in 0..MaxTroubles
  BY MaxTroublesAssumption, MaxFailuresAssumption DEF Init, Versions, Unlisted
<1>3. target \in [Targets -> {"unborn", "open", "gone"}]
  BY DEF Init
<1>. QED  BY <1>1, <1>2, <1>3 DEF Init, RestInv

LEMMA NextRest == Inv /\ PagesOk /\ RestInv /\ [Next]_vars => RestInv'
<1>. SUFFICES ASSUME Inv, PagesOk, RestInv, [Next]_vars PROVE RestInv'
  OBVIOUS
<1>1. CASE UNCHANGED vars
  BY <1>1 DEF vars, browserVars, pageVars, loopVars, bridgeVars, RestInv, Dated
<1>2. CASE \E t \in Targets : PageSteps(t) \/ Syncing(t) \/ Browser(t)
  BY <1>2, PageStepRest, SyncingRest, BrowserRest
<1>3. CASE Loop \/ Bridge \/ AnchorLost
  BY <1>3, LoopRest, BridgeRest
<1>. QED  BY <1>1, <1>2, <1>3 DEF Next

(* Every state of the watcher, its sessions and their pages has the types  *)
(* of TypeOK: what its sessions bring back are answers to its commands and *)
(* navigations, whose versions no listing runs ahead of.                   *)
THEOREM TypeCorrect == Spec => []TypeOK
<1>1. Inv /\ PagesOk /\ RestInv /\ [Next]_vars => RestInv'
  BY NextRest
<1>2. Inv /\ PagesOk /\ RestInv => TypeOK
  BY TypesOfAll
<1>. QED  BY InitRest, <1>1, <1>2, PagesOkHolds, Invariance, PTL DEF Spec

=============================================================================
