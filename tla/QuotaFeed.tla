----------------------------- MODULE QuotaFeed -----------------------------
(***************************************************************************)
(* What the quota refresher promises to the code around it, without saying *)
(* how.  Somebody asks for fresh figures (the app-server announced a       *)
(* change); a later read of the provider answers the request; what is read *)
(* is published, or, when nothing can be read, unavailability is reported. *)
(*                                                                         *)
(* QuotaCoordinator implements this specification.                         *)
(***************************************************************************)

VARIABLES
    owed,      \* a change was announced that no read begun since covers
    activity,  \* what the one worker of the feed is doing
    shown,     \* what the consumer was last told
    closed     \* the feed has been shut down

vars == <<owed, activity, shown, closed>>

TypeOK ==
    /\ owed \in BOOLEAN
    /\ activity \in {"idle", "reading", "publishing", "reporting"}
    /\ shown \in {"nothing", "snapshot", "unavailable"}
    /\ closed \in BOOLEAN

Init ==
    /\ owed = FALSE
    /\ activity = "idle"
    /\ shown = "nothing"
    /\ closed = FALSE

-----------------------------------------------------------------------------

Ask ==
    /\ ~closed
    /\ owed' = TRUE
    /\ UNCHANGED <<activity, shown, closed>>

(* A read answers every request made before it began, none made later.     *)
BeginRead ==
    /\ ~closed
    /\ activity = "idle"
    /\ activity' = "reading"
    /\ owed' = FALSE
    /\ UNCHANGED <<shown, closed>>

(* The outcome of a read is published, reported or dropped.                *)
EndRead ==
    /\ activity = "reading"
    /\ \/ activity' \in {"publishing", "idle"}
       \/ activity' = "reporting" /\ shown # "unavailable"
    /\ UNCHANGED <<owed, shown, closed>>

(* A publication that fails may still turn into a report.                  *)
EndPublish ==
    /\ activity = "publishing"
    /\ \/ activity' = "idle" /\ shown' \in {"snapshot", shown}
       \/ activity' = "reporting" /\ shown # "unavailable" /\ UNCHANGED shown
    /\ UNCHANGED <<owed, closed>>

EndReport ==
    /\ activity = "reporting"
    /\ activity' = "idle"
    /\ shown' \in {"unavailable", shown}
    /\ UNCHANGED <<owed, closed>>

Close ==
    /\ activity = "idle"
    /\ closed' = TRUE
    /\ UNCHANGED <<owed, activity, shown>>

Work == EndRead \/ EndPublish \/ EndReport

Next == Ask \/ BeginRead \/ Work \/ Close

(* The worker never rests on a request, and never stays in one activity.   *)
Spec ==
    /\ Init
    /\ [][Next]_vars
    /\ WF_vars(Work)
    /\ WF_vars(owed /\ BeginRead)

=============================================================================
