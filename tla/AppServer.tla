----------------------------- MODULE AppServer ------------------------------
(***************************************************************************)
(* AppServerQuotaProvider (src/app-server/provider.mjs) over its           *)
(* AppServerClient (src/app-server/client.mjs), and the Codex app-server   *)
(* they run as a child process: the life of one provider.                  *)
(*                                                                         *)
(* Its user is the coordinator, which starts it once, reads when nothing   *)
(* else is being read, and closes it once its start is over.               *)
(*                                                                         *)
(* The event loop: a callback runs first (a chunk of the child's output,   *)
(* message by message; a timer; an event of the child), then whatever      *)
(* awaits a promise that the callback has settled, and only then the next  *)
(* callback.  What the client refuses or ignores, but for late answers,    *)
(* is left out.                                                            *)
(***************************************************************************)
EXTENDS Naturals, Sequences

CONSTANTS
    Reads,    \* bound: as many reads as are pending, or owed an answer, at once
    MaxOutput \* bound: messages in the pipe

ASSUME ReadsAssumption == {"initialize", "account"} \cap Reads = {} /\ "none" \notin Reads
ASSUME MaxOutputAssumption == MaxOutput \in Nat

VARIABLES
    call,        \* the coordinator's use of the provider
    started, listening, closing, \* of the provider
    awaits,      \* the await that start() or close() stands at
    initialized, closed, closeEmitted, \* of the client
    request,     \* #pending, and what its requests have come to
    grace,       \* the race of client.close() between the child and the timer
    child, stdinEnded, killed,
    asked,       \* what the child has been asked and has not answered
    output,      \* the pipe from the child
    chunk,       \* the rest of the output that is being handled
    lastEvent,   \* history: the provider's last event
    protocolError, \* history: the client has closed over what the child sent
    unheard      \* history: it has done so right behind the account's answer

providerVars == <<call, started, listening, closing, awaits>>
clientVars == <<initialized, closed, closeEmitted, request, grace>>
childVars == <<child, stdinEnded, killed, asked, output>>
historyVars == <<lastEvent, protocolError, unheard>>
vars == <<providerVars, clientVars, childVars, chunk, historyVars>>

-----------------------------------------------------------------------------

Requests == {"initialize", "account"} \cup Reads
Answers == {"resolved", "refused", "rejected"}

(* An answer says what it resolves to, or that it is an error, or of a     *)
(* shape that is refused (for the account: not ChatGPT's).                 *)
Messages == [what : Answers \cup {"changed", "garbage", "oversized"},
             of : Requests \cup {"none"}]

TypeOK ==
    /\ call \in {"none", "starting", "failed", "up", "closing", "closed"}
    /\ started \in BOOLEAN /\ listening \in BOOLEAN /\ closing \in BOOLEAN
    /\ awaits \in {"nothing", "initialize", "account", "close"}
    /\ initialized \in BOOLEAN /\ closed \in BOOLEAN /\ closeEmitted \in BOOLEAN
    /\ request \in [Requests -> {"unsent", "pending"} \cup Answers \cup {"done"}]
    /\ grace \in {"none", "waiting", "over"}
    /\ child \in {"unborn", "running", "exited", "closed"}
    /\ stdinEnded \in BOOLEAN /\ killed \in BOOLEAN
    /\ asked \subseteq Requests
    /\ output \in Seq(Messages)
    /\ chunk \in Seq(Messages)
    /\ lastEvent \in {"none", "changed", "closed"}
    /\ protocolError \in BOOLEAN /\ unheard \in BOOLEAN

Init ==
    /\ call = "none"
    /\ started = FALSE /\ listening = FALSE /\ closing = FALSE
    /\ awaits = "nothing"
    /\ initialized = FALSE /\ closed = FALSE /\ closeEmitted = FALSE
    /\ request = [r \in Requests |-> "unsent"]
    /\ grace = "none"
    /\ child = "unborn"
    /\ stdinEnded = FALSE /\ killed = FALSE
    /\ asked = {}
    /\ output = <<>>
    /\ chunk = <<>>
    /\ lastEvent = "none"
    /\ protocolError = FALSE /\ unheard = FALSE

Settled(r) == request[r] \in Answers

(* A promise is settled, and what awaits it has not run.                   *)
ContinuationDue ==
    \/ awaits \in {"initialize", "account"} /\ Settled(awaits)
    \/ grace = "over"
    \/ \E r \in Reads : Settled(r)

(* The next callback may run.                                              *)
Idle == chunk = <<>> /\ ~ContinuationDue

-----------------------------------------------------------------------------
(* The client.                                                             *)

Send(r) ==
    /\ request' = [request EXCEPT ![r] = "pending"]
    /\ asked' = asked \cup {r}

(* Faulty: what is pending stays pending.                                  *)
NoneRejected == request

AllRejected == [r \in Requests |-> IF request[r] = "pending" THEN "rejected" ELSE request[r]]

(* Faulty: the provider stops, and tells nobody.                           *)
StopsSilently == started' = FALSE /\ UNCHANGED lastEvent

(* The provider's listener for the client's "close".                       *)
OnClientClose ==
    IF started /\ ~closing
    THEN started' = FALSE /\ lastEvent' = "closed"
    ELSE UNCHANGED <<started, lastEvent>>

(* #handleClosed.                                                          *)
HandleClosed ==
    IF closeEmitted
    THEN UNCHANGED <<initialized, closed, closeEmitted, request, started, lastEvent>>
    ELSE /\ closeEmitted' = TRUE
         /\ closed' = TRUE
         /\ initialized' = FALSE
         /\ request' = AllRejected
         /\ OnClientClose

(* close(), up to its await: nothing is left to do for a client that has   *)
(* closed, and nothing to wait for if there is no child.                   *)
CloseReturnsAtOnce == closed /\ closeEmitted

CloseBegins ==
    /\ closed' = TRUE
    /\ initialized' = FALSE
    /\ request' = AllRejected
    /\ stdinEnded' = TRUE
    /\ grace' = IF child = "running" THEN "waiting" ELSE "over"

(* Faulty: the child is waited for without a limit.                        *)
NoGrace == FALSE

GraceElapses ==
    /\ Idle
    /\ grace = "waiting"
    /\ grace' = "over"
    /\ UNCHANGED <<providerVars, initialized, closed, closeEmitted, request, childVars, chunk,
                   historyVars>>

(* Faulty: a child that outlives the grace is left alone.                  *)
NotKilled == killed

KilledIfAlive == killed \/ child = "running"

(* The rest of close(), and of the start() or close() that awaits it.      *)
CloseEnds ==
    /\ chunk = <<>>
    /\ grace = "over"
    /\ grace' = "none"
    /\ killed' = KilledIfAlive
    /\ closeEmitted' = TRUE
    /\ IF closeEmitted THEN UNCHANGED <<started, lastEvent>> ELSE OnClientClose
    /\ awaits' = "nothing"
    /\ call' = IF call = "closing" THEN "closed" ELSE "failed"
    /\ closing' = FALSE
    /\ UNCHANGED <<listening, initialized, closed, request, child, stdinEnded, asked, output,
                   chunk, protocolError, unheard>>

(* The timer of a request, and the error of its write.                     *)
Timeout(r) ==
    /\ Idle
    /\ request[r] = "pending"
    /\ request' = [request EXCEPT ![r] = "rejected"]
    /\ UNCHANGED <<providerVars, initialized, closed, closeEmitted, grace, childVars, chunk,
                   historyVars>>

WriteFails(r) ==
    /\ Idle
    /\ r \in asked /\ child \in {"exited", "closed"}
    /\ asked' = asked \ {r}
    /\ request' = IF request[r] = "pending" THEN [request EXCEPT ![r] = "rejected"] ELSE request
    /\ UNCHANGED <<providerVars, initialized, closed, closeEmitted, grace, child, stdinEnded,
                   killed, output, chunk, historyVars>>

-----------------------------------------------------------------------------
(* The provider.                                                           *)

(* start(): the child is spawned and asked to initialize, or the spawn     *)
(* throws.                                                                 *)
Start ==
    /\ Idle
    /\ call = "none"
    /\ \/ /\ call' = "starting"
          /\ awaits' = "initialize"
          /\ child' = "running"
          /\ Send("initialize")
          /\ UNCHANGED <<closed, closeEmitted>>
       \/ /\ call' = "failed"
          /\ closed' = TRUE /\ closeEmitted' = TRUE
          /\ UNCHANGED <<awaits, child, request, asked>>
    /\ UNCHANGED <<started, listening, closing, initialized, grace, stdinEnded, killed, output,
                   chunk, historyVars>>

(* start() fails: the client is closed, by itself or by the provider.      *)
StartFails ==
    /\ IF CloseReturnsAtOnce
       THEN /\ awaits' = "nothing" /\ call' = "failed"
            /\ UNCHANGED <<closed, initialized, request, stdinEnded, grace>>
       ELSE /\ awaits' = "close"
            /\ CloseBegins
            /\ UNCHANGED call
    /\ UNCHANGED <<started, listening, closing, closeEmitted, asked>>

(* After the initialize: the account is read.                              *)
StartInitialized ==
    /\ chunk = <<>>
    /\ awaits = "initialize" /\ Settled("initialize")
    /\ IF request["initialize"] = "resolved" /\ ~closed
       THEN /\ initialized' = TRUE
            /\ awaits' = "account"
            /\ Send("account")
            /\ UNCHANGED <<call, started, listening, closing, closed, closeEmitted, stdinEnded,
                           grace>>
       ELSE StartFails
    /\ UNCHANGED <<child, killed, output, chunk, historyVars>>

(* After the account: the provider listens, and has started.               *)
StartReads ==
    /\ chunk = <<>>
    /\ awaits = "account" /\ Settled("account")
    /\ IF request["account"] = "resolved"
       THEN /\ listening' = TRUE
            /\ started' = TRUE
            /\ awaits' = "nothing"
            /\ call' = "up"
            /\ UNCHANGED <<closing, initialized, closed, closeEmitted, request, asked, stdinEnded,
                           grace>>
       ELSE StartFails
    /\ UNCHANGED <<child, killed, output, chunk, historyVars>>

(* read(): the request is sent.  A read of a provider that has not         *)
(* started, or whose client has closed, throws, and changes nothing.       *)
Read(r) ==
    /\ Idle
    /\ call = "up" /\ started
    /\ initialized /\ ~closed
    /\ request[r] = "unsent" /\ \A s \in Reads : request[s] # "pending"
    /\ Send(r)
    /\ UNCHANGED <<providerVars, initialized, closed, closeEmitted, grace, child, stdinEnded,
                   killed, output, chunk, historyVars>>

ReadReturns(r) ==
    /\ chunk = <<>>
    /\ Settled(r)
    /\ request' = [request EXCEPT ![r] = "done"]
    /\ UNCHANGED <<providerVars, initialized, closed, closeEmitted, grace, childVars, chunk,
                   historyVars>>

(* Nobody will answer a read any more: its name may stand for the next.    *)
ReadForgotten(r) ==
    /\ Idle
    /\ request[r] = "done"
    /\ r \notin asked /\ \A i \in DOMAIN output : output[i].of # r
    /\ request' = [request EXCEPT ![r] = "unsent"]
    /\ UNCHANGED <<providerVars, initialized, closed, closeEmitted, grace, childVars, chunk,
                   historyVars>>

(* close(): nobody listens any more, and the client is closed.             *)
Close ==
    /\ Idle
    /\ call \in {"up", "failed"}
    /\ listening' = FALSE
    /\ started' = FALSE
    /\ IF CloseReturnsAtOnce
       THEN /\ call' = "closed"
            /\ UNCHANGED <<closing, awaits, closed, initialized, request, stdinEnded, grace>>
       ELSE /\ call' = "closing"
            /\ closing' = TRUE
            /\ awaits' = "close"
            /\ CloseBegins
    /\ UNCHANGED <<closeEmitted, child, killed, asked, output, chunk, historyVars>>

-----------------------------------------------------------------------------
(* The output of the child.                                                *)

(* Faulty: output is handled after the client has closed.                  *)
AlwaysAccepted == TRUE

Accepts == ~closed

(* #acceptStdout: some of what is in the pipe, unless the client has       *)
(* closed.  A buffer that is too long closes it before anything is parsed. *)
AcceptStdout ==
    /\ Idle
    /\ output # <<>>
    /\ \E n \in 1..Len(output) :
          LET got == SubSeq(output, 1, n) IN
          /\ output' = SubSeq(output, n + 1, Len(output))
          /\ IF Accepts /\ \E i \in 1..n : got[i].what = "oversized"
             THEN /\ HandleClosed
                  /\ protocolError' = TRUE
                  /\ UNCHANGED chunk
             ELSE /\ chunk' = IF Accepts THEN got ELSE <<>>
                  /\ UNCHANGED <<initialized, closed, closeEmitted, request, started, lastEvent,
                                 protocolError>>
    /\ UNCHANGED <<call, listening, closing, awaits, grace, child, stdinEnded, killed, asked,
                   unheard>>

(* Faulty: an answer that is refused settles its request with nothing.     *)
NoResult(message) == IF message.what = "refused" THEN "none" ELSE message.what

Result(message) == message.what

(* An answer settles its request, if that is still pending.                *)
HandleAnswer ==
    LET message == Head(chunk) IN
    /\ chunk # <<>> /\ message.what \in Answers
    /\ chunk' = Tail(chunk)
    /\ request' = IF request[message.of] = "pending"
                  THEN [request EXCEPT ![message.of] = Result(message)] ELSE request
    /\ UNCHANGED <<providerVars, initialized, closed, closeEmitted, grace, childVars, historyVars>>

(* Limits or an account that have changed.                                 *)
HandleNotification ==
    /\ chunk # <<>> /\ Head(chunk).what = "changed"
    /\ chunk' = Tail(chunk)
    /\ lastEvent' = IF listening THEN "changed" ELSE lastEvent
    /\ UNCHANGED <<providerVars, clientVars, childVars, protocolError, unheard>>

(* What is no JSON closes the client, and the rest is dropped.             *)
HandleGarbage ==
    /\ chunk # <<>> /\ Head(chunk).what = "garbage"
    /\ chunk' = <<>>
    /\ HandleClosed
    /\ protocolError' = TRUE
    /\ unheard' = (unheard \/ (awaits = "account" /\ request["account"] = "resolved"))
    /\ UNCHANGED <<call, listening, closing, awaits, grace, childVars>>

-----------------------------------------------------------------------------
(* The child: external, but for the client's handlers of its events.  What *)
(* it does during a callback it may as well do after it.                   *)

Says(message) ==
    /\ Len(output) < MaxOutput
    /\ output' = Append(output, message)

ChildAnswers(r) ==
    /\ Idle
    /\ child = "running" /\ r \in asked
    /\ asked' = asked \ {r}
    /\ \E answer \in Answers : Says([what |-> answer, of |-> r])
    /\ UNCHANGED <<providerVars, clientVars, child, stdinEnded, killed, chunk, historyVars>>

ChildSays ==
    /\ Idle
    /\ child = "running"
    /\ \E what \in {"changed", "garbage", "oversized"} : Says([what |-> what, of |-> "none"])
    /\ UNCHANGED <<providerVars, clientVars, child, stdinEnded, killed, asked, chunk, historyVars>>

ChildExits ==
    /\ Idle
    /\ child = "running"
    /\ child' = "exited"
    /\ UNCHANGED <<providerVars, clientVars, stdinEnded, killed, asked, output, chunk, historyVars>>

(* Its "error" event, when it could not be run.                            *)
ChildFails ==
    /\ Idle
    /\ child = "running" /\ output = <<>> /\ asked = {"initialize"}
    /\ child' = "exited"
    /\ HandleClosed
    /\ UNCHANGED <<call, listening, closing, awaits, grace, stdinEnded, killed, asked, output,
                   chunk, protocolError, unheard>>

(* Its "close" event, behind all that it has said.                         *)
ChildCloses ==
    /\ Idle
    /\ child = "exited" /\ output = <<>>
    /\ child' = "closed"
    /\ HandleClosed
    /\ grace' = IF grace = "waiting" THEN "over" ELSE grace
    /\ UNCHANGED <<call, listening, closing, awaits, stdinEnded, killed, asked, output, chunk,
                   protocolError, unheard>>

-----------------------------------------------------------------------------

Handling == HandleAnswer \/ HandleNotification \/ HandleGarbage

Continuing ==
    StartInitialized \/ StartReads \/ CloseEnds \/ \E r \in Reads : ReadReturns(r)

Using ==
    Start \/ Close \/ \E r \in Reads : Read(r) \/ ReadForgotten(r)

Elapsing == GraceElapses \/ \E r \in Requests : Timeout(r) \/ WriteFails(r)

Living ==
    \/ AcceptStdout \/ ChildSays \/ ChildExits \/ ChildFails \/ ChildCloses
    \/ \E r \in Requests : ChildAnswers(r)

Next == Handling \/ Continuing \/ Using \/ Elapsing \/ Living

Spec == Init /\ [][Next]_vars

(* Callbacks come to their end, and timers have their turn between them,   *)
(* however much the child says.                                            *)
Fairness ==
    /\ WF_vars(Handling) /\ WF_vars(Continuing)
    /\ SF_vars(GraceElapses)
    /\ \A r \in Requests : SF_vars(Timeout(r))

FairSpec == Spec /\ Fairness

-----------------------------------------------------------------------------
(* No request waits for an answer of a client that has closed: all have    *)
(* been rejected, and none is sent after.                                  *)
NoRequestOutlivesClient == closed => \A r \in Requests : request[r] # "pending"

(* A provider whose client has closed behind its user's back announces     *)
(* it, unless the child spoiled the pipe in the same chunk as it answered  *)
(* for the account: the start of the provider has not gone on by then.     *)
EndIsAnnounced == call = "up" /\ closed /\ ~unheard => lastEvent = "closed"

(* It announces nothing else: no event comes after that one, nor after     *)
(* close() has been called, nor before the start has come to its end.      *)
QuietAfterEnd ==
    [][lastEvent' # lastEvent => lastEvent # "closed" /\ call = "up"]_lastEvent

(* A child is never left behind: when the start has failed, or close() has *)
(* settled, it has exited or was told to; but for a client that has closed *)
(* over what its child sent, which then closes without a look at it.       *)
ChildIsEnded ==
    call \in {"failed", "closed"} /\ ~protocolError => child # "running" \/ killed

(* start(), close() and every read settle, whatever the child does.        *)
CallsSettle ==
    /\ call \in {"starting", "closing"} ~> call \in {"failed", "up", "closed"}
    /\ \A r \in Reads : request[r] = "pending" ~> request[r] = "done"

(* "reports an unexpected app-server close": without the exception.        *)
UnexpectedCloseReported == call = "up" /\ closed => lastEvent = "closed"

=============================================================================
