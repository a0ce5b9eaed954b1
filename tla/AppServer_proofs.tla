-------------------------- MODULE AppServer_proofs --------------------------
(***************************************************************************)
(* Proofs about AppServer, for any reads and any capacity of the pipe: its *)
(* type invariant, and the inductive invariant of the end of a provider.   *)
(***************************************************************************)
EXTENDS AppServer, TLAPS

(* What the awaits of start() and close() say of the provider.             *)
CallInv ==
    /\ call = "none" =>
          /\ child = "unborn" /\ ~closed /\ grace = "none" /\ output = <<>> /\ chunk = <<>>
          /\ \A r \in Requests : request[r] # "pending"
    /\ call = "starting" <=> awaits # "nothing" /\ call # "closing"
    /\ call = "closing" => awaits = "close"
    /\ closing => call = "closing"
    /\ started => call = "up"
    /\ listening => call = "up"
    /\ call \in {"failed", "closed"} => closed /\ closeEmitted
    /\ awaits = "close" <=> grace # "none"
    /\ grace # "none" => closed

(* The client closes once, and handles nothing after.                      *)
ClosedInv ==
    /\ closeEmitted => closed
    /\ NoRequestOutlivesClient
    /\ chunk # <<>> => ~closed
    /\ closeEmitted /\ ~protocolError => child # "running" \/ killed

(* Whether the user of the provider has heard of it.                       *)
HeardInv ==
    /\ awaits = "account" /\ request["account"] = "resolved" /\ closed => unheard
    /\ call = "up" /\ started /\ ~unheard => ~closed
    /\ call = "up" /\ ~started => lastEvent = "closed"
    /\ lastEvent = "closed" => closed /\ ~started
    /\ call \in {"none", "starting"} => lastEvent = "none"

Inv == CallInv /\ ClosedInv /\ HeardInv

-----------------------------------------------------------------------------
(* The types.                                                              *)

LEMMA RequestKinds ==
    /\ "initialize" \in Requests /\ "account" \in Requests
    /\ \A r \in Reads : r \in Requests /\ r # "account" /\ r # "initialize"
BY ReadsAssumption DEF Requests

LEMMA AllRejectedType ==
    TypeOK => AllRejected \in [Requests -> {"unsent", "pending"} \cup Answers \cup {"done"}]
BY DEF TypeOK, AllRejected, Answers

LEMMA HandleClosedTypes ==
    ASSUME TypeOK, HandleClosed
    PROVE  /\ initialized' \in BOOLEAN /\ closed' \in BOOLEAN /\ closeEmitted' \in BOOLEAN
           /\ request' \in [Requests -> {"unsent", "pending"} \cup Answers \cup {"done"}]
           /\ started' \in BOOLEAN /\ lastEvent' \in {"none", "changed", "closed"}
<1>1. CASE closeEmitted
  BY <1>1 DEF HandleClosed, TypeOK
<1>2. CASE ~closeEmitted
  BY <1>2, AllRejectedType DEF HandleClosed, OnClientClose, TypeOK
<1>. QED  BY <1>1, <1>2

LEMMA StartFailsTypes ==
    ASSUME TypeOK, StartFails
    PROVE  /\ call' \in {"none", "starting", "failed", "up", "closing", "closed"}
           /\ awaits' \in {"nothing", "initialize", "account", "close"}
           /\ closed' \in BOOLEAN /\ initialized' \in BOOLEAN /\ stdinEnded' \in BOOLEAN
           /\ request' \in [Requests -> {"unsent", "pending"} \cup Answers \cup {"done"}]
           /\ grace' \in {"none", "waiting", "over"}
           /\ UNCHANGED <<started, listening, closing, closeEmitted, asked>>
<1>1. CASE CloseReturnsAtOnce
  BY <1>1 DEF StartFails, TypeOK
<1>2. CASE ~CloseReturnsAtOnce
  BY <1>2, AllRejectedType DEF StartFails, CloseBegins, TypeOK
<1>. QED  BY <1>1, <1>2

LEMMA SendTypes ==
    ASSUME TypeOK, NEW r \in Requests, Send(r)
    PROVE  /\ request' \in [Requests -> {"unsent", "pending"} \cup Answers \cup {"done"}]
           /\ asked' \subseteq Requests
BY DEF Send, TypeOK

LEMMA SaysTypes ==
    ASSUME TypeOK, NEW message \in Messages, Says(message)
    PROVE  output' \in Seq(Messages)
BY DEF Says, TypeOK

LEMMA NextTypes ==
    ASSUME TypeOK, [Next]_vars
    PROVE  TypeOK'
<1>. USE RequestKinds DEF providerVars, clientVars, childVars, historyVars
<1>1. CASE Handling
  <2>1. CASE HandleAnswer
    <3>1. Head(chunk) \in Messages /\ chunk' \in Seq(Messages)
      BY <2>1 DEF HandleAnswer, TypeOK
    <3>2. request' \in [Requests -> {"unsent", "pending"} \cup Answers \cup {"done"}]
      BY <2>1, <3>1 DEF HandleAnswer, Result, TypeOK
    <3>. QED  BY <2>1, <3>1, <3>2 DEF HandleAnswer, TypeOK
  <2>2. CASE HandleNotification
    BY <2>2 DEF HandleNotification, TypeOK
  <2>3. CASE HandleGarbage
    <3>1. chunk' \in Seq(Messages) /\ protocolError' \in BOOLEAN
      BY <2>3 DEF HandleGarbage
    <3>2. unheard' \in BOOLEAN
      BY <2>3, Zenon DEF HandleGarbage
    <3>. QED  BY <2>3, <3>1, <3>2, HandleClosedTypes DEF HandleGarbage, TypeOK
  <2>. QED  BY <1>1, <2>1, <2>2, <2>3 DEF Handling
<1>2. CASE Continuing
  <2>1. CASE StartInitialized
    <3>. DEFINE Goes == request["initialize"] = "resolved" /\ ~closed
    <3>1. CASE ~Goes
      BY <2>1, <3>1, StartFailsTypes DEF StartInitialized, TypeOK
    <3>2. CASE Goes
      <4>1. initialized' \in BOOLEAN /\ awaits' = "account" /\ Send("account")
        BY <2>1, <3>2 DEF StartInitialized
      <4>2. UNCHANGED <<call, started, listening, closing, closed, closeEmitted, stdinEnded, grace>>
        BY <2>1, <3>2 DEF StartInitialized
      <4>3. UNCHANGED <<child, killed, output, chunk, historyVars>>
        BY <2>1 DEF StartInitialized
      <4>. QED  BY <4>1, <4>2, <4>3, SendTypes DEF TypeOK
    <3>. QED  BY <3>1, <3>2
  <2>2. CASE StartReads
    <3>1. CASE StartFails
      BY <2>2, <3>1, StartFailsTypes DEF StartReads, TypeOK
    <3>2. CASE request["account"] = "resolved"
      BY <2>2, <3>2 DEF StartReads, TypeOK
    <3>. QED  BY <2>2, <3>1, <3>2 DEF StartReads
  <2>3. CASE CloseEnds
    <3>1. killed' \in BOOLEAN
      BY <2>3, Zenon DEF CloseEnds, KilledIfAlive
    <3>2. started' \in BOOLEAN /\ lastEvent' \in {"none", "changed", "closed"}
      BY <2>3 DEF CloseEnds, OnClientClose, TypeOK
    <3>3. /\ grace' = "none" /\ closeEmitted' \in BOOLEAN /\ awaits' = "nothing"
          /\ call' \in {"closed", "failed"} /\ closing' \in BOOLEAN
          /\ UNCHANGED <<listening, initialized, closed, request, child, stdinEnded, asked, output,
                         chunk, protocolError, unheard>>
      BY <2>3 DEF CloseEnds
    <3>. QED  BY <3>1, <3>2, <3>3 DEF TypeOK
  <2>4. ASSUME NEW r \in Reads, ReadReturns(r)
        PROVE  TypeOK'
    BY <2>4 DEF ReadReturns, TypeOK
  <2>. QED  BY <1>2, <2>1, <2>2, <2>3, <2>4 DEF Continuing
<1>3. CASE Using
  <2>1. CASE Start
    <3>1. CASE call' = "starting"
      BY <2>1, <3>1, SendTypes DEF Start, TypeOK
    <3>2. CASE call' # "starting"
      <4>1. closed' \in BOOLEAN /\ closeEmitted' \in BOOLEAN /\ call' = "failed"
        BY <2>1, <3>2 DEF Start
      <4>2. UNCHANGED <<awaits, child, request, asked, started, listening, closing, initialized,
                        grace, stdinEnded, killed, output, chunk, historyVars>>
        BY <2>1, <3>2 DEF Start
      <4>. QED  BY <4>1, <4>2 DEF TypeOK
    <3>. QED  BY <3>1, <3>2
  <2>2. CASE Close
    <3>1. CASE CloseReturnsAtOnce
      <4>1. listening' \in BOOLEAN /\ started' \in BOOLEAN /\ call' = "closed"
        BY <2>2, <3>1 DEF Close
      <4>2. UNCHANGED <<closing, awaits, closed, initialized, request, stdinEnded, grace,
                        closeEmitted, child, killed, asked, output, chunk, historyVars>>
        BY <2>2, <3>1 DEF Close
      <4>. QED  BY <4>1, <4>2 DEF TypeOK
    <3>2. CASE ~CloseReturnsAtOnce
      BY <2>2, <3>2, AllRejectedType DEF Close, CloseBegins, TypeOK
    <3>. QED  BY <3>1, <3>2
  <2>3. ASSUME NEW r \in Reads, Read(r)
        PROVE  TypeOK'
    BY <2>3, SendTypes DEF Read, TypeOK
  <2>4. ASSUME NEW r \in Reads, ReadForgotten(r)
        PROVE  TypeOK'
    BY <2>4 DEF ReadForgotten, TypeOK
  <2>. QED  BY <1>3, <2>1, <2>2, <2>3, <2>4 DEF Using
<1>4. CASE Elapsing
  <2>1. CASE GraceElapses
    BY <2>1 DEF GraceElapses, TypeOK
  <2>2. ASSUME NEW r \in Requests, Timeout(r)
        PROVE  TypeOK'
    BY <2>2 DEF Timeout, TypeOK, Answers
  <2>3. ASSUME NEW r \in Requests, WriteFails(r)
        PROVE  TypeOK'
    BY <2>3 DEF WriteFails, TypeOK, Answers
  <2>. QED  BY <1>4, <2>1, <2>2, <2>3 DEF Elapsing
<1>5. CASE Living
  <2>1. CASE AcceptStdout
    <3>1. PICK n \in 1..Len(output) :
            /\ output' = SubSeq(output, n + 1, Len(output))
            /\ \/ /\ HandleClosed
                  /\ protocolError' = TRUE
                  /\ UNCHANGED chunk
               \/ /\ chunk' \in {SubSeq(output, 1, n), <<>>}
                  /\ UNCHANGED <<initialized, closed, closeEmitted, request, started, lastEvent,
                                 protocolError>>
      BY <2>1 DEF AcceptStdout
    <3>2. output' \in Seq(Messages) /\ SubSeq(output, 1, n) \in Seq(Messages)
      BY <3>1 DEF TypeOK
    <3>3. UNCHANGED <<call, listening, closing, awaits, grace, child, stdinEnded, killed, asked,
                      unheard>>
      BY <2>1 DEF AcceptStdout
    <3>4. chunk' \in Seq(Messages)
      <4>1. chunk' = chunk \/ chunk' = SubSeq(output, 1, n) \/ chunk' = <<>>
        BY <3>1
      <4>2. chunk \in Seq(Messages) /\ <<>> \in Seq(Messages)
        BY DEF TypeOK
      <4>. QED  BY <3>2, <4>1, <4>2, Zenon
    <3>7. protocolError' \in BOOLEAN
      <4>1. protocolError' = TRUE \/ UNCHANGED protocolError
        BY <3>1
      <4>. QED  BY <4>1 DEF TypeOK
    <3>5. CASE HandleClosed
      BY <3>2, <3>3, <3>4, <3>5, <3>7, HandleClosedTypes DEF TypeOK
    <3>6. CASE UNCHANGED <<initialized, closed, closeEmitted, request, started, lastEvent>>
      BY <3>2, <3>3, <3>4, <3>6, <3>7 DEF TypeOK
    <3>. QED  BY <3>1, <3>5, <3>6
  <2>2. CASE ChildSays
    <3>1. \A what \in {"changed", "garbage", "oversized"} :
             [what |-> what, of |-> "none"] \in Messages
      BY DEF Messages
    <3>. QED  BY <2>2, <3>1, SaysTypes DEF ChildSays, TypeOK
  <2>3. CASE ChildExits
    BY <2>3 DEF ChildExits, TypeOK
  <2>4. CASE ChildFails
    BY <2>4, HandleClosedTypes DEF ChildFails, TypeOK
  <2>5. CASE ChildCloses
    BY <2>5, HandleClosedTypes DEF ChildCloses, TypeOK
  <2>6. ASSUME NEW r \in Requests, ChildAnswers(r)
        PROVE  TypeOK'
    <3>1. \A answer \in Answers : [what |-> answer, of |-> r] \in Messages
      BY DEF Messages
    <3>. QED  BY <2>6, <3>1, SaysTypes DEF ChildAnswers, TypeOK
  <2>. QED  BY <1>5, <2>1, <2>2, <2>3, <2>4, <2>5, <2>6 DEF Living
<1>6. CASE UNCHANGED vars
  BY <1>6 DEF vars, TypeOK
<1>. QED  BY <1>1, <1>2, <1>3, <1>4, <1>5, <1>6 DEF Next

(* Every variable of the provider, its client and the child keeps its      *)
(* type.                                                                   *)
THEOREM TypeCorrect == Spec => []TypeOK
<1>1. ASSUME Init
      PROVE  TypeOK
  <2>1. /\ started \in BOOLEAN /\ listening \in BOOLEAN /\ closing \in BOOLEAN
        /\ initialized \in BOOLEAN /\ closed \in BOOLEAN /\ closeEmitted \in BOOLEAN
        /\ stdinEnded \in BOOLEAN /\ killed \in BOOLEAN
        /\ protocolError \in BOOLEAN /\ unheard \in BOOLEAN
    BY <1>1 DEF Init
  <2>2. /\ call = "none" /\ awaits = "nothing" /\ grace = "none" /\ child = "unborn"
        /\ request = [r \in Requests |-> "unsent"] /\ asked = {} /\ output = <<>> /\ chunk = <<>>
        /\ lastEvent = "none"
    BY <1>1 DEF Init
  <2>. QED  BY <2>1, <2>2 DEF TypeOK
<1>. QED  BY <1>1, NextTypes, PTL DEF Spec

-----------------------------------------------------------------------------
(* The end of a provider.                                                  *)

LEMMA InitInv == Init => Inv
<1>. SUFFICES ASSUME Init PROVE Inv
  OBVIOUS
<1>1. CallInv
  BY DEF Init, CallInv
<1>2. ClosedInv
  BY DEF Init, ClosedInv, NoRequestOutlivesClient
<1>3. HeardInv
  BY DEF Init, HeardInv
<1>. QED  BY <1>1, <1>2, <1>3 DEF Inv

LEMMA NonePendingAfter ==
    /\ \A r \in Requests : AllRejected[r] # "pending"
    /\ \A r \in Requests : AllRejected[r] = "resolved" <=> request[r] = "resolved"
BY DEF AllRejected

(* The client closes, between two callbacks or during one.                 *)
LEMMA HandleClosedMeans ==
    ASSUME TypeOK, Inv, HandleClosed
    PROVE  /\ closed' /\ closeEmitted'
           /\ NoRequestOutlivesClient'
           /\ request'["account"] = "resolved" <=> request["account"] = "resolved"
           /\ \/ call = "up" /\ started /\ ~started' /\ lastEvent' = "closed"
              \/ closeEmitted /\ UNCHANGED <<started, lastEvent>>
              \/ ~started /\ UNCHANGED <<started, lastEvent>>
<1>1. CASE closeEmitted
  BY <1>1 DEF HandleClosed, Inv, ClosedInv, CallInv, NoRequestOutlivesClient
<1>2. CASE ~closeEmitted
  <2>1. /\ closed' /\ closeEmitted' /\ request' = AllRejected /\ OnClientClose
    BY <1>2 DEF HandleClosed
  <2>2. /\ NoRequestOutlivesClient'
        /\ request'["account"] = "resolved" <=> request["account"] = "resolved"
    BY <2>1, NonePendingAfter, RequestKinds DEF NoRequestOutlivesClient
  <2>3. CASE started
    <3>1. call = "up" /\ ~closing
      BY <2>3 DEF Inv, CallInv
    <3>2. started' = FALSE /\ lastEvent' = "closed"
      BY <2>1, <2>3, <3>1 DEF OnClientClose
    <3>. QED  BY <2>1, <2>2, <2>3, <3>1, <3>2
  <2>4. CASE ~started
    <3>1. UNCHANGED <<started, lastEvent>>
      BY <2>1, <2>4 DEF OnClientClose
    <3>. QED  BY <2>1, <2>2, <2>4, <3>1
  <2>. QED  BY <2>3, <2>4
<1>. QED  BY <1>1, <1>2

LEMMA NextInv ==
    ASSUME TypeOK, Inv, [Next]_vars
    PROVE  Inv'
<1>. USE RequestKinds DEF providerVars, clientVars, childVars, historyVars, Inv, CallInv, ClosedInv,
        HeardInv, NoRequestOutlivesClient
<1>1. CASE Handling
  <2>1. CASE HandleAnswer
    <3>1. chunk # <<>> /\ ~closed /\ chunk' = Tail(chunk)
      BY <2>1 DEF HandleAnswer
    <3>2. UNCHANGED <<providerVars, initialized, closed, closeEmitted, grace, childVars,
                      historyVars>>
      BY <2>1 DEF HandleAnswer
    <3>3. \A r \in Requests : request'[r] = "pending" => request[r] = "pending"
      BY <2>1 DEF HandleAnswer, Result, Answers, TypeOK
    <3>. QED  BY <3>1, <3>2, <3>3
  <2>2. CASE HandleNotification
    BY <2>2 DEF HandleNotification
  <2>3. CASE HandleGarbage
    <3>1. /\ chunk # <<>> /\ chunk' = <<>> /\ HandleClosed /\ protocolError'
          /\ UNCHANGED <<call, listening, closing, awaits, grace, childVars>>
      BY <2>3 DEF HandleGarbage
    <3>2. unheard' <=> unheard \/ (awaits = "account" /\ request["account"] = "resolved")
      BY <2>3, Zenon DEF HandleGarbage
    <3>3. CallInv'
      BY <3>1, HandleClosedMeans
    <3>4. ClosedInv'
      BY <3>1, HandleClosedMeans
    <3>5. HeardInv'
      BY <3>1, <3>2, HandleClosedMeans
    <3>. QED  BY <3>3, <3>4, <3>5
  <2>. QED  BY <1>1, <2>1, <2>2, <2>3 DEF Handling
<1>2. CASE Continuing
  <2>0. ASSUME StartFails, UNCHANGED <<child, killed, output, chunk, historyVars>>, chunk = <<>>,
               call = "starting", awaits \in {"initialize", "account"}
        PROVE  Inv'
    <3>1. CASE CloseReturnsAtOnce
      BY <2>0, <3>1 DEF StartFails, CloseReturnsAtOnce
    <3>2. CASE ~CloseReturnsAtOnce
      BY <2>0, <3>2, NonePendingAfter DEF StartFails, CloseReturnsAtOnce, CloseBegins
    <3>. QED  BY <3>1, <3>2
  <2>1. CASE StartInitialized
    <3>1. CASE request["initialize"] = "resolved" /\ ~closed
      BY <2>1, <3>1 DEF StartInitialized, Send, TypeOK
    <3>2. CASE ~(request["initialize"] = "resolved" /\ ~closed)
      BY <2>0, <2>1, <3>2 DEF StartInitialized
    <3>. QED  BY <3>1, <3>2
  <2>2. CASE StartReads
    <3>1. CASE request["account"] = "resolved"
      <4>1. listening' /\ started' /\ awaits' = "nothing" /\ call' = "up"
        BY <2>2, <3>1 DEF StartReads
      <4>2. /\ awaits = "account" /\ chunk = <<>>
            /\ UNCHANGED <<closing, initialized, closed, closeEmitted, request, grace, child,
                           killed, chunk, historyVars>>
        BY <2>2, <3>1 DEF StartReads
      <4>3. CallInv'
        BY <4>1, <4>2
      <4>4. ClosedInv'
        BY <4>1, <4>2
      <4>5. HeardInv'
        BY <3>1, <4>1, <4>2
      <4>. QED  BY <4>3, <4>4, <4>5
    <3>2. CASE request["account"] # "resolved"
      BY <2>0, <2>2, <3>2 DEF StartReads
    <3>. QED  BY <3>1, <3>2
  <2>3. CASE CloseEnds
    <3>1. ~started /\ UNCHANGED <<started, lastEvent>>
      BY <2>3 DEF CloseEnds, OnClientClose
    <3>2. killed' <=> killed \/ child = "running"
      BY <2>3, Zenon DEF CloseEnds, KilledIfAlive
    <3>. QED  BY <2>3, <3>1, <3>2 DEF CloseEnds
  <2>4. ASSUME NEW r \in Reads, ReadReturns(r)
        PROVE  Inv'
    BY <2>4 DEF ReadReturns, TypeOK
  <2>. QED  BY <1>2, <2>1, <2>2, <2>3, <2>4 DEF Continuing
<1>3. CASE Using
  <2>1. CASE Start
    <3>1. CASE call' = "starting"
      BY <2>1, <3>1 DEF Start, Send, Idle, TypeOK
    <3>2. CASE call' # "starting"
      <4>1. call = "none" /\ call' = "failed" /\ closed' /\ closeEmitted' /\ chunk = <<>>
        BY <2>1, <3>2 DEF Start, Idle
      <4>2. UNCHANGED <<awaits, child, request, started, listening, closing, grace, killed, chunk,
                        historyVars>>
        BY <2>1, <3>2 DEF Start
      <4>3. \A r \in Requests : request[r] # "pending"
        BY <4>1
      <4>. QED  BY <4>1, <4>2, <4>3
    <3>. QED  BY <3>1, <3>2
  <2>2. CASE Close
    <3>1. CASE CloseReturnsAtOnce
      BY <2>2, <3>1 DEF Close, CloseReturnsAtOnce, Idle
    <3>2. CASE ~CloseReturnsAtOnce
      BY <2>2, <3>2, NonePendingAfter DEF Close, CloseReturnsAtOnce, CloseBegins, Idle
    <3>. QED  BY <3>1, <3>2
  <2>3. ASSUME NEW r \in Reads, Read(r)
        PROVE  Inv'
    BY <2>3 DEF Read, Send, TypeOK
  <2>4. ASSUME NEW r \in Reads, ReadForgotten(r)
        PROVE  Inv'
    BY <2>4 DEF ReadForgotten, TypeOK
  <2>. QED  BY <1>3, <2>1, <2>2, <2>3, <2>4 DEF Using
<1>4. CASE Elapsing
  <2>1. CASE GraceElapses
    BY <2>1 DEF GraceElapses
  <2>2. ASSUME NEW r \in Requests, Timeout(r)
        PROVE  Inv'
    BY <2>2 DEF Timeout, TypeOK
  <2>3. ASSUME NEW r \in Requests, WriteFails(r)
        PROVE  Inv'
    BY <2>3 DEF WriteFails, TypeOK
  <2>. QED  BY <1>4, <2>1, <2>2, <2>3 DEF Elapsing
<1>5. CASE Living
  <2>0. ASSUME Idle
        PROVE  ~(awaits = "account" /\ request["account"] = "resolved")
    BY <2>0 DEF Idle, ContinuationDue, Settled, Answers
  <2>1. CASE AcceptStdout
    <3>1. /\ Idle /\ output # <<>>
          /\ UNCHANGED <<call, listening, closing, awaits, grace, child, stdinEnded, killed, asked,
                         unheard>>
      BY <2>1 DEF AcceptStdout
    <3>2. \/ HandleClosed /\ protocolError' /\ UNCHANGED chunk
          \/ /\ closed => chunk' = <<>>
             /\ UNCHANGED <<initialized, closed, closeEmitted, request, started, lastEvent,
                            protocolError>>
      BY <2>1 DEF AcceptStdout, Accepts
    <3>3. CASE HandleClosed /\ protocolError' /\ UNCHANGED chunk
      <4>1. chunk = <<>> /\ chunk' = <<>>
        BY <3>1, <3>3 DEF Idle
      <4>2. CallInv'
        BY <3>1, <3>3, HandleClosedMeans
      <4>3. ClosedInv'
        BY <3>1, <3>3, <4>1, HandleClosedMeans
      <4>4. HeardInv'
        BY <2>0, <3>1, <3>3, HandleClosedMeans
      <4>. QED  BY <4>2, <4>3, <4>4
    <3>4. CASE /\ closed => chunk' = <<>>
               /\ UNCHANGED <<initialized, closed, closeEmitted, request, started, lastEvent,
                              protocolError>>
      BY <3>1, <3>4
    <3>. QED  BY <3>2, <3>3, <3>4
  <2>2. CASE ChildSays
    BY <2>2 DEF ChildSays
  <2>3. CASE ChildExits
    BY <2>3 DEF ChildExits
  <2>4. CASE ChildFails
    BY <2>0, <2>4, HandleClosedMeans DEF ChildFails, Idle
  <2>5. CASE ChildCloses
    BY <2>0, <2>5, HandleClosedMeans DEF ChildCloses, Idle
  <2>6. ASSUME NEW r \in Requests, ChildAnswers(r)
        PROVE  Inv'
    BY <2>6 DEF ChildAnswers
  <2>. QED  BY <1>5, <2>1, <2>2, <2>3, <2>4, <2>5, <2>6 DEF Living
<1>6. CASE UNCHANGED vars
  BY <1>6 DEF vars
<1>. QED  BY <1>1, <1>2, <1>3, <1>4, <1>5, <1>6 DEF Next

(* The inductive invariant: who awaits what, that a client closes once and *)
(* handles nothing after, and who has heard of it.                         *)
THEOREM Invariance == Spec => [](TypeOK /\ Inv)
<1>1. Init => Inv
  BY InitInv
<1>2. TypeOK /\ Inv /\ [Next]_vars => Inv'
  BY NextInv
<1>. QED  BY <1>1, <1>2, TypeCorrect, PTL DEF Spec

(* #handleClosed and close() reject all that is pending, and nothing is    *)
(* sent after.                                                             *)
THEOREM NoRequestOutlivesClientHolds == Spec => []NoRequestOutlivesClient
<1>1. Inv => NoRequestOutlivesClient
  BY DEF Inv, ClosedInv
<1>. QED  BY Invariance, <1>1, PTL

(* The provider's user hears of its end, but for the one window.           *)
THEOREM EndIsAnnouncedHolds == Spec => []EndIsAnnounced
<1>1. Inv => EndIsAnnounced
  BY DEF Inv, HeardInv, EndIsAnnounced
<1>. QED  BY Invariance, <1>1, PTL

(* A failed start and a close() leave no child behind, but for a client    *)
(* that closed over what it was sent.                                      *)
THEOREM ChildIsEndedHolds == Spec => []ChildIsEnded
<1>1. Inv => ChildIsEnded
  BY DEF Inv, CallInv, ClosedInv, ChildIsEnded
<1>. QED  BY Invariance, <1>1, PTL

(* After "closed", and after close(), the provider emits nothing.          *)
THEOREM QuietAfterEndHolds == Spec => QuietAfterEnd
<1>1. ASSUME TypeOK, Inv, [Next]_vars, lastEvent' # lastEvent
      PROVE  lastEvent # "closed" /\ call = "up"
  <2>. USE DEF providerVars, clientVars, childVars, historyVars
  <2>1. HandleClosed => lastEvent # "closed" /\ call = "up"
    BY <1>1, HandleClosedMeans DEF Inv, HeardInv
  <2>2. HandleNotification => lastEvent # "closed" /\ call = "up"
    BY <1>1 DEF HandleNotification, Inv, CallInv, ClosedInv, HeardInv
  <2>3. CloseEnds => UNCHANGED lastEvent
    BY <1>1 DEF CloseEnds, OnClientClose, Inv, CallInv
  <2>4. Handling => HandleClosed \/ HandleNotification \/ UNCHANGED lastEvent
    BY DEF Handling, HandleAnswer, HandleGarbage
  <2>5. Continuing \/ Using \/ Elapsing => CloseEnds \/ UNCHANGED lastEvent
    BY DEF Continuing, Using, Elapsing, StartInitialized, StartReads, ReadReturns, Start, Close,
           Read, ReadForgotten, GraceElapses, Timeout, WriteFails
  <2>6. Living => HandleClosed \/ UNCHANGED lastEvent
    BY DEF Living, AcceptStdout, ChildSays, ChildExits, ChildFails, ChildCloses, ChildAnswers
  <2>7. UNCHANGED vars => UNCHANGED lastEvent
    BY DEF vars
  <2>. QED  BY <1>1, <2>1, <2>2, <2>3, <2>4, <2>5, <2>6, <2>7 DEF Next
<1>2. TypeOK /\ Inv /\ [Next]_vars
        => [lastEvent' # lastEvent => lastEvent # "closed" /\ call = "up"]_lastEvent
  BY <1>1
<1>. QED  BY Invariance, <1>2, PTL DEF Spec, QuietAfterEnd

=============================================================================
