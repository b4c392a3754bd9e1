------------------------------ MODULE JsClient ------------------------------
(***************************************************************************)
(* The JavaScript client, js/nrpc/nrpc_client.js over the request,         *)
(* subscribe and publishMsg of js/nats/natsclient/nats_client.js: calls    *)
(* that wait side by side in one event loop, each with a timer of its own  *)
(* and a reply subscription with another, and that may share a RequestOpt, *)
(* whose qos _checkRequestOpt changes; over a connection that may fail, be *)
(* lost or be closed, and with a server that may use another encoding.     *)
(*                                                                         *)
(* The broker and the services are the environment: a message is stored or *)
(* refused, handled, and answered in any order, or not at all.  An         *)
(* exception or rejection nobody handles may end the process (it does from *)
(* Node.js 15 on, unless the NATS library catches what its callback        *)
(* throws): a process that ends takes no more steps.                       *)
(***************************************************************************)
EXTENDS JsNatsClient, JsCodec

CONSTANTS
  Async,        \* calls of call
  Sync,         \* calls of callSync
  Notifies,     \* calls of notify
  Opts,         \* RequestOpt objects
  OptsOf,       \* the object a call is given
  QosOf,        \* the qos an object is made with
  WithMsgId,    \* objects with a msgID
  Encodings,    \* pairs of the encoding of the client and that of the server
  ResultsOf,    \* Responses the handler of a call may return
  MaxServed     \* bound: executions of a handler for a message

Calls == Async \cup Sync

ASSUME JsClientAssumption ==
  /\ Async \cap Sync = {} /\ Notifies \cap Calls = {}
  /\ OptsOf \in [Calls -> Opts]
  /\ QosOf \in [Opts -> 0 .. 2]
  /\ WithMsgId \subseteq Opts
  /\ Encodings \subseteq EncodeTypes \X EncodeTypes
  /\ MaxServed \in Nat \ {0}

\* A handler returns a Response, with the fields of one: Protobuf keeps them.
ASSUME ResultsAssumption ==
  \A c \in Calls : \A r \in ResultsOf[c] :
    decode("protobuf", ResponseFields, encode("protobuf", ResponseFields, r)) =
      {<<"message", r>>}

VARIABLES
  encodeType, \* the encoding of the client
  peerType,   \* and of the server
  qos,        \* the qos of an object
  phase,      \* where a call stands
  timer,      \* calls whose setTimeout is set
  sub,        \* the reply subscription of a call, with a callback ("open") or
              \* an iterator ("iterated") that has a message or has ended
  msgId,      \* calls whose message carries a MsgId
  sent,       \* how the message of a call was published
  stored,     \* messages in the stream
  served,     \* what the executions of the handler returned
  reports,    \* what a callback was given or a promise settled with
  unhandled,  \* calls with an exception or a rejection nobody handles
  lookups     \* history: what the lookups made with an object have returned

configVars == <<encodeType, peerType>>
optVars == <<qos, lookups>>
replyVars == <<timer, sub>>
messageVars == <<msgId, sent, stored, served>>
resultVars == <<reports, unhandled>>
envVars == <<configVars, natsVars>>
vars == <<envVars, optVars, phase, replyVars, messageVars, resultVars>>

Kinds == {"timeout", "error", "message", "object", "string", "garbage"}

TypeOK ==
  /\ JsNatsClientTypeOK
  /\ <<encodeType, peerType>> \in Encodings
  /\ qos \in [Opts -> 0 .. 2]
  /\ phase \in [Calls \cup Notifies ->
       {"idle", "lookup", "found", "missing", "publish", "wait", "done", "failed"}]
  /\ timer \subseteq Calls
  /\ sub \in [Calls ->
       {"none", "open", "closed", "iterated", "message", "timeout", "ended"}]
  /\ msgId \subseteq Calls
  /\ sent \in [Calls \cup Notifies -> {"no", "core", "stream"}]
  /\ stored \subseteq Calls
  /\ \A c \in Calls : Len(served[c]) <= MaxServed /\ Range(served[c]) \subseteq ResultsOf[c]
  /\ \A c \in Calls : \A i \in DOMAIN reports[c] : reports[c][i][1] \in Kinds
  /\ unhandled \subseteq Calls
  /\ lookups \in [Opts -> SUBSET {"found", "missing"}]

Init ==
  /\ JsNatsClientInit
  /\ \E pair \in Encodings : encodeType = pair[1] /\ peerType = pair[2]
  /\ qos = QosOf
  /\ phase = [c \in Calls \cup Notifies |-> "idle"]
  /\ timer = {}
  /\ sub = [c \in Calls |-> "none"]
  /\ msgId = {}
  /\ sent = [c \in Calls \cup Notifies |-> "no"]
  /\ stored = {}
  /\ served = [c \in Calls |-> <<>>]
  /\ reports = [c \in Calls |-> <<>>]
  /\ unhandled = {}
  /\ lookups = [o \in Opts |-> {}]

-----------------------------------------------------------------------------

GoTo(c, from, to) ==
  /\ phase[c] = from
  /\ phase' = [phase EXCEPT ![c] = to]

Report(c, r) == reports' = [reports EXCEPT ![c] = Append(@, r)]

clearTimeout(c) == timer' = timer \ {c}

Qos(c) == qos[OptsOf[c]]

Told(report) == report[1] \notin {"timeout", "error"}

\* The library hands on what comes while it is connected or drains.
Receiving == conn \in {"up", "draining"}

RequestData ==
  encode(encodeType, RequestFields, request("sayHello", <<"msg">>, <<"hello world">>))

Payload(result) == encode(peerType, ResponseFields, result)

\* The PubAck of a stream that takes the subject.
PubAckData == <<"json", NoFields>>

\* What decode makes of a payload goes to the caller; an exception does not.
Deliver(c, payload) ==
  \E value \in decode(encodeType, ResponseFields, payload) :
    IF value = Throws
    THEN unhandled' = unhandled \cup {c} /\ UNCHANGED reports
    ELSE Report(c, value) /\ UNCHANGED unhandled

-----------------------------------------------------------------------------
(* Qos0 *)

\* call sets its timer, subscribes and publishes.  When one of them throws,
\* the promise is rejected; the timer stays, and so does a subscription.
\* publishRequest and request want a Buffer.
CallCore(c) ==
  /\ c \in Async
  /\ Returned
  /\ Qos(c) = 0
  /\ timer' = timer \cup {c}
  /\ sub' = IF CanSubscribeCore THEN [sub EXCEPT ![c] = "open"] ELSE sub
  /\ IF CanSubscribeCore /\ IsBuffer(encodeType)
     THEN /\ GoTo(c, "idle", "wait")
          /\ sent' = [sent EXCEPT ![c] = "core"]
          /\ UNCHANGED reports
     ELSE /\ GoTo(c, "idle", "failed")
          /\ Report(c, <<"error">>)
          /\ UNCHANGED sent
  /\ UNCHANGED <<envVars, optVars, msgId, stored, served, unhandled>>

\* The first message ends the subscription, whatever it is: the response, the
\* status that nobody is subscribed, or the PubAck of a stream.  A status has
\* no data and decodes to an empty Response, whose result is Success.
OnMessage(c) ==
  /\ c \in Async /\ sent[c] = "core" /\ sub[c] = "open"
  /\ Receiving
  /\ sub' = [sub EXCEPT ![c] = "closed"]
  /\ phase' = [phase EXCEPT ![c] = "done"]
  /\ clearTimeout(c)
  /\ \E payload \in {Payload(r) : r \in Range(served[c])} \cup {NoData, PubAckData} :
       Deliver(c, payload)
  /\ UNCHANGED <<envVars, optVars, messageVars>>

\* The subscription times out after its own ten seconds: the handler clears
\* the timer of the call and then names a variable that is out of its scope,
\* so the callback is not run.  The timeout of the call, which the caller
\* chooses, may be shorter or longer.
SubscriptionTimeout(c) ==
  /\ sub[c] = "open"
  /\ sub' = [sub EXCEPT ![c] = "closed"]
  /\ clearTimeout(c)
  /\ unhandled' = unhandled \cup {c}
  /\ UNCHANGED <<envVars, optVars, phase, messageVars, reports>>

CallSyncCore(c) ==
  /\ c \in Sync
  /\ Returned
  /\ Qos(c) = 0
  /\ IF CanSubscribeCore /\ IsBuffer(encodeType)
     THEN /\ GoTo(c, "idle", "wait")
          /\ sent' = [sent EXCEPT ![c] = "core"]
          /\ UNCHANGED reports
     ELSE /\ GoTo(c, "idle", "failed")
          /\ Report(c, <<"error">>)
          /\ UNCHANGED sent
  /\ UNCHANGED <<envVars, optVars, replyVars, msgId, stored, served, unhandled>>

\* The request of the NATS client resolves with the first answer, which may
\* be the PubAck of a stream, or rejects: a timeout, nobody subscribed, the
\* connection closed, an answer that does not decode.
Resolve(c) ==
  /\ sent[c] = "core" /\ c \in Sync
  /\ Receiving
  /\ GoTo(c, "wait", "done")
  /\ \E payload \in {Payload(r) : r \in Range(served[c])} \cup {PubAckData} :
       \E value \in decode(encodeType, ResponseFields, payload) \ {Throws} :
         Report(c, value)
  /\ UNCHANGED <<envVars, optVars, replyVars, messageVars, unhandled>>

Reject(c) ==
  /\ sent[c] = "core" /\ c \in Sync
  /\ GoTo(c, "wait", "failed")
  /\ Report(c, <<"error">>)
  /\ UNCHANGED <<envVars, optVars, replyVars, messageVars, unhandled>>

\* notify publishes, with any encoding; its caller is told of a failure.
Notify(n) ==
  /\ Returned
  /\ \/ /\ conn \in {"up", "away", "draining"}
        /\ GoTo(n, "idle", "done")
        /\ sent' = [sent EXCEPT ![n] = "core"]
     \/ /\ conn \in {"none", "draining", "closed"}
        /\ GoTo(n, "idle", "failed")
        /\ UNCHANGED sent
  /\ UNCHANGED <<envVars, optVars, replyVars, msgId, stored, served, resultVars>>

-----------------------------------------------------------------------------
(* Qos1 and Qos2 *)

CallStream(c) ==
  /\ Returned
  /\ Qos(c) # 0
  /\ GoTo(c, "idle", "lookup")
  /\ timer' = timer \cup {c}
  /\ UNCHANGED <<envVars, optVars, sub, messageVars, resultVars>>

\* Mutants: a MsgId raises the Qos by one; the outcomes are swapped.
CorrectedQosRaises(o, result) ==
  CASE result = "missing" -> 0
    [] o \in WithMsgId -> qos[o] + 1
    [] OTHER -> 1

CorrectedQosSwapped(o, result) == IF result = "missing" THEN 1 ELSE 0

CorrectedQos(o, result) ==
  CASE result = "missing" -> 0
    [] qos[o] = 0 /\ o \in WithMsgId -> 2
    [] OTHER -> 1

\* The lookup of the stream changes the object it was made with.  Without a
\* connection or a manager it fails as if there were no stream.
checkRequestOpt(c, result) ==
  LET o == OptsOf[c] IN
  /\ result = "found" => JetStreamAnswers
  /\ GoTo(c, "lookup", result)
  /\ qos' = [qos EXCEPT ![o] = CorrectedQos(o, result)]
  /\ lookups' = [lookups EXCEPT ![o] = @ \cup {result}]
  /\ UNCHANGED <<envVars, replyVars, messageVars, resultVars>>

\* Mutant: the error is dropped.
FailSilently(c) ==
  /\ clearTimeout(c)
  /\ UNCHANGED resultVars

\* A failed _request clears the timer.  callSync rejects its promise; call
\* rejects a promise nobody has, and its callback is not run.
Fail(c) ==
  /\ clearTimeout(c)
  /\ IF c \in Sync
     THEN Report(c, <<"error">>) /\ UNCHANGED unhandled
     ELSE unhandled' = unhandled \cup {c} /\ UNCHANGED reports

Requesting(c, to) == GoTo(c, "found", to) \/ GoTo(c, "missing", to)

\* _request subscribes and publishes, to the stream found or to any.
_request(c) ==
  /\ CanSubscribeCore
  /\ Requesting(c, "publish")
  /\ sub' = [sub EXCEPT ![c] = "iterated"]
  /\ sent' = IF manager THEN [sent EXCEPT ![c] = "stream"] ELSE sent
  /\ msgId' = IF Qos(c) = 2 /\ OptsOf[c] \in WithMsgId THEN msgId \cup {c} ELSE msgId
  /\ UNCHANGED <<envVars, optVars, timer, stored, served, resultVars>>

_requestThrows(c) ==
  /\ ~CanSubscribeCore
  /\ Requesting(c, "failed")
  /\ Fail(c)
  /\ UNCHANGED <<envVars, optVars, sub, messageVars>>

\* The stream has a message with the MsgId of this one: the calls of a RequestOpt
\* send the same.
Duplicate(c) ==
  /\ c \in msgId
  /\ \E d \in stored \cap msgId : d # c /\ OptsOf[d] = OptsOf[c]

\* A duplicate is not stored, and acknowledged all the same.
PubAck(c) ==
  /\ c \in stored \/ Duplicate(c)
  /\ Receiving
  /\ GoTo(c, "publish", "wait")
  /\ UNCHANGED <<envVars, optVars, replyVars, messageVars, resultVars>>

\* No PubAck in five seconds, or none to come: no stream, a limit reached, no
\* connection, no manager.  The subscription stays until its timeout.
PublishFails(c) ==
  /\ GoTo(c, "publish", "failed")
  /\ Fail(c)
  /\ UNCHANGED <<envVars, optVars, sub, messageVars>>

\* The answer is the only message the subscription takes; it ends its timeout.
Arrives(c) ==
  /\ sub[c] = "iterated"
  /\ served[c] # <<>>
  /\ Receiving
  /\ sub' = [sub EXCEPT ![c] = "message"]
  /\ UNCHANGED <<envVars, optVars, phase, timer, messageVars, resultVars>>

\* Mutant: the subscription of _request has no timeout.
NoSubTimeout(c) == FALSE /\ UNCHANGED vars

\* The timeout of the subscription is that of the call and set after it.
SubTimeout(c) ==
  /\ sub[c] = "iterated"
  /\ c \notin timer
  /\ sub' = [sub EXCEPT ![c] = "timeout"]
  /\ UNCHANGED <<envVars, optVars, phase, timer, messageVars, resultVars>>

\* Mutants: the timer of the call is not cleared; the PubAck is the answer.
ReceiveKeepsTimer(c) ==
  /\ sub[c] = "message"
  /\ GoTo(c, "wait", "done")
  /\ \E r \in Range(served[c]) :
       \E value \in decode(encodeType, ResponseFields, Payload(r)) \ {Throws} :
         Report(c, value)
  /\ UNCHANGED <<envVars, optVars, replyVars, messageVars, unhandled>>

ReceivePubAck(c) ==
  /\ c \in stored
  /\ GoTo(c, "wait", "done")
  /\ clearTimeout(c)
  /\ \E value \in decode(encodeType, ResponseFields, PubAckData) \ {Throws} :
       Report(c, value)
  /\ UNCHANGED <<envVars, optVars, sub, messageVars, unhandled>>

Receive(c) ==
  /\ sub[c] = "message"
  /\ GoTo(c, "wait", "done")
  /\ clearTimeout(c)
  /\ \E r \in Range(served[c]) :
       \E value \in decode(encodeType, ResponseFields, Payload(r)) \ {Throws} :
         Report(c, value)
  /\ UNCHANGED <<envVars, optVars, sub, messageVars, unhandled>>

\* The iterator ends with the timeout; without a message, when the connection
\* closes, after which _request resolves with nothing; or the answer does not
\* decode.
ReceiveFails(c) ==
  /\ \/ sub[c] \in {"timeout", "ended"}
     \/ /\ sub[c] = "message"
        /\ \E r \in Range(served[c]) :
             Throws \in decode(encodeType, ResponseFields, Payload(r))
  /\ GoTo(c, "wait", "failed")
  /\ Fail(c)
  /\ UNCHANGED <<envVars, optVars, sub, messageVars>>

-----------------------------------------------------------------------------

\* The timer of call runs the callback; that of callSync rejects a promise of
\* its own that nobody has.
Timeout(c) ==
  /\ c \in timer
  /\ clearTimeout(c)
  /\ IF c \in Async
     THEN Report(c, <<"timeout">>) /\ UNCHANGED unhandled
     ELSE unhandled' = unhandled \cup {c} /\ UNCHANGED reports
  /\ UNCHANGED <<envVars, optVars, phase, sub, messageVars>>

\* The stream stores a message; its service handles it, again when the stream
\* delivers it again.
Store(c) ==
  /\ sent[c] = "stream"
  /\ c \notin stored
  /\ stored' = stored \cup {c}
  /\ UNCHANGED <<envVars, optVars, phase, replyVars, msgId, sent, served, resultVars>>

\* A request the server cannot decode is not handled, nor answered.
Serve(c) ==
  /\ sent[c] = "core" \/ c \in stored
  /\ Len(served[c]) < MaxServed
  /\ decode(peerType, RequestFields, RequestData) # {Throws}
  /\ \E r \in ResultsOf[c] : served' = [served EXCEPT ![c] = Append(@, r)]
  /\ UNCHANGED <<envVars, optVars, phase, replyVars, msgId, sent, stored, resultVars>>

\* Losing the connection ends no subscription; closing it ends them all, and
\* their timeouts.
Connection ==
  /\ \/ /\ ConnectStep \/ Disconnect \/ Reconnect \/ disconnect
        /\ UNCHANGED sub
     \/ /\ Closed
        /\ sub' = [c \in Calls |->
                     CASE sub[c] = "open" -> "closed"
                       [] sub[c] = "iterated" -> "ended"
                       [] OTHER -> sub[c]]
  /\ UNCHANGED <<configVars, optVars, phase, timer, messageVars, resultVars>>

Step(c) ==
  \/ \E r \in {"found", "missing"} : checkRequestOpt(c, r)
  \/ _request(c) \/ _requestThrows(c)
  \/ PubAck(c) \/ PublishFails(c)
  \/ SubTimeout(c)
  \/ Receive(c) \/ ReceiveFails(c)
  \/ Reject(c) \/ SubscriptionTimeout(c)
  \/ Timeout(c)

Next ==
  \/ \E c \in Calls :
       \/ CallCore(c) \/ CallSyncCore(c) \/ CallStream(c)
       \/ Step(c)
       \/ OnMessage(c)
       \/ Resolve(c)
       \/ Arrives(c)
       \/ Store(c)
       \/ Serve(c)
  \/ \E n \in Notifies : Notify(n)
  \/ Connection

Spec == Init /\ [][Next]_vars

\* The event loop: what a call waits for has a timer, and timers expire.
Fairness == \A c \in Calls : WF_vars(Step(c))

FairSpec == Spec /\ Fairness

-----------------------------------------------------------------------------
(* Properties *)

\* What an answer decodes to is the last thing a caller is given: no timeout
\* follows it, and at most one report comes before it, of a timer that expired.
ResponseIsLast ==
  \A c \in Calls :
    /\ \A i \in 1 .. Len(reports[c]) - 1 : ~Told(reports[c][i])
    /\ Len(reports[c]) <= 2

\* What a caller makes of the Response a handler returned: the same Response
\* over Protobuf, an object with names and base64 over JSON, and a string that
\* tells nothing of it over the string encoding.
Means(result) ==
  CASE encodeType = "protobuf" /\ peerType = "protobuf" -> {<<"message", result>>}
    [] encodeType = "json" /\ peerType = "json" -> {<<"object", toObject(result)>>}
    [] encodeType = "string" -> {<<"string", Payload(result)>>}
    [] OTHER -> {}

\* A call through a stream tells its caller what a handler returned for its own
\* message.  A call of core NATS may also tell a Response out of an empty
\* status (call only), or the garbage of a PubAck.
AnswerIsHandlers ==
  \A c \in Calls : \A i \in DOMAIN reports[c] :
    Told(reports[c][i]) =>
      \/ \E r \in Range(served[c]) : reports[c][i] \in Means(r)
      \/ sent[c] = "core" /\ reports[c][i] = <<"garbage">>
      \/ sent[c] = "core" /\ c \in Async /\ reports[c][i] = <<"message", NoFields>>

\* A call with a RequestOpt made for Qos1 or Qos2 is sent without the stream
\* only when a lookup with the same object, perhaps of another call, failed.
DowngradeByLookup ==
  \A c \in Calls :
    sent[c] = "core" /\ QosOf[OptsOf[c]] # 0 => "missing" \in lookups[OptsOf[c]]

\* Every call that was made settles, or leaves a rejection behind.
CallSettles ==
  \A c \in Calls :
    phase[c] # "idle" ~>
      reports[c] # <<>> \/ c \in unhandled

\* No reply subscription is left behind.
SubscriptionEnds ==
  \A c \in Calls :
    sub[c] \in {"open", "iterated"} ~> sub[c] \notin {"open", "iterated"}

-----------------------------------------------------------------------------
(* What a comment says of the program and the code does not keep *)

\* Qos2 guarantees that a message is unique: a message that goes to the stream
\* found for it carries the MsgId it was given.
MsgIdIsSent ==
  \A c \in Calls :
    /\ sent[c] = "stream" /\ lookups[OptsOf[c]] = {"found"}
    /\ QosOf[OptsOf[c]] = 2 /\ OptsOf[c] \in WithMsgId
    => c \in msgId

=============================================================================
