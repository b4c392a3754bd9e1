------------------------------ MODULE JsServer ------------------------------
(***************************************************************************)
(* The JavaScript service, js/nrpc/nrpc_server.js with the subscribe and   *)
(* queueSubscribe of js/nats/natsclient/nats_client.js: services that      *)
(* register, the messages their subscriptions hand on, and the one work    *)
(* queue all services of a server share, whatever name they give it; with  *)
(* the connection, the setup that runs beside them, and other processes    *)
(* that subscribe the same consumers.                                      *)
(***************************************************************************)
EXTENDS JsWorkQueue, JsSetup

CONSTANTS
  Services,
  KindOf,       \* "core", "group" (core with a queue group), "stream" (with a
                \* durable consumer of its own, named after the service), or
                \* "bound" (to the durable consumer of bindConsumer)
  Worked,       \* services that name a work queue
  ServiceOf,    \* the service a message is for
  MaxRegisters  \* bound: calls of register for a service

ASSUME JsServerAssumption ==
  /\ KindOf \in [Services -> {"core", "group", "stream", "bound"}]
  /\ Worked \subseteq Services
  /\ ServiceOf \in [WorkMsgs -> Services]
  /\ MaxRegisters \in [Services -> Nat]

VARIABLES
  registers,    \* calls of register for a service
  checking,     \* of those, the ones waiting for the check of the stream
  subscribing,  \* and the ones whose consumer the broker is asked for
  found,        \* and the ones it has answered, which subscribe its inbox
  serviceSubs,  \* the keys of the map
  live,         \* subscriptions of a service that still receive
  prepared,     \* history: services on a stream that registered after setup had
                \* succeeded, or whose check passed, while the connection is kept
  held,         \* services whose consumer another process subscribes
  contended,    \* history: services whose consumer was somebody else's, for a
                \* moment at least, between their register and subscription
  arrived,      \* messages the server has received
  copies,       \* copies of a message waiting for the handler of a subscription
  handled       \* history: messages the handlers of a service were given

registryVars == <<registers, checking, subscribing, found, serviceSubs, live,
                  prepared, held, contended>>
deliveryVars == <<arrived, copies, handled>>
serverVars == <<registryVars, deliveryVars>>
vars == <<serverVars, queueVars, setupVars, natsVars>>

TypeOK ==
  /\ JsWorkQueueTypeOK
  /\ JsSetupTypeOK
  /\ registers \in [Services -> Nat]
  /\ checking \in [Services -> Nat]
  /\ subscribing \in [Services -> Nat]
  /\ found \in [Services -> Nat]
  /\ serviceSubs \subseteq Services
  /\ live \in [Services -> Nat]
  /\ prepared \subseteq Services
  /\ held \subseteq Services
  /\ contended \subseteq Services
  /\ arrived \subseteq WorkMsgs
  /\ copies \in [WorkMsgs -> Nat]
  /\ handled \in [Services -> Nat]

Nothing == [s \in Services |-> 0]

Init ==
  /\ JsWorkQueueInit
  /\ JsSetupInit
  /\ registers = Nothing
  /\ checking = Nothing
  /\ subscribing = Nothing
  /\ found = Nothing
  /\ serviceSubs = {}
  /\ live = Nothing
  /\ prepared = {}
  /\ held = {}
  /\ contended = {}
  /\ arrived = {}
  /\ copies = [m \in WorkMsgs |-> 0]
  /\ handled = Nothing

-----------------------------------------------------------------------------
(* register *)

OnStream(s) == KindOf[s] \in {"stream", "bound"}

StreamOf(s) == IF OnStream(s) THEN "ours" ELSE ""

\* The services of one durable consumer.
BoundServices == {s \in Services : KindOf[s] = "bound"}

SharedWith(s) == IF KindOf[s] = "bound" THEN BoundServices ELSE {s}

\* The consumer of a service has a subscription; while the connection is away the
\* broker sees none of this process.
Attached(s) == \E t \in SharedWith(s) : t \in held \/ (conn = "up" /\ live[t] > 0)

\* What the program awaited, if it did, resolved with information.
SetUp(s) ==
  /\ OnStream(s)
  /\ conn = "up"
  /\ binding = "bound"
  /\ KindOf[s] = "bound" => adding = "bound"

\* A registration that has no subscription yet.
Pending(s) == checking[s] > 0 \/ subscribing[s] > 0 \/ found[s] > 0

\* Another process, or another service, has the consumer already.
Taken(s) ==
  /\ OnStream(s)
  /\ \/ \E t \in SharedWith(s) : t \in held \/ (t # s /\ live[t] > 0)
     \/ KindOf[s] = "bound" /\ consumer # "ours"

\* register asks the broker for the stream first.
register(s) ==
  /\ ~crashed /\ Returned
  /\ registers[s] < MaxRegisters[s]
  /\ registers' = [registers EXCEPT ![s] = @ + 1]
  /\ checking' = [checking EXCEPT ![s] = @ + 1]
  /\ prepared' = IF SetUp(s) THEN prepared \cup {s} ELSE prepared
  /\ contended' = IF Taken(s) THEN contended \cup {s} ELSE contended \ {s}
  /\ UNCHANGED <<subscribing, found, serviceSubs, live, held, deliveryVars,
                 queueVars, setupVars, natsVars>>

CheckPasses(s) ==
  IF KindOf[s] = "bound"
  THEN checkConsumerAndStreamWithSubject(StreamOf(s))
  ELSE checkStreamWithSubject(StreamOf(s))

\* Whatever the check says is only logged.  The map is given the promise of
\* the subscription, and holds the latest one only.
Checked(s) ==
  /\ ~crashed
  /\ checking[s] > 0
  /\ checking' = [checking EXCEPT ![s] = @ - 1]
  /\ serviceSubs' = serviceSubs \cup {s}
  /\ prepared' = IF OnStream(s) /\ CheckPasses(s) THEN prepared \cup {s} ELSE prepared
  /\ UNCHANGED <<registers, found, held, contended, deliveryVars, setupVars,
                 natsVars>>

\* A subscription of core NATS is there at once.
subscribe(s) ==
  /\ ~OnStream(s) /\ CanSubscribeCore
  /\ Checked(s)
  /\ live' = [live EXCEPT ![s] = @ + 1]
  /\ UNCHANGED <<subscribing, queueVars>>

\* Without a usable client the promise is rejected: nobody has it, which ends
\* the process or, before Node.js 15, is a warning.
Unhandled ==
  /\ crashed' \in BOOLEAN
  /\ UNCHANGED <<queue, interval, timers, started, listening, added, processed,
                 cleared, stops>>

subscribeThrows(s) ==
  /\ ~OnStream(s) /\ ~CanSubscribeCore
  /\ Checked(s)
  /\ Unhandled
  /\ UNCHANGED <<live, subscribing>>

\* For a subscription to a stream the library first asks the broker for the
\* consumer.  A queue group changes nothing: it is set where the builder of the
\* options has its method.
jstreamSubscribe(s) ==
  /\ OnStream(s)
  /\ Checked(s)
  /\ subscribing' = [subscribing EXCEPT ![s] = @ + 1]
  /\ UNCHANGED <<live, queueVars>>

Subscribing(s) ==
  /\ ~crashed
  /\ subscribing[s] > 0
  /\ subscribing' = [subscribing EXCEPT ![s] = @ - 1]
  /\ UNCHANGED <<registers, checking, serviceSubs, live, prepared, held,
                 contended, deliveryVars, setupVars, natsVars>>

\* The broker finds the stream, and the consumer where one is named, and the
\* library no subscription of the consumer.
Subscribable(s) ==
  /\ JetStreamAnswers
  /\ stream = "ours"
  /\ KindOf[s] = "bound" => consumer # "none"
  /\ ~Attached(s)

lookedUp(s) ==
  /\ Subscribing(s)
  /\ Subscribable(s)
  /\ found' = [found EXCEPT ![s] = @ + 1]
  /\ UNCHANGED queueVars

subscribeRejected(s) ==
  /\ Subscribing(s)
  /\ ~Subscribable(s)
  /\ Unhandled
  /\ UNCHANGED found

\* The inbox the broker answered is subscribed, and a consumer that did not exist
\* is created with it.
Subscribes(s) ==
  /\ ~crashed
  /\ found[s] > 0
  /\ found' = [found EXCEPT ![s] = @ - 1]
  /\ UNCHANGED <<registers, checking, subscribing, serviceSubs, prepared,
                 held, deliveryVars, setupVars, natsVars>>

subscribed(s) ==
  /\ Subscribes(s)
  /\ CanSubscribeCore
  /\ live' = [live EXCEPT ![s] = @ + 1]
  /\ contended' = (contended \cup {t \in SharedWith(s) : Pending(t)}) \ {s}
  /\ UNCHANGED queueVars

\* The connection is lost meanwhile, or another subscription has created the
\* consumer.
subscribedLate(s) ==
  /\ Subscribes(s)
  /\ conn # "up" \/ (KindOf[s] = "stream" /\ Attached(s))
  /\ Unhandled
  /\ UNCHANGED <<live, contended>>

\* The assertion compares typeof with a class: it fails for every service, the
\* promise is rejected and nothing is unsubscribed.
unregister(s) ==
  /\ ~crashed
  /\ s \in serviceSubs
  /\ UNCHANGED vars

-----------------------------------------------------------------------------
(* Messages *)

\* Mutant: subscribe sets no max.
publishToAll(m) ==
  LET s == ServiceOf[m] IN
  /\ ~crashed /\ conn = "up"
  /\ m \notin arrived /\ live[s] > 0
  /\ arrived' = arrived \cup {m}
  /\ copies' = [copies EXCEPT ![m] = live[s]]
  /\ UNCHANGED <<registryVars, handled, queueVars, setupVars, natsVars>>

\* A message is published, or a stream sends one it kept: every subscription of
\* its subject or of its consumer's inbox gets a copy, but one member of a group
\* only.  subscribe asks for max: 1, so a core subscription ends with its
\* first message.  What nobody receives does not concern the server.
publish(m) ==
  LET s == ServiceOf[m]
      core == KindOf[s] = "core"
  IN
  /\ ~crashed /\ conn = "up"
  /\ m \notin arrived /\ live[s] > 0
  /\ arrived' = arrived \cup {m}
  /\ copies' = [copies EXCEPT ![m] = IF KindOf[s] = "group" THEN 1 ELSE live[s]]
  /\ live' = IF core THEN [live EXCEPT ![s] = 0] ELSE live
  /\ UNCHANGED <<registers, checking, subscribing, found, serviceSubs, prepared,
                 held, contended, handled, queueVars, setupVars, natsVars>>

\* Mutant: the first message does not cancel the timeout.
subscriptionTimeoutLate(s) ==
  /\ ~crashed
  /\ KindOf[s] = "core"
  /\ registers[s] > checking[s]
  /\ live' = [live EXCEPT ![s] = @ - 1]
  /\ UNCHANGED <<registers, checking, subscribing, found, serviceSubs, prepared,
                 held, contended, deliveryVars, queueVars, setupVars, natsVars>>

\* Ten seconds without a message end a core subscription too.
subscriptionTimeout(s) ==
  /\ ~crashed
  /\ KindOf[s] = "core"
  /\ live[s] > 0
  /\ live' = [live EXCEPT ![s] = @ - 1]
  /\ UNCHANGED <<registers, checking, subscribing, found, serviceSubs, prepared,
                 held, contended, deliveryVars, queueVars, setupVars, natsVars>>

\* workHandler: the work queue of the server takes the message, or it is
\* processed at once, in a callback of the NATS library, which may catch what
\* the process throws.
workHandler(m) ==
  LET s == ServiceOf[m] IN
  /\ ~crashed
  /\ copies[m] > 0
  /\ copies' = [copies EXCEPT ![m] = @ - 1]
  /\ handled' = [handled EXCEPT ![s] = @ + 1]
  /\ IF s \in Worked
     THEN addMsg(m)
     ELSE /\ crashed' \in (IF MayThrow(m) THEN BOOLEAN ELSE {FALSE})
          /\ UNCHANGED <<queue, interval, timers, started, listening, added,
                         processed, cleared, stops>>
  /\ UNCHANGED <<registryVars, arrived, setupVars, natsVars>>

WorkQueueStep == QueueStep /\ UNCHANGED <<serverVars, setupVars, natsVars>>

-----------------------------------------------------------------------------
(* Connection and setup beside them *)

ConnectionStep ==
  /\ ~crashed
  /\ \/ /\ ConnectStep \/ Reconnect
        /\ UNCHANGED prepared
     \/ Disconnect /\ prepared' = {}
  /\ UNCHANGED <<registers, checking, subscribing, found, serviceSubs, live,
                 held, contended, deliveryVars, queueVars, setupVars>>

\* The subscriptions end; what they have received is handed on first.
drain ==
  /\ ~crashed
  /\ disconnect
  /\ live' = Nothing
  /\ prepared' = {}
  /\ UNCHANGED <<registers, checking, subscribing, found, serviceSubs,
                 held, contended, deliveryVars, queueVars, setupVars>>

\* The subscriptions end with the connection; the work queue does not.
closed ==
  /\ ~crashed
  /\ conn = "draining" => \A m \in WorkMsgs : copies[m] = 0
  /\ Closed
  /\ live' = Nothing
  /\ copies' = [m \in WorkMsgs |-> 0]
  /\ UNCHANGED <<registers, checking, subscribing, found, serviceSubs, prepared,
                 held, contended, arrived, handled, queueVars, setupVars>>

\* A consumer is given another inbox: who was answered the old one, or subscribed
\* it before the connection was lost, subscribes what nobody delivers to.
Redirect(services) ==
  /\ found' = [s \in Services |-> IF s \in services THEN 0 ELSE found[s]]
  /\ live' = [s \in Services |-> IF s \in services THEN 0 ELSE live[s]]

ConsumerAttached == \E s \in BoundServices : Attached(s)

\* A program calls bindStream and bindConsumer before register, if at all; it
\* need not wait for them.
Setup ==
  /\ ~crashed
  /\ \/ registers = Nothing /\ SetupCall /\ UNCHANGED queueVars
     \/ SetupStep(ConsumerAttached) /\ UNCHANGED queueVars
     \/ consumerUpdate(ConsumerAttached, TRUE) /\ Unhandled
  /\ Redirect(IF consumer \notin {"none", consumer'} THEN BoundServices ELSE {})
  /\ UNCHANGED <<registers, checking, subscribing, serviceSubs, prepared,
                 held, contended, deliveryVars>>

-----------------------------------------------------------------------------
(* Other JavaScript processes that serve the same subjects *)

\* What others do to the consumers once the connection is given up does not concern
\* this process.
Concerned == ~crashed /\ conn \notin {"draining", "closed"}

ByAnother(services) ==
  /\ Concerned
  /\ stream = "ours"
  /\ contended' = contended \cup {s \in services : Pending(s)}
  /\ UNCHANGED <<registers, checking, subscribing, serviceSubs, prepared,
                 deliveryVars, queueVars, stream, binding, adding, updating, natsVars>>

\* Another process binds the consumer, with an inbox of its own.
OtherBindsConsumer ==
  /\ ~ConsumerAttached
  /\ ByAnother(BoundServices)
  /\ consumer' = "other"
  /\ Redirect(BoundServices)
  /\ UNCHANGED held

\* It subscribes a consumer it finds without a subscription.  The one of a stream
\* service it may create, with an inbox of its own.
OtherSubscribes(s) ==
  /\ OnStream(s)
  /\ ~Attached(s)
  /\ KindOf[s] = "bound" => consumer # "none"
  /\ ByAnother(SharedWith(s))
  /\ held' = held \cup SharedWith(s)
  /\ \E moved \in {FALSE, KindOf[s] = "stream"} : Redirect(IF moved THEN {s} ELSE {})
  /\ UNCHANGED consumer

OtherLeaves(s) ==
  /\ Concerned
  /\ s \in held
  /\ held' = held \ SharedWith(s)
  /\ UNCHANGED <<registers, checking, subscribing, found, serviceSubs, live, prepared,
                 contended, deliveryVars, queueVars, setupVars, natsVars>>

Next ==
  \/ \E s \in Services :
       \/ register(s)
       \/ subscribe(s) \/ subscribeThrows(s) \/ jstreamSubscribe(s)
       \/ lookedUp(s) \/ subscribeRejected(s) \/ subscribed(s) \/ subscribedLate(s)
       \/ unregister(s)
       \/ subscriptionTimeout(s)
       \/ OtherSubscribes(s) \/ OtherLeaves(s)
  \/ \E m \in WorkMsgs : publish(m) \/ workHandler(m)
  \/ WorkQueueStep
  \/ ConnectionStep \/ drain \/ closed
  \/ Setup \/ OtherBindsConsumer

Spec == Init /\ [][Next]_vars

\* The event loop runs: timers that are set expire again and again.
ExpireStep ==
  /\ \E t \in Timers : Expire(t) \/ ExpireEmpty(t)
  /\ UNCHANGED <<serverVars, setupVars, natsVars>>

Fairness == WF_vars(ExpireStep)

FairSpec == Spec /\ Fairness

-----------------------------------------------------------------------------
(* Properties *)

Before(seq, m, n) ==
  \E i \in 1 .. Len(seq) : seq[i] = m /\ \A j \in 1 .. i : seq[j] # n

Times(seq, m) == Cardinality({i \in 1 .. Len(seq) : seq[i] = m})

\* However many timers empty the array and whoever stops it, messages are
\* first processed in the order they were added.
ProcessedInOrder ==
  \A m, n \in WorkMsgs :
    Before(added, m, n) /\ n \in Range(processed) /\ m \notin cleared =>
      Before(processed, m, n)

\* Several timers may empty the array, each message is still taken from it once
\* for each time it was added: only a safe stop, which leaves the messages it
\* processed in the array, repeats them, once per stop.
RepeatedByStopOnly ==
  \A m \in WorkMsgs : Times(processed, m) <= Times(added, m) * (1 + stops)

\* A core service is given no more messages than it has registered, because
\* subscribe asks for one message.
CoreServesOnce ==
  \A s \in Services : KindOf[s] = "core" => handled[s] <= registers[s]

\* A service on a stream that registered after bindStream, and bindConsumer
\* where it names a consumer, had resolved with information, or whose check
\* passed, receives, unless the connection was lost on the way or somebody else
\* had its consumer: another process that subscribed it or gave it an inbox, or
\* another service of the same one.  Nothing in register waits for the setup or
\* for the subscription, no failure of theirs is reported, and the program's own
\* update of the consumer may still be on its way.
SetUpIsReceiving ==
  \A s \in prepared \ contended : ~Pending(s) => live[s] > 0

\* A message in the array is processed, in whatever order timers expire and
\* messages come, unless the queue is stopped, cleared or crashes.
Stopped == timers = {} /\ interval = NoTimer

QueuedIsProcessed == queue # <<>> ~> queue = <<>> \/ Stopped \/ crashed

-----------------------------------------------------------------------------
(* What a comment says of the program and the code does not keep *)

\* The timer stops when the array is empty and the next message starts it
\* again: there is one at most.
OneTimer == Cardinality(timers) <= 1

=============================================================================
