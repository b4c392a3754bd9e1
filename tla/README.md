# natsrpc: a verification development

natsrpc is a remote procedure call library over NATS, in Go and in JavaScript,
with an event bus (a broker inside the process that announces its clients).
This directory holds TLA+ models of its components, translated from the source,
the TLC configurations that check them and TLAPS proofs of the properties that
matter most. Paths below are relative to `src/`.

## 1. Inventory

### Components

| component | source | state it keeps | operations | module |
|---|---|---|---|---|
| Go client | `go/nrpc/nrpc_client.go` | per call: its goroutine, reply subscription, corrected `RequestOpt` | `Call`, `CallSync`, `Notify`, `request`, `checkRequestOpt` | `NrpcClient` |
| Go service, message processing | `go/nrpc/nrpc_server.go:24-93` | the message in `Process` | `WorkMsg.Process` | `WorkMsg` |
| Go work queue | `go/nrpc/nrpc_server.go:96-192` | `workMsgChan`, `closeChan` | `AddMsg`, `Dispatch`, `Stop` | `WorkQueue` |
| Go setup | `go/nrpc/nrpc.go`, `nrpc_server.go:286-393`, `nats_client.go:170-273` | `serviceSubs`; stream and consumers in the broker | `BindStream`, `BindConsumer`, `Register`, `UnRegister` | `ServiceSetup` |
| JetStream (external) | `nats_client.go:155-181` says how it is configured | stream, duplicate window, consumer | store, deliver, redeliver, expire, discard, ack, term | `JetStream` |
| Go NATS client | `go/nats/natsclient/nats_client.go` | connection, JetStream context | wrappers; defaults; reconnection | inside the modules of its callers, `Defaults` |
| Go event bus | `go/nats/natsserver/nats_server.go` | server, newest monitor | `Start`, `Stop`, `StartServer`, `StopServer`, `StartMonitorClient`, `StopMonitorClient`, the event handler | `EventBus` |
| JS client | `js/nrpc/nrpc_client.js` | per call: timer, reply subscription; the caller's `RequestOpt` | `call`, `callSync`, `notify`, `_checkRequestOpt`, `_request` | `JsClient` |
| JS service | `js/nrpc/nrpc_server.js:180-315` | `serviceSubs`, `workQueue` | `register`, `unregister`, the subscription's handler | `JsServer` |
| JS work queue | `js/nrpc/nrpc_server.js:76-178` | `queue`, `interval` | `addMsg`, `dispatch`, `stop`, `clearMsg`, `destroy` | `JsWorkQueue` |
| JS setup | `js/nrpc/nrpc.js`, `js/nats/natsclient/nats_client.js` | stream and consumer in the broker | `bindStream`, `bindConsumer`, the checks of `register` | `JsSetup` |
| JS connection | `js/nats/natsclient/nats_client.js` | `client`, `jsm`, `jstream` | `connect`, `disconnect`, the status loop, `closed()` | `JsNatsClient` |
| JS encodings and messages | `js/nrpc/nrpc.js`, `js/nrpc/nrpc.pb.js` | | `encode`, `decode`, `request`, `response`; `Request`, `Response` | `JsCodec` |
| logger, generated Go code, examples | `go/logger`, `*.pb.go`, `*/helloworld` | | | not modelled, see section 7 |

### How they interact

A Go call with Qos1 or Qos2 (`NrpcClient`) looks up the stream of its subject,
subscribes an inbox, publishes the request with the name of the stream and the
inbox in its headers and waits for the PubAck. The stream (`JetStream`) stores
it, unless its `Nats-Msg-Id` is in the duplicate window, and delivers it to the
durable consumer of the service. The subscription's goroutine runs
`WorkMsg.Process` (`WorkMsg`), or hands the message to the work queue the
service names, where one goroutine, and every safe `Stop`, runs it
(`WorkQueue`). `Process` sends `+WPI`, parses, runs the handler, encodes,
compares `ExpectedStream`, then either terminates the message or acknowledges it
and publishes the response to the inbox. With Qos0 nothing but core NATS is
used; a Qos0 call on the subject of a stream gets the PubAck of the stream *and*
the response of the service on the same inbox. `StreamCall` composes the three
modules with the network; processes attach to and detach from the stream as
`ServiceSetup` describes. A handler may call a service of its own work queue,
whose message comes back to the queue it holds up.

The JavaScript side has the same roles in an event loop. A program awaits
`connect` (`JsNatsClient`) and goes on whatever came of it. It binds stream and
consumer (`JsSetup`) and registers (`JsServer`), waiting for either or not;
`register` looks the stream up, logs what it finds and subscribes, and the
promise of the subscription goes into the map unawaited. What a subscription
receives is processed in its callback or goes to the one queue of the server
(`JsWorkQueue`). A call (`JsClient`) sets a timer, looks the stream up, which
changes the `RequestOpt` it was given, subscribes and publishes; what arrives is
decoded with the encoding of the client, whatever the server encoded with
(`JsCodec`). The event bus is a broker for both languages.

### What is hard

Two answers on one inbox; an answer before the goroutine that waits for it;
late answers and repeated timeouts; retries of a publish that was stored; a
service that dies between handler and acknowledgement; acknowledgements that get
lost; redelivery against expiry; two receivers of one channel; lookups that are
stale when used (the stream, the consumer and its inbox, a shared `RequestOpt`);
who deletes or moves a shared consumer; requests that fail, done or not; a handler that waits for the queue it runs in; promises nobody
awaits, whose failure nobody sees; statuses and PubAcks that decode as answers;
timers nobody clears; a monitor that is started twice. Every hazard, at its line,
is in `PROJECT.json` under "hazards" with the properties that cover it.

## 2. Modules

| module | what it models | composed of |
|---|---|---|
| `Messages` | calls, notifications, MsgIds: the constants the parts share | |
| `NrpcClient` | the Go client, and the wires its messages are on | `Messages` |
| `JetStream` | the broker (external) | `Messages` |
| `WorkMsg` | `Process` of a stream service, its subscription, crash and restart | `Messages` |
| `StreamCall` | a remote call over a stream, end to end | the three above |
| `Rpc` | abstract: what a remote call promises | |
| `Defaults` | the configured limits | |
| `WorkQueue` | the Go work queue under any number of `Stop`s, with handlers that call its services | |
| `ServiceSetup` | setting up streams, consumers, services by several processes | |
| `JsNatsClient` | the JavaScript connection | |
| `JsSetup` | setting up the stream and the consumer of a JavaScript service | `JsNatsClient` |
| `JsWorkQueue` | the JavaScript work queue | `JsNatsClient` |
| `JsServer` | the JavaScript service with its setup, its queue and its connection | `JsSetup`, `JsWorkQueue` |
| `JsCodec` | the JavaScript messages and their three encodings | |
| `JsClient` | the JavaScript client over its connection and encodings | `JsNatsClient`, `JsCodec` |
| `EventBus` | the event bus and its monitors | |
| `MC*` | instances for TLC | |
| `StreamCall_proof`, `StreamCallAnswers_proof`, `StreamCallRuns_proof` | theorems about `StreamCall`: types, what is reported, how often handlers run and the refinement of `Rpc` | each extends the one before |
| `WorkQueue_proof`, `ServiceSetup_proof`, `JsServer_proof`, `JsClient_proof`, `EventBus_proof` | theorems about the module of that name | |

Names of variables and actions are those of the code where TLA+ allows it
(`workMsgChan`, `closeChan`, `serviceSubs`, `checkRequestOpt`, `StopSafe`, ...);
"map" in `PROJECT.json` gives the lines of each definition.

**StreamCall.** An action is what happens between two points where a process
may be interrupted: a send, a receive, a wait. `phase` of a call is the
statement it waits at, `step` of a subscription the next statement of `Process`.
`req`, `ack`, `rep` are the messages in flight, taken in any order; `Lossy`
lets each be lost. `execs`, `reports`, `found` are histories. Time is a `Tick`
that ages what the broker holds; a tick is five seconds in the default instance
and ages saturate at the limit they are compared with. A client's timeout may
come at any time.

**WorkQueue.** Each goroutine (a subscription, the dispatcher, a `Stop`) has a
program counter; the channel is a sequence of bounded length. Durations are
integers of limited width: `opts.time * time.Second` wraps around.

**ServiceSetup.** `pc` of a process is the call to the broker it is about to
make after a lookup, so every check can be stale. A consumer is modelled by its
service and the subscriptions attached to it, which are those to the inbox it
delivers to. Every configuration of `BindConsumer` brings a new inbox
(`nats_client.go:175`), as does a `Subscribe` that creates the consumer. The broker
refuses it while a subscription is attached and moves the consumer otherwise
(`Install`): a process that looked the consumer up and has not subscribed yet is
then `stale`, and will attach to an inbox nothing is delivered to. Every request
may fail, and one that changes something may have been carried out all the same;
its effect comes at the moment of the failure. `BindStreamBlindly` is the lookup
that fails otherwise than with "not found", after which any error of
`UpdateStream` is the same panic (`nats_client.go:207-217`). `lost` and `panics` are
histories: whose consumer another process moved or deleted, and who panicked in
`BindStream` although the broker served its requests.

A handler's call (`Call`, `CallAnswered`, `CallTimeout`) is what `CallSync` is to
the queue: its message joins those its service receives, and `Process` of the
caller does not return before the call does.

**JavaScript.** JavaScript runs one callback at a time: a callback, or a stretch
between two `await`s, is one action. A timer may expire whenever it is set. An
exception or a rejection that nobody handles may end the process, as Node.js
does from 15 on, or is a warning: `crashed' \in BOOLEAN` in the service,
`unhandled` in the client.

- `JsNatsClient`: `conn` is the connection as the NATS library has it (never
  made, up, reconnecting, draining, closed) and `manager` says whether
  `jetstreamManager()` has come back. `connect` may fail at either step.
- `JsSetup`: `binding` and `adding` are the statements `bindStream` and
  `bindConsumer` wait at; `updating` is the update of the consumer that nobody
  awaits. The stream of the subject may be that of another program. `consumer`
  says whose inbox the consumer delivers to, ours or another; the update and the
  add of one `bindConsumer` carry the same one, since `consumerDefaultConfig` made
  it once (`nats_client.js:176`).
- `JsServer`: a `register` passes through `checking`, `subscribing` (the NATS library
  looks the consumer up) and `found` (it subscribes what it was answered) and may be
  overtaken by any other callback at each. Other processes bind the consumer with
  an inbox of their own, subscribe it (`held`) and leave it, whenever the broker
  lets them. The library refuses a consumer anybody has subscribed (`Attached`):
  another process, this service, or another service of the same consumer. A queue
  group does not change that on a stream: `queueSubscribe` sets `opts.queue`, where
  the builder of the options has a method and reads nothing. `prepared` is a
  history: the services whose setup had succeeded when they registered, or whose
  check passed, as long as the connection is kept; `contended` those whose consumer
  was somebody else's between their `register` and their subscription.
- `JsClient`: `phase` is the `await` a call stands at; `sub` is its reply
  subscription, with a callback (Qos0) or an iterator (Qos1, Qos2).
- `JsCodec`: a message is the function of the fields it owns, bytes are what was
  written into them, and `decode` gives the set of outcomes for a payload of the
  same or another encoding: a value, a string, garbage or an exception.

**EventBus.** One caller runs the operations statement by statement (`pc`), as
they are interleaved with connections, disconnections and the handlers of all
monitors ever started. The two connections of a monitor share one state (`link`).

## 3. Runs

Every instance is the smallest in which the hazard can bite, named by its bounds.

| run | question | instance and why it is enough |
|---|---|---|
| `StreamCallDefault` | with the limits the code configures, does a retry, a crash or a restart run a handler twice, or report an answer nobody gave? | a `Call` and its `CallSync` retry with one MsgId (the first upgraded from Qos0), two subscriptions of one service so that an old `Process` overlaps a new one; a network that loses messages, acknowledgements included; MaxAge 10 s, window 10 s, AckWait 30 s in ticks of 5 s |
| `StreamCallRedelivery` | what remains when deliveries *are* repeated and messages expire or are discarded? `ImplementsRpc` checks the refinement of `Rpc` | a call and a notification, a network that loses messages, AckWait shorter than MaxAge, a stream of one message, two deliveries |
| `StreamCallSettles` | does every call end whatever the others do? | a `Call` and a `CallSync`, Qos1 and Qos0 on a stream subject, PubAck-like and garbled answers; fairness of the client alone |
| `WorkQueueFourStops` | order, loss and repetition under concurrent `Stop`s; who answers a handler that calls its own queue | two services of two messages, one of which may call the other service, capacity one, two safe and two unsafe stops, one of them with an overflowing time |
| `JsServer` | who receives after setup, checks, lookups and subscriptions nobody awaits, beside other processes; order and repetition in the queue; life of a core subscription | `sayHello`, bound to the consumer, and `ping` of core NATS, which share the queue; one message and two, of which one is faulty; a broker with and without a stream and a consumer of an earlier process; another program that binds the subject, another process that binds, subscribes and leaves the consumer; two timers, one safe stop. A service with a durable of its own and one without the queue are in the instance of `OneTimer`, which ends at its counterexample; about them, and about several services of one consumer, the theorems speak |
| `JsClient` | what a caller is told, with any encoding on either side; what sharing a `RequestOpt` does | a call, a callSync and a notify over one Qos2 option, of which the lookup of one makes a Qos0 for the other; four pairs of encodings, equal and mixed; one execution of each handler, one of which fails |
| `ServiceSetup` | who receives, who is silenced, who panics | two processes, of which one starts again; four services (durable, group, bound, core), of which a process serves two between its starts (`MaxServices`), each once; two configurations of which one replaces the other; every lookup stale, every request failing at will |
| `EventBus` | are announcements faithful and ordered? | a client with the prefix and one without, two monitors, three events, five connections (so that the limit is reached) |
| `CallbackOnce`, `StopReturns`, `OneTimer`, `MsgIdIsSent` | one disagreement each, see section 6 | |

Bounds that are artefacts of checking: `MaxTimeouts` (timeouts of one `Call`),
`MaxServed`, `MaxTimers`, `MaxStops`, `MaxRegisters`, `MaxServices`, `MaxStarts`,
`MaxMonitors`, `MaxEvents`, `Lifetime` (no timer longer than it elapses). They
only cut behaviours short; the safety properties do not mention them, and a
liveness property is only stated of work the bound allows. Where the system may
really stop (all calls made, a process gone), `CHECK_DEADLOCK FALSE` says so.

### Fairness

- `StreamCallSettles`: weak fairness of each call's own goroutine, whose `select`
  always has a timeout. Nothing is assumed of network, broker or service.
- `WorkQueueFourStops`: weak fairness of the goroutines (the Go scheduler runs what
  can run) and strong fairness of a blocked send: goroutines blocked on a Go
  channel are queued in order.
- `WorkQueueFourStops` also assumes that a call of a handler returns: `CallSync`
  always has a timeout (`nrpc_client.go:102-105`).
- `JsServer`: a timer that is set expires again and again (the event loop), nothing
  else.
- `JsClient`: each call takes its steps; what it waits for has a timer. Nothing is
  assumed of the connection, the stream or the service.
- `EventBus`: the goroutine of a subscription takes what it is delivered.

`ServiceSetup` has safety properties only.

## 4. Properties

Each is stated in words above its definition. Those worth an argument:

- `AnswerFollowsHandler`: a response is reported only after the handler ran for
  *that* message, although a PubAck comes in on the same inbox (`nrpc_client.go:163-172`).
- `AtMostOnce` and `UniqueInStream` hold **because of three constants**: MaxAge is
  below the consumer's AckWait, and the duplicate window is not below MaxAge.
  `ExecutionsBounded` is what is left without the first.
- `HandledBeforeGone`: a message leaves the stream only handled, expired,
  discarded, or with its consumer.
- `Fifo`, `InProcess`, `MessagesProcessed`: two receivers of one channel, with a
  select that may choose either ready case.
- `NestedCallNeedsStop`: the dispatcher cannot answer a call its own handler waits
  for; only a safe `Stop` that works beside it can. `MessagesProcessed` says that
  the queue goes on after the timeout.
- `ProcessedInOrder`, `RepeatedByStopOnly`: any number of timers that were never
  cleared empty the same array. A safe stop processes what is in the array and
  leaves it there, so each stop adds at most one more processing *for each time*
  a message was added: `Times(added) * (1 + stops)`.
- `SetUpIsReceiving`: `register` waits neither for the setup nor for the
  subscription, and reports no failure of theirs; a service whose setup had come
  back with information receives all the same, although the program's own update
  of the consumer may still be on its way, the stream may be asked for by another
  program and the array, timers and other services go on beside. It need not when
  somebody else had its consumer in between (`contended`): the library then refuses
  the subscription, or it is one to an inbox the consumer has left, and nobody
  reports either. The property says that there is no other way but the loss of the
  connection.
- `ResponseIsLast`: races of two timers, an answer and a closing connection.
- `AnswerIsHandlers`: what a caller reads is what a handler returned for its own
  message, through the encodings of both sides, with the exceptions the property
  names: an empty status that decodes to a Response that says Success, and the
  garbage Protobuf makes of a PubAck.
- `DeafByAnother`: a service that is registered but receives nothing has had its
  consumer moved or deleted by *another* process: by a `BindConsumer` or `Register`
  between its lookup and its subscription, or by the creator's `UnRegister`. Nothing
  a process does itself, in any order and with any failures, makes it deaf.
- `CreatorIsAlone`: check-then-act against the broker, with two lookups in flight.
- `PanicNeedsConflict`: a panic in `BindStream` has two causes, a configuration the
  broker refuses and a request that fails. The property is about a process whose
  requests were served; the other panics are steps of the same action
  (`UpdateStream`) and only told apart by the history. It says that interleaved
  lookups are no third cause.
- `AnnouncedInOrder`, `AnnouncedPerMonitor`, `EventReaches`: monitors that share
  the newest connection.

For every property of a passing run `PROJECT.json` names a mutant, a plausible bug
in a mapped definition, that violates it under the run's configuration.

## 5. Proofs

| module | theorem | argument |
|---|---|---|
| `StreamCall_proof` | `TypeCorrect` | one lemma per group of actions; `Client` by the steps of a call |
| `StreamCallAnswers_proof` | `AnswersFollowHandlers`, `AnswersNeedLookups` | the invariant is `Causality`: it follows an answer back. What is delivered or in `Process` was stored (`DeliveredWasStored`); who is about to respond has executed, and to reply has found the stream (`RespondedWasExecuted`); what is on the wire or reported was served (`AnsweredWasServed`). None of the three is inductive alone |
| `StreamCallAnswers_proof` | `AnswerEndsCall` | `LastAnswer`: a call that still waits has reported timeouts only, and a `CallSync` that waits has reported nothing; so whatever comes next is either another timeout or the end |
| `StreamCallAnswers_proof` | `GoneIsHandledOrLimit` | an action property, with `Causality`: only a consumer's ack or term, the clock and the limit of the stream take a message away, and who acks or terms has executed |
| `StreamCallRuns_proof` | `IdsUniqueInStream`, assuming MaxAge <= Duplicates | the invariant is `Window`: the id of a message in the stream is younger in the window than the message is in the stream, so the window cannot close before the message is gone |
| `StreamCallRuns_proof` | `HandlersRunAtMostOnce`, assuming MaxAge <= AckWait | the invariant is `Once`: a pending message has waited no longer than it has been stored (`DueAfterExpiry`), hence is never redelivered; its only delivery is in one place: the inbox, `Process`, or executed (`OneDelivery`) |
| `StreamCallRuns_proof` | `RunsAreBounded` | `DeliveriesCount`: for each message the deliveries that wait, the subscriptions that run it (a set, counted by the library's theorems) and the executions are together no more than `deliv` |
| `StreamCallRuns_proof` | `CallsImplementRpc` | the refinement, step by step: initial states map to initial states; each step changes the status of at most one call or message, and is the step of `Rpc` that does so. A handler may run only for a message that was sent (`StoredWasSent`), an answer needs an execution (`Causality`) and is the last (`LastAnswer`), and the bound on executions, `RunsLimit`, is `Once` where MaxAge <= AckWait and `DeliveriesCount` otherwise |
| `WorkQueue_proof` | `TypeCorrect`, `QueueIsFifo` | `accepted = started \o workMsgChan` is inductive with the types |
| `WorkQueue_proof` | `OnlySecondClosePanics` | `closeChan` is closed only when an unsafe `Stop` has returned |
| `WorkQueue_proof` | `NestedCallNeedsAStop` | `CallInv`: a message that was not sent is nowhere (`Unsent`), and until a safe `Stop` begins, a call that waits has its caller in the dispatcher's `Process`, so nobody takes its message from the channel |
| `WorkQueue_proof` | `ServicesKeepOrder` | `OrderInv`: a message of a service waits behind those the service received before it (`Behind`) in the subscription, in `AddMsg` and in the channel; with `Fifo` this is the order they start in |
| `WorkQueue_proof` | `TakenIsProcessed` | `OnceInv`: a message is in one place on its way into the channel (`PlacedOnce`) and is accepted once (`AcceptedOnce`), so that two workers never hold the same one |
| `JsClient_proof` | `AnswerEndsTheCall` | `ReportInv` relates the phase of a call, its timer and its reports: a call that waits has at most the report of a timer that is gone, and one that is done has no timer |
| `JsClient_proof` | `DowngradeNeedsLookup` | a `RequestOpt` made for a stream has Qos0 only when a lookup with it failed, and `missing` is never forgotten |
| `JsClient_proof` | `AnswersAreHandlers` | `AnswerInv`: a handler whose server encodes JSON never runs for a Protobuf client (`Served`); a payload of a handler decodes to what `Means` says or throws (`AnswerMeans`, by the pairs of encodings); what is reported came from such a payload, a status or a PubAck (`Reported`) |
| `JsClient_proof` | `TypesAreKept` | with `Inv` and `AnswerInv` |
| `JsServer_proof` | `SetUpServicesReceive` | six parts: types (`Counts`); the connection comes up once (`Link`); what setup made stays in the broker (`Kept`); a prepared service found its stream and consumer there, over a connection that is kept (`Ready`); another process that has a consumer was noticed by the registrations it concerns (`AllNoticed`); and a prepared service receives, is contended, or is on its way to a consumer nobody has (`Underway`). What its subscription asks the broker is then always answered with success |
| `JsServer_proof` | `TypesAreKept` | `Typed`: the sequences, timers, setup and counters, with the invariant above |
| `JsServer_proof` | `ArrayKeepsOrder` | `OrderKept`: of two messages added in this order the first was processed before, or is still before the other in the array and the other was not processed. It is inductive for a message taken by any timer, and for a safe stop, which processes a prefix and takes nothing |
| `JsServer_proof` | `OnlyStopsRepeat` | `RepeatInv`: what was processed *and* what is still in the array are together covered by additions and stops; the array alone is covered by the additions |
| `JsServer_proof` | `CoreIsServedOnce` | `ServedOnce`: every registration of a core service is in one of four places, which are counted: waiting for its check, live, a copy on its way, handled; lookups and inboxes concern stream services only |
| `ServiceSetup_proof` | `TypeCorrect` | with `StreamedOnly`: only a service of a stream gets a consumer |
| `ServiceSetup_proof` | `PanicsNeedConflicts` | the stream always has the configuration of some process, and never goes away once it is there, so an update that follows a lookup that found it meets a configuration (`Configured`) |
| `ServiceSetup_proof` | `UnRegistersSilence` | `Numbered`: numbers of subscriptions are given once, and the map holds the only one of a service that was registered once |
| `ServiceSetup_proof` | `CreatorsAreAlone`, `DeafnessNeedsAnother` | `Sharing`: who is attached is attached to a consumer that exists; nobody is attached beside the creator without a queue group (`Alone`); what a process that is about to attach has looked up is still true, or another process has changed it and the subscription is `lost` already (`LookedUp`); and a process deletes only the consumer of a service it serves no more (`Unserved`), which is why its own `UnRegister` cannot make it deaf |
| `EventBus_proof` | `TypesAreKept` | with `Line`: monitors are started one after the other (the stages that are not `none` are an interval), so that the caller's statements are about the newest |
| `EventBus_proof` | `OneMonitorKeepsOrder` | `OrderInv`: what a single monitor announced *followed by what waits for it* embeds in what happened (`Embeds`: the lemmas say that it is transitive and kept by appending and by leaving an element out); and only a subscribed monitor has something waiting |
| `EventBus_proof` | `MonitorsAnnounceOnce` | `PerInv`: the announcements of an event and the places where it waits are no more than its occurrences times the monitors; an event adds one place for each subscribed monitor, a handler exchanges a place for an announcement |

They hold for any number of calls, subscriptions, processes, services, stops,
timers, monitors and any limits. The assumptions are the named `ASSUME`s of the modules,
which TLC evaluates on every run, and the two inequalities above, which are what
the configured constants satisfy (10 s <= 10 s, 10 s <= 30 s).

Two of the assumptions deserve a word. `WorkQueueAssumption` says that every
delivery is a message of its own: the subscription hands `AddMsg` a new
`*nats.Msg` each time (`nrpc_server.go:310-323`), a redelivery included, so
what is equal in the model is the same delivery. `ResultsAssumption` of
`JsClient` says that a handler returns a Response with fields Protobuf keeps. It
stands for the round trip of `JsCodec`, whose folds over the fields of a message
would need induction; TLC evaluates it, and `MCJsClient` checks the round trip
on a set of messages beside.

Every safety property of a passing run is now a theorem: the invariants, the
action property `HandledBeforeGone` and the refinement `ImplementsRpc`. Only
model-checked are the liveness properties, which are out of the prover's reach
(`CallSettles` of both clients, `AddMsgReturns`, `MessagesProcessed`,
`QueuedIsProcessed`, `SubscriptionEnds`, `EventReaches`), and the round trip of
the codec (induction over data).

## 6. What the code does not keep

- `CallbackOnce` (`nrpc_client.go:183`): a `Call` runs its callback once per elapsed
  timeout and again for a late answer; `helloworld.go:49-66` assumes once.
- `StopReturns` (`nrpc_server.go:185`): a Duration multiplied by `time.Second`; the
  default three seconds become 95 years and a safe `Stop` never returns.
- `OneTimer` (`nrpc_server.js:138`): `this.interval` in a plain function clears
  nothing; each burst of messages leaves another timer.
- `MsgIdIsSent` (`nrpc_client.js:200`): a found stream turns Qos2 into Qos1, and the
  MsgId is never sent.

Seen in the models, without a run of their own: `Readme.md:10-11` says that Qos1
and Qos2 lose no message and that Qos2 is unique. A message whose PubAck came is
still dropped unhandled when no consumer exists (interest retention), after ten
seconds, or beyond a hundred messages (`HandledBeforeGone` lists exactly these
ways), and uniqueness lasts for the ten seconds of the duplicate window.

In the JavaScript code, seen while it was modelled and part of the models:

- `nats_client.js:119` tests `isClosed()` the wrong way round: a connection whose
  manager failed stays open, and one that is closed is closed again. The program
  that caught the rejection goes on with a client that has no JetStream.
- `nats_client.js:68` says that the process exits when the connection is closed;
  the code only logs, and nothing connects again.
- `nrpc.js:135`: the check of a service with a consumer asserts an *empty* stream
  name, so it fails for every service that has both; the failure is only logged.
- A "no responders" status (Qos0) decodes over Protobuf to a Response without
  fields, whose result is `Success`.
- `verify` is called with bytes, which own no field: it never rejects anything.
- The string encoding of an object is `[object Object]`: its answers say nothing.
- A Qos0 call asserts a Buffer and fails with every encoding but Protobuf.
- `helloworld.js:21` passes a function where an array of names is asserted.

## 7. Approximations, and what is not modelled

- One publish per call, so redelivered requests of the NATS library are not seen;
  a `Tick` ages messages, window and deliveries together, as one clock.
- The order of publishes of one connection is not used: requests, acks and replies
  are taken in any order, which allows more than NATS does.
- `ServiceSetup`: a request that failed and is carried out later than its failure is
  taken to be carried out at once or not at all. Which configurations replace
  each other is a parameter (`Compatible`), whatever the reason. A core subscription that fails, on a closed connection, is left
  out: the process has no other use for one. What `Usable` and `Install` say of the
  NATS client and server comes from how the code uses them.
- `WorkQueue`: a handler calls once; a nested message calls nothing itself.
- `JsServer`: a stream delivers a message once; redelivery is `StreamCall`'s.
  Messages that no subscription receives are left out, and setup calls come
  before the first `register`, as in the programs of the repository. Another
  process looks a consumer up and subscribes it in one step, and what others do
  after the connection was given up (draining, closed) is left out. The other
  processes are JavaScript ones, which never delete a consumer (`unregister` fails);
  a Go process that created one of the same name does, in `UnRegister`, which
  `ServiceSetup` models between Go processes.
- `JsSetup`: while the connection is up the broker answers every request, with
  success or a refusal; otherwise it fails. One stream has the subject at a time.
- `NrpcClient`: a `RequestOpt` is given (`Call` reads `opt.Qos` before
  `checkRequestOpt` would replace a nil one) and its Timeout is not zero, on which
  `checkRequestOpt` panics (`nrpc_client.go:266-268`). The subject of a message is
  that of its service. In the code `Notify` does not lower the name of its function
  (`nrpc_client.go:205`), as `Call` and `Register` do: a notification of a function
  with an upper-case letter reaches no service, which in the model is one that
  is lost.
- `JsClient`: a `RequestOpt` has a timeout that is not zero (`nrpc_client.js:193`
  asserts it, outside any `try` of `call`).
- `JsClient`: an unhandled rejection ends the process on Node.js 15 and later. The
  model lets the other calls go on; a process that ended takes no more steps,
  which the safety properties allow and the fairness excludes. A handler may run
  for a message at any time after it was sent, also after its caller gave up.
- `JsNatsClient`: `this.connected` is left out, since nothing reads it; it is set
  once and, against its comment (`nats_client.js:37`), keeps its value when the
  connection is lost. `MsgHdrsImpl` is taken as what the `nats` package exports.
- `EventBus`: the events of the monitors' own connections are left out, although
  `test-client-event` has the prefix; messages of a connection that is away are
  kept or lost. The broker writes its events as `nats_server.go:246-285` reads them:
  the returns on an event that does not decode, or of another type, are not taken.
  What waits for a monitor whose connection closes is dropped, but for an event
  its goroutine has taken already.
- Encodings of the Go side (`Marshal`, `Unmarshal`, `ParseRequest`) are constants or
  choices of the models (`AnswerOf`, `Unencodable`): whether a payload decodes and
  whether it looks like a PubAck. Those of the JavaScript side are `JsCodec`, where
  bytes are the sequence of what was written to them, not their bits.
- Not modelled: the logger and the output of the example programs (no state);
  generated Go code; of the generated JavaScript, the delimited forms,
  `fromObject` and `getTypeUrl`, which nothing calls; wrappers no component calls
  (`Drain`, `Flush`, `FetchConsumer`, `checkSubject`); `getCallerFuncName` and
  `getFunArgsName`, which read names out of source text and stacks.

## 8. Plan

Order: the way of a message first (client, broker, service, their composition),
then the queue, then setup, then the JavaScript side and the event bus.

Done: all of section 2.

Next, in this order:

1. `CoreCall`: Qos0 between a Go client and core services, with "no responders" and
   queue groups; it should refine `Rpc` too.
2. Proofs: the safety properties of the runs are proved. What is worth proving
   next are facts about single components that the proofs above need only inside:
   that `JsSetup` never changes the stream of another program, and that the
   steps of `NrpcClient`, `JetStream` and `WorkMsg` keep their own types by
   themselves, for use in `CoreCall`.
