---------------------------- MODULE ServiceSetup ----------------------------
(***************************************************************************)
(* How the processes of a Go service set themselves up side by side:       *)
(* BindStream and BindConsumer of go/nrpc/nrpc.go, AddStream and           *)
(* AddConsumer of go/nats/natsclient/nats_client.go, Register and          *)
(* UnRegister of go/nrpc/nrpc_server.go.  All of them look something up in *)
(* the broker and act on the answer later, while other processes change it.*)
(*                                                                         *)
(* All processes serve one subject, with one stream.  A consumer is        *)
(* modelled by the service it is for and the subscriptions attached to it: *)
(* those to the inbox it delivers to.  It has a new inbox when it is made  *)
(* and when it is updated; who looked it up before subscribes to the old   *)
(* one.  Any request may fail, answered or not: one that changes something *)
(* may have done so all the same.                                          *)
(***************************************************************************)
EXTENDS Naturals, FiniteSets

CONSTANTS
  Procs,
  Services,
  Streamed,     \* services with a streamName
  Grouped,      \* services with a queueName
  Bound,        \* services with a consumerName
  Configs,      \* stream configurations
  ConfigOf,     \* the one a process binds
  Compatible,   \* pairs <<old, new>> the broker takes as an update
  NoConfig,
  MaxStarts,    \* bound: starts of a process
  MaxServices,  \* bound: services a process is subscribed for since it started
  MaxRegisters  \* bound: subscriptions a process makes for a service

ASSUME ServiceSetupAssumption ==
  /\ Streamed \subseteq Services
  /\ Grouped \subseteq Services
  /\ Bound \subseteq Streamed
  /\ ConfigOf \in [Procs -> Configs]
  /\ NoConfig \notin Configs
  /\ Compatible \subseteq Configs \X Configs
  /\ \A c \in Configs : <<c, c>> \in Compatible
  /\ MaxStarts \in [Procs -> Nat]
  /\ MaxServices \in Nat
  /\ MaxRegisters \in [Procs -> [Services -> Nat]]

\* The n-th subscription a process makes for a service since it started.
Subs == Procs \X Services \X (Nat \ {0})
NoSub == 0

VARIABLES
  stream,      \* the configuration of the stream
  consumers,   \* services whose consumer exists
  attached,    \* subscriptions the consumer delivers to
  stale,       \* processes that will attach to an inbox the consumer has left
  pc,          \* what a process does, and for which service
  open,        \* subscriptions of the processes
  creator,     \* those whose Subscribe created the consumer
  serviceSubs, \* the map of a server: the number of a subscription
  registers,   \* subscriptions a process made for a service since it started
  starts,      \* history: starts of a process
  panics,      \* history: processes that panicked in BindStream although the
               \* broker served the requests of that call
  lost         \* history: subscriptions whose consumer another process moved or
               \* deleted since it was looked up for them

brokerVars == <<stream, consumers, attached, stale>>
serverVars == <<open, creator, serviceSubs, registers>>
historyVars == <<starts, panics, lost>>
vars == <<brokerVars, pc, serverVars, historyVars>>

Steps == {"addStream", "updateStream", "updateBlindly"}
ServiceSteps ==
  {"addConsumer", "updateConsumer", "subscribe", "attach", "create", "delete"}

TypeOK ==
  /\ stream \in Configs \cup {NoConfig}
  /\ consumers \subseteq Streamed
  /\ stale \subseteq Procs
  /\ pc \in [Procs -> {<<"down">>, <<"up">>} \cup {<<i>> : i \in Steps}
                       \cup ServiceSteps \X Services]
  /\ open \subseteq Subs
  /\ attached \subseteq open
  /\ creator \subseteq open
  /\ serviceSubs \in [Procs -> [Services -> Nat]]
  /\ registers \in [Procs -> [Services -> Nat]]
  /\ starts \in [Procs -> Nat]
  /\ panics \subseteq Procs
  /\ lost \subseteq Subs

Init ==
  /\ stream = NoConfig
  /\ consumers = {}
  /\ attached = {}
  /\ stale = {}
  /\ pc = [p \in Procs |-> <<"down">>]
  /\ open = {}
  /\ creator = {}
  /\ serviceSubs = [p \in Procs |-> [s \in Services |-> NoSub]]
  /\ registers = [p \in Procs |-> [s \in Services |-> 0]]
  /\ starts = [p \in Procs |-> 0]
  /\ panics = {}
  /\ lost = {}

-----------------------------------------------------------------------------
(* Processes *)

GoTo(p, from, to) ==
  /\ pc[p] = from
  /\ pc' = [pc EXCEPT ![p] = to]

Return(p, from) == GoTo(p, from, <<"up">>)

\* What a step leaves alone that subscribes, and ends, nothing.
ServerStays == UNCHANGED <<attached, serverVars>>

NewSub(p, s) == <<p, s, registers[p][s] + 1>>
SubsOf(p) == {i \in open : i[1] = p}
AttachedTo(s) == {i \in attached : i[2] = s}
Attaching(s) == {p \in Procs : pc[p] = <<"attach", s>>}

Start(p) ==
  /\ starts[p] < MaxStarts[p]
  /\ GoTo(p, <<"down">>, <<"up">>)
  /\ starts' = [starts EXCEPT ![p] = @ + 1]
  /\ lost' = {i \in lost : i[1] # p}
  /\ UNCHANGED <<brokerVars, serverVars, panics>>

\* A process ends, by Panicf for one: its subscriptions do, the consumers it
\* made stay.
Panicf(p) ==
  /\ pc' = [pc EXCEPT ![p] = <<"down">>]
  /\ open' = open \ SubsOf(p)
  /\ attached' = attached \ SubsOf(p)
  /\ creator' = creator \ SubsOf(p)
  /\ serviceSubs' = [serviceSubs EXCEPT ![p] = [s \in Services |-> NoSub]]
  /\ registers' = [registers EXCEPT ![p] = [s \in Services |-> 0]]

Crash(p) ==
  /\ pc[p] # <<"down">>
  /\ Panicf(p)
  /\ stale' = stale \ {p}
  /\ UNCHANGED <<stream, consumers, historyVars>>

-----------------------------------------------------------------------------
(* BindStream *)

\* StreamInfo decides: only "stream not found" leads to AddStream, any other
\* failure to UpdateStream, as a stream that is found does.
BindStream(p) ==
  /\ GoTo(p, <<"up">>,
          IF stream = NoConfig THEN <<"addStream">> ELSE <<"updateStream">>)
  /\ UNCHANGED <<brokerVars, serverVars, historyVars>>

BindStreamBlindly(p) ==
  /\ GoTo(p, <<"up">>, <<"updateBlindly">>)
  /\ UNCHANGED <<brokerVars, serverVars, historyVars>>

PanicInBindStream(p, served) ==
  /\ Panicf(p)
  /\ panics' = IF served THEN panics \cup {p} ELSE panics

\* Mutant: an error of AddStream is a panic, as it is in AddConsumer.
AddStreamPanics(p) ==
  /\ pc[p] = <<"addStream">>
  /\ UNCHANGED <<consumers, stale, starts, lost>>
  /\ IF stream \in {NoConfig, ConfigOf[p]}
     THEN /\ Return(p, <<"addStream">>)
          /\ stream' = ConfigOf[p]
          /\ ServerStays /\ UNCHANGED panics
     ELSE PanicInBindStream(p, TRUE) /\ UNCHANGED stream

\* The stream may exist by now: with this configuration the broker agrees,
\* with another, or when the request fails, BindStream returns an error.
AddStream(p) ==
  /\ Return(p, <<"addStream">>)
  /\ stream' \in IF stream = NoConfig THEN {NoConfig, ConfigOf[p]} ELSE {stream}
  /\ ServerStays
  /\ UNCHANGED <<consumers, stale, historyVars>>

Updatable(p) == <<stream, ConfigOf[p]>> \in Compatible

\* Any error of UpdateStream is a panic: the broker refuses the configuration,
\* there is no stream, or the request fails.
UpdateStream(p) ==
  /\ pc[p] \in {<<"updateStream">>, <<"updateBlindly">>}
  /\ UNCHANGED <<consumers, stale, starts, lost>>
  /\ \/ /\ Updatable(p)
        /\ Return(p, pc[p])
        /\ stream' = ConfigOf[p]
        /\ ServerStays /\ UNCHANGED panics
     \/ /\ ~Updatable(p)
        /\ PanicInBindStream(p, pc[p] = <<"updateStream">>)
        /\ UNCHANGED stream
     \/ /\ PanicInBindStream(p, FALSE)
        /\ stream' \in {stream} \cup {c \in {ConfigOf[p]} : Updatable(p)}

-----------------------------------------------------------------------------
(* BindConsumer *)

\* Only "consumer not found" leads to AddConsumer, any other failure of
\* ConsumerInfo, a missing stream for one, to UpdateConsumer.
BindConsumer(p, s) ==
  /\ s \in Bound
  /\ \/ /\ stream # NoConfig /\ s \notin consumers
        /\ GoTo(p, <<"up">>, <<"addConsumer", s>>)
     \/ GoTo(p, <<"up">>, <<"updateConsumer", s>>)
  /\ UNCHANGED <<brokerVars, serverVars, historyVars>>

UsedByOthers(p, s) ==
  {i \in open : i[1] # p /\ i[2] = s} \cup {NewSub(q, s) : q \in Attaching(s) \ {p}}

\* Every configuration has an inbox of its own as DeliverSubject.  The broker
\* refuses it while a subscription is attached to another, and moves the
\* consumer to it when none is.
Install(p, s) ==
  /\ AttachedTo(s) = {}
  /\ consumers' = consumers \cup {s}
  /\ stale' = stale \cup Attaching(s)
  /\ lost' = IF s \in consumers THEN lost \cup UsedByOthers(p, s) ELSE lost

NotInstalled == UNCHANGED <<consumers, stale, lost>>

\* Another process may have added the consumer: it is returned as it is, taken
\* as one to update, or refused.  Any error is a panic.
AddConsumer(p, s) ==
  /\ pc[p] = <<"addConsumer", s>>
  /\ Install(p, s) \/ NotInstalled
  /\ \/ /\ s \in consumers'
        /\ Return(p, pc[p]) /\ ServerStays
     \/ Panicf(p)
  /\ UNCHANGED <<stream, starts, panics>>

\* Mutant: the consumer is deleted and added again, whoever is attached to it.
RecreatesConsumer(p, s) ==
  /\ pc[p] = <<"updateConsumer", s>>
  /\ Return(p, pc[p])
  /\ attached' = attached \ AttachedTo(s)
  /\ stale' = stale \cup Attaching(s)
  /\ lost' = lost \cup UsedByOthers(p, s)
  /\ UNCHANGED <<stream, consumers, serverVars, starts, panics>>

UpdateConsumer(p, s) ==
  /\ pc[p] = <<"updateConsumer", s>>
  /\ \/ /\ s \in consumers /\ Install(p, s)
        /\ \/ Return(p, pc[p]) /\ ServerStays
           \/ Panicf(p)
     \/ NotInstalled /\ Panicf(p)
  /\ UNCHANGED <<stream, starts, panics>>

-----------------------------------------------------------------------------
(* Register *)

\* With a consumerName Register checks stream and consumer first: a missing one
\* is a panic, as is a lookup that fails.  Without one it only logs.
Register(p, s) ==
  /\ registers[p][s] < MaxRegisters[p][s]
  /\ Cardinality({s} \cup {t \in Services : registers[p][t] > 0}) <= MaxServices
  /\ pc[p] = <<"up">>
  /\ \/ /\ s \in Bound => stream # NoConfig /\ s \in consumers
        /\ GoTo(p, <<"up">>, <<"subscribe", s>>) /\ ServerStays
     \/ s \in Bound /\ Panicf(p)
  /\ UNCHANGED <<stream, consumers, stale, historyVars>>

\* The new subscription takes the place of another in the map.
Subscribed(p, s) ==
  LET n == registers[p][s] + 1 IN
  /\ open' = open \cup {<<p, s, n>>}
  /\ registers' = [registers EXCEPT ![p][s] = n]
  /\ serviceSubs' = [serviceSubs EXCEPT ![p][s] = n]

SubscribeCore(p, s) ==
  /\ s \notin Streamed
  /\ Return(p, <<"subscribe", s>>)
  /\ Subscribed(p, s)
  /\ UNCHANGED <<brokerVars, creator, historyVars>>

\* Mutant: Register always subscribes with a queue group.
UsableByAnyone(s) == s \in consumers

\* The NATS client refuses a consumer that has a subscription, or one of
\* BindConsumer, which has no group, for a group.
Usable(s) ==
  /\ s \in consumers
  /\ IF s \in Grouped THEN s \notin Bound ELSE AttachedTo(s) = {}

\* The NATS client looks the consumer up.  Subscribe returns an error, goes on
\* to attach to its inbox, or to create it when it has no consumerName.
SubscribeInfo(p, s) ==
  /\ s \in Streamed
  /\ \/ Usable(s) /\ GoTo(p, <<"subscribe", s>>, <<"attach", s>>)
     \/ /\ stream # NoConfig /\ s \notin consumers \cup Bound
        /\ GoTo(p, <<"subscribe", s>>, <<"create", s>>)
     \/ Return(p, <<"subscribe", s>>)
  /\ UNCHANGED <<brokerVars, serverVars, historyVars>>

\* Nobody checks the consumer again: another process may have attached to it,
\* moved it to another inbox or deleted it.
Attach(p, s) ==
  /\ Return(p, <<"attach", s>>)
  /\ Subscribed(p, s)
  /\ attached' = IF p \in stale THEN attached ELSE attached \cup {NewSub(p, s)}
  /\ stale' = stale \ {p}
  /\ UNCHANGED <<stream, consumers, creator, historyVars>>

\* The NATS client subscribes to a new inbox and installs the consumer there,
\* one of another process too: Subscribe owns it.
Create(p, s) ==
  /\ Return(p, <<"create", s>>)
  /\ Install(p, s)
  /\ Subscribed(p, s)
  /\ attached' = attached \cup {NewSub(p, s)}
  /\ creator' = creator \cup {NewSub(p, s)}
  /\ UNCHANGED <<stream, starts, panics>>

\* An error, whether the consumer was installed or not.
CreateFails(p, s) ==
  /\ Return(p, <<"create", s>>)
  /\ Install(p, s) \/ NotInstalled
  /\ ServerStays
  /\ UNCHANGED <<stream, starts, panics>>

\* Another process was faster: its consumer is used as one found before.
CreateExists(p, s) ==
  /\ Usable(s)
  /\ GoTo(p, <<"create", s>>, <<"attach", s>>)
  /\ UNCHANGED <<brokerVars, serverVars, historyVars>>

-----------------------------------------------------------------------------
(* UnRegister *)

\* Mutants of Unsubscribe: the broker keeps the subscription; the map forgets
\* it and nothing is called.
KeepsAttached(i) ==
  /\ open' = open \ {i}
  /\ creator' = creator \ {i}
  /\ UNCHANGED attached

OnlyForgets(i) == UNCHANGED <<open, creator, attached>> /\ i \in open

Unsubscribe(i) ==
  /\ open' = open \ {i}
  /\ creator' = creator \ {i}
  /\ attached' = attached \ {i}

\* The NATS client deletes the consumer its Subscribe created, in a request of
\* its own.  An empty serviceName is this for every service in the map.
UnRegister(p, s) ==
  LET i == <<p, s, serviceSubs[p][s]>> IN
  /\ serviceSubs[p][s] # NoSub
  /\ GoTo(p, <<"up">>, IF i \in creator THEN <<"delete", s>> ELSE <<"up">>)
  /\ Unsubscribe(i)
  /\ serviceSubs' = [serviceSubs EXCEPT ![p][s] = NoSub]
  /\ UNCHANGED <<stream, consumers, stale, registers, historyVars>>

\* The consumer of that name is deleted, whoever uses it by now; a failure is
\* an error nobody reads.
DeleteConsumer(p, s) ==
  /\ Return(p, <<"delete", s>>)
  /\ \/ /\ s \in consumers
        /\ consumers' = consumers \ {s}
        /\ attached' = attached \ AttachedTo(s)
        /\ stale' = stale \cup Attaching(s)
        /\ lost' = lost \cup UsedByOthers(p, s)
     \/ UNCHANGED <<consumers, attached, stale, lost>>
  /\ UNCHANGED <<stream, serverVars, starts, panics>>

Next ==
  \E p \in Procs :
    \/ Start(p) \/ Crash(p)
    \/ BindStream(p) \/ BindStreamBlindly(p) \/ AddStream(p) \/ UpdateStream(p)
    \/ \E s \in Services :
         \/ BindConsumer(p, s) \/ AddConsumer(p, s) \/ UpdateConsumer(p, s)
         \/ Register(p, s)
         \/ SubscribeCore(p, s) \/ SubscribeInfo(p, s)
         \/ Attach(p, s) \/ Create(p, s) \/ CreateFails(p, s) \/ CreateExists(p, s)
         \/ UnRegister(p, s) \/ DeleteConsumer(p, s)

Spec == Init /\ [][Next]_vars

-----------------------------------------------------------------------------
(* Properties *)

Deaf(p, s) == s \in Streamed /\ <<p, s, serviceSubs[p][s]>> \notin attached

\* A service of a stream that is registered receives, whatever fails in its own
\* setup and however often that is repeated: it is deaf only after another
\* process moved the consumer of the service to an inbox of its own
\* (BindConsumer, Register) or deleted it (UnRegister).
DeafByAnother ==
  \A p \in Procs, s \in Services :
    serviceSubs[p][s] # NoSub /\ Deaf(p, s) => <<p, s, serviceSubs[p][s]>> \in lost

\* Without a queue group, the subscription that created a consumer is the only
\* one attached to it, although every process looks before it subscribes.
\* (One left by a crash may be attached to twice.)
CreatorIsAlone ==
  \A i \in creator \cap attached : i[2] \notin Grouped => AttachedTo(i[2]) = {i}

\* However their lookups interleave, processes that start together panic in
\* BindStream only when their configurations cannot replace each other, or when
\* the broker fails to serve one of the two requests.
PanicNeedsConflict ==
  \A p \in Procs :
    p \in panics =>
      \E q \in Procs : <<ConfigOf[q], ConfigOf[p]>> \notin Compatible

\* A service that was unregistered is not served by that process any more,
\* unless it was registered twice: the first subscription is not in the map.
UnRegisterSilences ==
  \A p \in Procs, s \in Services :
    serviceSubs[p][s] = NoSub /\ registers[p][s] <= 1 => <<p, s, 1>> \notin open

=============================================================================
