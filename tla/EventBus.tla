------------------------------ MODULE EventBus ------------------------------
(***************************************************************************)
(* The event bus, go/nats/natsserver/nats_server.go: a broker inside the   *)
(* process and a monitor that listens to the broker's own events and       *)
(* announces the clients that come and go.  One caller starts and stops    *)
(* the two; the subscriptions of the monitors it has ever started run      *)
(* beside it and all announce through the newest.                          *)
(***************************************************************************)
EXTENDS Naturals, Sequences, SequencesExt, FiniteSets

CONSTANTS
  Clients,      \* clients of the broker
  Named,        \* those whose name has the prefix test-
  MaxConn,      \* connections the broker accepts
  MaxMonitors,  \* bound: monitors that may be started, numbered from 1
  MaxEvents     \* bound: connections and disconnections of clients

ASSUME EventBusAssumption ==
  /\ Named \subseteq Clients
  /\ MaxConn \in Nat /\ MaxMonitors \in Nat /\ MaxEvents \in Nat

Monitors == 1 .. MaxMonitors
NoMonitor == 0
Kinds == {"CONNECT", "DISCONNECT"}
Events == Clients \X Kinds

VARIABLES
  server,     \* natsserver.server: nil, running but of no use, or ready
  pc,         \* where the caller stands
  client,     \* natsserver.client
  stage,      \* how far a monitor was started
  link,       \* the connections of a monitor
  connected,  \* clients that are connected
  inbox,      \* events waiting for the handler of a monitor
  happened,   \* history: events of clients
  announced   \* history: events announced

callVars == <<server, pc>>
monitorVars == <<client, stage, link>>
eventVars == <<connected, inbox, happened, announced>>
vars == <<callVars, monitorVars, eventVars>>

TypeOK ==
  /\ server \in {"nil", "broken", "ready"}
  /\ pc \in {"idle", "sysclient", "testclient", "subscribe", "stopMonitor", "panic"}
  /\ client \in 0 .. MaxMonitors
  /\ stage \in [Monitors -> {"none", "sys", "both", "subscribed", "unsubscribed"}]
  /\ link \in [Monitors -> {"up", "away", "closed"}]
  /\ connected \subseteq Clients
  /\ inbox \in [Monitors -> Seq(Events)]
  /\ happened \in Seq(Events)
  /\ announced \in Seq(Events)

Init ==
  /\ server = "nil"
  /\ pc = "idle"
  /\ client = NoMonitor
  /\ stage = [n \in Monitors |-> "none"]
  /\ link = [n \in Monitors |-> "up"]
  /\ connected = {}
  /\ inbox = [n \in Monitors |-> <<>>]
  /\ happened = <<>>
  /\ announced = <<>>

-----------------------------------------------------------------------------

\* A call returns, nil or an error.
Return == pc' = "idle"

\* The monitor that is being started: the first that was not.
Started == {n \in Monitors : stage[n] # "none"}
Newest == Cardinality(Started)

Linked(s) == Cardinality({n \in Monitors : stage[n] \in s /\ link[n] = "up"})
Connections ==
  Linked({"sys"}) + 2 * Linked({"both", "subscribed", "unsubscribed"})
  + Cardinality(connected)

Accepts == server # "nil" /\ Connections < MaxConn

\* A running server is not started again, whatever became of its start; a
\* start may fail before or after it runs.
StartsServer(next) ==
  \/ server # "nil" /\ pc' = next /\ UNCHANGED server
  \/ server = "nil" /\ server' = "ready" /\ pc' = next
  \/ server = "nil" /\ server' \in {"nil", "broken"} /\ Return

Idle == pc = "idle"

StartServer ==
  /\ Idle
  /\ StartsServer("idle")
  /\ UNCHANGED <<monitorVars, eventVars>>

Start ==
  /\ Idle
  /\ StartsServer("sysclient")
  /\ UNCHANGED <<monitorVars, eventVars>>

StartMonitorClient ==
  /\ Idle
  /\ pc' = "sysclient"
  /\ UNCHANGED <<server, monitorVars, eventVars>>

\* The two connections of a new monitor; what is connected when a later step
\* fails stays connected.
ConnectSys ==
  /\ pc = "sysclient"
  /\ \/ /\ Accepts /\ Newest < MaxMonitors
        /\ stage' = [stage EXCEPT ![Newest + 1] = "sys"]
        /\ pc' = "testclient"
     \/ Return /\ UNCHANGED stage
  /\ UNCHANGED <<server, client, link, eventVars>>

ConnectTest ==
  /\ pc = "testclient"
  /\ \/ /\ Accepts
        /\ stage' = [stage EXCEPT ![Newest] = "both"]
        /\ client' = Newest
        /\ pc' = "subscribe"
     \/ Return /\ UNCHANGED <<stage, client>>
  /\ UNCHANGED <<server, link, eventVars>>

Subscribe ==
  /\ pc = "subscribe"
  /\ \/ /\ stage' = [stage EXCEPT ![client] = "subscribed"]
        /\ Return
     \/ Return /\ UNCHANGED stage
  /\ UNCHANGED <<server, client, link, eventVars>>

\* Shutdown disconnects everybody; the monitors try to come back.
StopsServer ==
  /\ server # "nil"
  /\ server' = "nil"
  /\ link' = [n \in Monitors |-> IF link[n] = "up" /\ n \in Started THEN "away" ELSE link[n]]
  /\ connected' = {}
  /\ UNCHANGED <<client, stage, inbox, happened, announced>>

NotRunning == server = "nil" /\ Return

StopServer ==
  /\ Idle
  /\ \/ StopsServer /\ Return
     \/ NotRunning /\ UNCHANGED <<server, monitorVars, eventVars>>

Stop ==
  /\ Idle
  /\ \/ StopsServer /\ pc' = "stopMonitor"
     \/ NotRunning /\ UNCHANGED <<server, monitorVars, eventVars>>

\* Unsubscribe of the newest monitor: a subscription that was never made is
\* nil, and reading its subject panics; one that is over, or whose connection
\* is closed, is an error.
Unsubscribe ==
  \/ client = NoMonitor /\ Return /\ UNCHANGED <<stage, inbox>>
  \/ /\ client # NoMonitor
     /\ CASE stage[client] = "both" ->
               pc' = "panic" /\ UNCHANGED <<stage, inbox>>
          [] stage[client] = "subscribed" /\ link[client] # "closed" ->
               /\ stage' = [stage EXCEPT ![client] = "unsubscribed"]
               /\ inbox' = [inbox EXCEPT ![client] = <<>>]
               /\ Return
          [] OTHER -> Return /\ UNCHANGED <<stage, inbox>>

StopMonitorClient ==
  /\ pc \in {"idle", "stopMonitor"}
  /\ Unsubscribe
  /\ UNCHANGED <<server, client, link, connected, happened, announced>>

\* A monitor that is away reconnects, with its subscription, or gives up, and what
\* waits for it is dropped; the handler of a closed connection asks Connect for
\* another and is given the closed one.
Reconnect(n) ==
  /\ link[n] = "away"
  /\ \/ /\ Accepts
        /\ link' = [link EXCEPT ![n] = "up"]
        /\ UNCHANGED inbox
     \/ /\ link' = [link EXCEPT ![n] = "closed"]
        /\ inbox' = [inbox EXCEPT ![n] = <<>>]
  /\ UNCHANGED <<callVars, client, stage, connected, happened, announced>>

-----------------------------------------------------------------------------

\* The broker tells every subscription that is there.
Event(e) ==
  /\ Len(happened) < MaxEvents
  /\ happened' = Append(happened, e)
  /\ inbox' = [n \in Monitors |->
       IF stage[n] = "subscribed" /\ link[n] = "up" THEN Append(inbox[n], e)
       ELSE inbox[n]]
  /\ UNCHANGED <<callVars, monitorVars, announced>>

ClientConnects(c) ==
  /\ c \notin connected
  /\ Accepts
  /\ connected' = connected \cup {c}
  /\ Event(<<c, "CONNECT">>)

ClientDisconnects(c) ==
  /\ c \in connected
  /\ connected' = connected \ {c}
  /\ Event(<<c, "DISCONNECT">>)

HasSuffix(kind, suffix) ==
  kind = suffix \/ (kind = "DISCONNECT" /\ suffix = "CONNECT")

\* Mutants: the suffix CONNECT is looked for first; the kind handed on is
\* none the handler knows, which then announces the bare name.
KindConnectFirst(e) ==
  IF HasSuffix(e[2], "CONNECT") THEN "CONNECT" ELSE "DISCONNECT"

KindMisspelt(e) == IF HasSuffix(e[2], "DISCONNECT") THEN "DISCONENCT" ELSE "CONNECT"

Kind(e) == IF HasSuffix(e[2], "DISCONNECT") THEN "DISCONNECT" ELSE "CONNECT"

\* Mutants: every client is announced; only those that connect.
AnnounceAll(e) == announced' = Append(announced, e)

AnnounceConnects(e) ==
  IF e[1] \in Named /\ e[2] = "CONNECT"
  THEN announced' = Append(announced, e)
  ELSE UNCHANGED announced

\* Only a client with the prefix is announced, by the connection of the newest
\* monitor: what is published while it is away may be lost.
Announce(e) ==
  IF e[1] \in Named /\ link[client] # "closed"
  THEN \/ announced' = Append(announced, e)
       \/ link[client] = "away" /\ UNCHANGED announced
  ELSE UNCHANGED announced

handlerClientEvent(n) ==
  /\ inbox[n] # <<>>
  /\ LET e == Head(inbox[n]) IN Announce(<<e[1], Kind(e)>>)
  /\ inbox' = [inbox EXCEPT ![n] = Tail(@)]
  /\ UNCHANGED <<callVars, monitorVars, connected, happened>>

Next ==
  /\ pc # "panic"
  /\ \/ StartServer \/ Start \/ StartMonitorClient
     \/ ConnectSys \/ ConnectTest \/ Subscribe
     \/ StopServer \/ Stop \/ StopMonitorClient
     \/ \E n \in Monitors : Reconnect(n) \/ handlerClientEvent(n)
     \/ \E c \in Clients : ClientConnects(c) \/ ClientDisconnects(c)

Spec == Init /\ [][Next]_vars

\* The goroutine of a subscription takes what is delivered to it.
Fairness == \A n \in Monitors : WF_vars(handlerClientEvent(n))

FairSpec == Spec /\ Fairness

-----------------------------------------------------------------------------
(* Properties *)

Subscribed == {n \in Monitors : stage[n] \in {"subscribed", "unsubscribed"}}

Count(seq, e) == Cardinality({i \in 1 .. Len(seq) : seq[i] = e})

\* While there has been one monitor, it announces the events of named clients
\* in the order they happened, whatever was stopped and started meanwhile.
AnnouncedInOrder ==
  Cardinality(Subscribed) <= 1 =>
    \E at \in [DOMAIN announced -> DOMAIN happened] :
      \A i, j \in DOMAIN announced :
        announced[i] = happened[at[i]] /\ (i < j => at[i] < at[j])

\* An event of a named client is announced at most once by each monitor, and
\* no other is.
AnnouncedPerMonitor ==
  \A e \in Events :
    Count(announced, e) <=
      IF e[1] \in Named THEN Count(happened, e) * Cardinality(Subscribed) ELSE 0

\* An event that reached a monitor is announced, unless the connection of that
\* monitor is closed first, or the newest monitor, which announces for all, is
\* stopped or loses its connection.
Announcing == client # NoMonitor /\ stage[client] = "subscribed" /\ link[client] = "up"

EventReaches ==
  \A e \in Named \X Kinds, n \in Monitors :
    e \in Range(inbox[n]) ~>
      e \in Range(announced) \/ ~Announcing \/ link[n] = "closed"

=============================================================================
