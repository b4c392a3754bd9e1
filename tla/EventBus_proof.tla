---------------------------- MODULE EventBus_proof ----------------------------
(***************************************************************************)
(* Proofs about EventBus, for any clients, monitors and events: the types, *)
(* and what the monitors announce.  A single monitor announces in the      *)
(* order of the events, and each monitor an event once, although what is   *)
(* delivered to the monitors is handled beside the caller that starts and  *)
(* stops them and the broker.                                              *)
(***************************************************************************)
EXTENDS EventBus, TLAPS, SequenceTheorems, FiniteSetTheorems

-----------------------------------------------------------------------------
(* What a step does to the stages of the monitors *)

Stages == {"none", "sys", "both", "subscribed", "unsubscribed"}

\* Monitors are started one after the other, and the caller that starts one
\* goes on with the newest.
Line ==
  /\ pc \in {"idle", "sysclient", "testclient", "subscribe", "stopMonitor", "panic"}
  /\ client \in 0 .. MaxMonitors
  /\ stage \in [Monitors -> Stages]
  /\ \E k \in 0 .. MaxMonitors : Started = 1 .. k
  /\ pc = "testclient" => Newest \in Monitors /\ stage[Newest] = "sys"
  /\ client # NoMonitor => stage[client] \in {"both", "subscribed", "unsubscribed"}
  /\ pc = "subscribe" => client # NoMonitor

LEMMA NewestIs ==
  ASSUME NEW k \in Nat, Started = 1 .. k
  PROVE  Newest = k
BY FS_Interval DEF Newest

\* A step that leaves the stages, or advances a monitor that was started.
StageMoves ==
  \/ /\ stage' = stage /\ client' = client
     /\ pc' \notin {"testclient", "subscribe"} \/ pc' = pc
  \/ /\ pc = "sysclient" /\ pc' = "testclient" /\ client' = client
     /\ Newest < MaxMonitors
     /\ stage' = [stage EXCEPT ![Newest + 1] = "sys"]
  \/ /\ pc = "testclient" /\ pc' = "subscribe" /\ client' = Newest
     /\ stage' = [stage EXCEPT ![Newest] = "both"]
  \/ /\ pc = "subscribe" /\ pc' = "idle" /\ client' = client
     /\ stage' = [stage EXCEPT ![client] = "subscribed"]
  \/ /\ client # NoMonitor /\ stage[client] = "subscribed"
     /\ pc' = "idle" /\ client' = client
     /\ stage' = [stage EXCEPT ![client] = "unsubscribed"]

Beside ==
  \/ \E n \in Monitors : Reconnect(n) \/ handlerClientEvent(n)
  \/ \E c \in Clients : ClientConnects(c) \/ ClientDisconnects(c)

LEMMA NextMoves == [Next]_vars => StageMoves
<1> SUFFICES ASSUME [Next]_vars PROVE StageMoves
  OBVIOUS
<1>1. CASE UNCHANGED vars
  BY <1>1 DEF vars, callVars, monitorVars, StageMoves
<1>2. CASE StartServer \/ Start \/ StartMonitorClient
  BY <1>2 DEF StartServer, Start, StartMonitorClient, StartsServer, Return, monitorVars,
     StageMoves
<1>3. CASE ConnectSys \/ ConnectTest \/ Subscribe
  BY <1>3 DEF ConnectSys, ConnectTest, Subscribe, Return, StageMoves
<1>4. CASE StopServer \/ Stop
  BY <1>4 DEF StopServer, Stop, StopsServer, NotRunning, Return, monitorVars, StageMoves
<1>5. CASE StopMonitorClient
  BY <1>5 DEF StopMonitorClient, Unsubscribe, Return, StageMoves
<1>6. CASE Beside
  BY <1>6 DEF Beside, Reconnect, handlerClientEvent, ClientConnects, ClientDisconnects,
     Event, callVars, monitorVars, StageMoves
<1> QED
  BY <1>1, <1>2, <1>3, <1>4, <1>5, <1>6 DEF Next, Beside

LEMMA LineStep ==
  ASSUME Line, StageMoves,
         pc' \in {"idle", "sysclient", "testclient", "subscribe", "stopMonitor", "panic"}
  PROVE  Line' /\ Subscribed \subseteq Subscribed'
<1> USE EventBusAssumption DEF EventBusAssumption, Monitors, NoMonitor
<1>1. PICK k \in 0 .. MaxMonitors : Started = 1 .. k
  BY DEF Line
<1>2. k \in Nat /\ Newest = k /\ MaxMonitors \in Nat
  BY <1>1, NewestIs
<1>3. CASE /\ stage' = stage /\ client' = client
           /\ pc' \notin {"testclient", "subscribe"} \/ pc' = pc
  BY <1>3 DEF Line, Started, Newest, Subscribed
<1>4. CASE /\ pc = "sysclient" /\ pc' = "testclient" /\ client' = client
           /\ Newest < MaxMonitors
           /\ stage' = [stage EXCEPT ![Newest + 1] = "sys"]
  <2>1. /\ stage' = [stage EXCEPT ![k + 1] = "sys"] /\ k + 1 \in 1 .. MaxMonitors
        /\ stage \in [1 .. MaxMonitors -> Stages]
    BY <1>2, <1>4 DEF Line
  <2>2. stage[k + 1] = "none"
    BY <1>1, <1>2, <2>1 DEF Started
  <2>3. /\ stage' \in [1 .. MaxMonitors -> Stages] /\ stage'[k + 1] = "sys"
        /\ \A n \in 1 .. MaxMonitors : n # k + 1 => stage'[n] = stage[n]
    BY <2>1 DEF Stages
  <2>4. Started' = 1 .. k + 1
    <3>1. \A n \in 1 .. MaxMonitors : n \in Started' <=> n \in Started \/ n = k + 1
      BY <2>3 DEF Started
    <3>2. Started' \subseteq 1 .. MaxMonitors
      BY DEF Started
    <3>3. \A n \in 1 .. MaxMonitors : n \in Started' <=> n \in 1 .. k + 1
      BY <1>1, <1>2, <3>1
    <3>4. 1 .. k + 1 \subseteq 1 .. MaxMonitors
      BY <1>2, <2>1
    <3> HIDE DEF Started
    <3> QED
      BY <3>2, <3>3, <3>4
  <2>5. Newest' = k + 1
    BY <1>2, <2>4, FS_Interval DEF Newest
  <2>6. Subscribed \subseteq Subscribed'
    BY <2>2, <2>3 DEF Subscribed
  <2>7. client # 0 => stage'[client] = stage[client]
    BY <2>2, <2>3 DEF Line
  <2>8. k + 1 \in 0 .. MaxMonitors
    BY <2>1
  <2> QED
    BY <1>4, <2>1, <2>3, <2>4, <2>5, <2>6, <2>7, <2>8 DEF Line
<1>5. ASSUME NEW n \in 1 .. MaxMonitors, NEW to \in Stages, stage[n] # "none", to # "none",
             stage' = [stage EXCEPT ![n] = to]
      PROVE  /\ stage' \in [1 .. MaxMonitors -> Stages] /\ stage'[n] = to
             /\ \A m \in 1 .. MaxMonitors : m # n => stage'[m] = stage[m]
             /\ Started' = Started /\ Newest' = Newest
  <2>1. /\ stage' \in [1 .. MaxMonitors -> Stages] /\ stage'[n] = to
        /\ \A m \in 1 .. MaxMonitors : m # n => stage'[m] = stage[m]
    BY <1>5 DEF Line
  <2>2. Started' = Started
    BY <1>5, <2>1 DEF Started
  <2> QED
    BY <2>1, <2>2 DEF Newest
<1>6. CASE /\ pc = "testclient" /\ pc' = "subscribe" /\ client' = Newest
           /\ stage' = [stage EXCEPT ![Newest] = "both"]
  <2>1. Newest \in 1 .. MaxMonitors /\ stage[Newest] = "sys"
    BY <1>6 DEF Line
  <2>2. /\ stage' \in [1 .. MaxMonitors -> Stages] /\ stage'[Newest] = "both"
        /\ \A m \in 1 .. MaxMonitors : m # Newest => stage'[m] = stage[m]
        /\ Started' = Started
    BY <1>5, <1>6, <2>1 DEF Stages
  <2>3. Subscribed \subseteq Subscribed'
    BY <2>1, <2>2 DEF Subscribed
  <2> QED
    BY <1>1, <1>6, <2>1, <2>2, <2>3 DEF Line
<1>7. CASE /\ \/ pc = "subscribe"
              \/ client # NoMonitor /\ stage[client] = "subscribed"
           /\ pc' = "idle" /\ client' = client
           /\ \E to \in {"subscribed", "unsubscribed"} : stage' = [stage EXCEPT ![client] = to]
  <2>1. PICK to \in {"subscribed", "unsubscribed"} : stage' = [stage EXCEPT ![client] = to]
    BY <1>7
  <2>2. /\ client \in 1 .. MaxMonitors
        /\ stage[client] \in {"both", "subscribed", "unsubscribed"}
    BY <1>7 DEF Line
  <2>3. /\ stage' \in [1 .. MaxMonitors -> Stages] /\ stage'[client] = to
        /\ \A m \in 1 .. MaxMonitors : m # client => stage'[m] = stage[m]
        /\ Started' = Started
    BY <1>5, <2>1, <2>2 DEF Stages
  <2>4. Subscribed \subseteq Subscribed'
    BY <2>2, <2>3 DEF Subscribed
  <2> QED
    BY <1>1, <1>7, <2>2, <2>3, <2>4 DEF Line
<1> QED
  BY <1>3, <1>4, <1>6, <1>7 DEF StageMoves

-----------------------------------------------------------------------------
(* The types *)

LEMMA KindIs == \A e \in Events : <<e[1], Kind(e)>> = e
BY DEF Events, Kinds, Kind, HasSuffix

BusInv == TypeOK /\ Line

\* What a step does to the events: nothing, the end of a subscription, a
\* delivery, or the handling of one.
Quiet ==
  /\ UNCHANGED <<inbox, happened, announced>>
  /\ \A n \in Monitors : stage[n] = "subscribed" => stage'[n] = "subscribed"

EndsOf(n) ==
  /\ inbox' = [inbox EXCEPT ![n] = <<>>]
  /\ \A m \in Monitors : m # n => stage'[m] = stage[m]
  /\ UNCHANGED <<happened, announced>>

Ends == \E n \in Monitors : EndsOf(n)

LEMMA BusMoves ==
  ASSUME BusInv, [Next]_vars
  PROVE  \/ Quiet \/ Ends
         \/ \E e \in Events : Event(e)
         \/ \E n \in Monitors : handlerClientEvent(n)
<1> USE EventBusAssumption DEF EventBusAssumption, NoMonitor
<1>1. stage \in [Monitors -> Stages] /\ client \in 0 .. MaxMonitors
  BY DEF BusInv, Line
<1>2. CASE UNCHANGED vars
  BY <1>2 DEF vars, monitorVars, eventVars, Quiet
<1>3. CASE StartServer \/ Start \/ StartMonitorClient
  BY <1>3 DEF StartServer, Start, StartMonitorClient, monitorVars, eventVars, Quiet
<1>4. CASE ConnectSys
  <2>1. CASE stage' = stage
    BY <1>4, <2>1 DEF ConnectSys, eventVars, Quiet
  <2>2. CASE Newest < MaxMonitors /\ stage' = [stage EXCEPT ![Newest + 1] = "sys"]
    <3>1. PICK k \in 0 .. MaxMonitors : Started = 1 .. k
      BY DEF BusInv, Line
    <3>2. Newest = k /\ k \in Nat /\ k + 1 \in Monitors
      BY <2>2, <3>1, NewestIs DEF Monitors
    <3>3. stage[k + 1] = "none"
      BY <1>1, <3>1, <3>2 DEF Started
    <3>4. \A n \in Monitors : stage[n] = "subscribed" => stage'[n] = "subscribed"
      BY <1>1, <2>2, <3>2, <3>3
    <3> QED
      BY <1>4, <3>4 DEF ConnectSys, eventVars, Quiet
  <2> QED
    BY <1>4, <2>1, <2>2 DEF ConnectSys
<1>5. CASE ConnectTest
  <2>1. CASE stage' = stage
    BY <1>5, <2>1 DEF ConnectTest, eventVars, Quiet
  <2>2. CASE stage' = [stage EXCEPT ![Newest] = "both"]
    <3>1. Newest \in Monitors /\ stage[Newest] = "sys"
      BY <1>5 DEF ConnectTest, BusInv, Line
    <3>2. \A n \in Monitors : stage[n] = "subscribed" => stage'[n] = "subscribed"
      BY <1>1, <2>2, <3>1
    <3> QED
      BY <1>5, <3>2 DEF ConnectTest, eventVars, Quiet
  <2> QED
    BY <1>5, <2>1, <2>2 DEF ConnectTest
<1>6. CASE Subscribe
  BY <1>1, <1>6 DEF Subscribe, eventVars, Quiet
<1>7. CASE StopServer \/ Stop
  BY <1>7 DEF StopServer, Stop, StopsServer, NotRunning, monitorVars, eventVars, Quiet
<1>8. CASE StopMonitorClient
  <2>1. CASE client = NoMonitor
    BY <1>8, <2>1 DEF StopMonitorClient, Unsubscribe, Quiet
  <2>2. CASE client # NoMonitor
    <3>1. client \in Monitors
      BY <1>1, <2>2 DEF Monitors
    <3>2. EndsOf(client) \/ Quiet
      BY <1>1, <1>8, <2>2, <3>1 DEF StopMonitorClient, Unsubscribe, EndsOf, Quiet
    <3> QED
      BY <3>1, <3>2 DEF Ends
  <2> QED
    BY <2>1, <2>2
<1>9. ASSUME NEW n \in Monitors, Reconnect(n)
      PROVE  Quiet \/ Ends
  <2>1. stage' = stage /\ UNCHANGED <<happened, announced>>
    BY <1>9 DEF Reconnect
  <2>2. inbox' = inbox \/ inbox' = [inbox EXCEPT ![n] = <<>>]
    BY <1>9 DEF Reconnect
  <2>3. Quiet \/ EndsOf(n)
    BY <2>1, <2>2 DEF Quiet, EndsOf
  <2> QED
    BY <2>3 DEF Ends
<1>10. ASSUME NEW c \in Clients, ClientConnects(c) \/ ClientDisconnects(c)
       PROVE  \E e \in Events : Event(e)
  BY <1>10 DEF ClientConnects, ClientDisconnects, Events, Kinds
<1> QED
  BY <1>2, <1>3, <1>4, <1>5, <1>6, <1>7, <1>8, <1>9, <1>10 DEF Next

LEMMA BusInit == Init => BusInv
<1> SUFFICES ASSUME Init PROVE BusInv
  OBVIOUS
<1> USE EventBusAssumption DEF EventBusAssumption
<1>1. TypeOK
  BY EmptySeq DEF Init, TypeOK, NoMonitor
<1>2. Started = 1 .. 0
  BY DEF Init, Started
<1> QED
  BY <1>1, <1>2 DEF Init, BusInv, Line, Stages, NoMonitor, Monitors

LEMMA BusStep == BusInv /\ [Next]_vars => BusInv' /\ Subscribed \subseteq Subscribed'
<1> SUFFICES ASSUME BusInv, [Next]_vars
             PROVE  BusInv' /\ Subscribed \subseteq Subscribed'
  OBVIOUS
<1> USE DEF BusInv
<1>1. /\ server' \in {"nil", "broken", "ready"}
      /\ pc' \in {"idle", "sysclient", "testclient", "subscribe", "stopMonitor", "panic"}
  <2>1. CASE UNCHANGED callVars
    BY <2>1 DEF callVars, TypeOK
  <2>2. CASE \/ StartServer \/ Start \/ StartMonitorClient \/ ConnectSys \/ ConnectTest
             \/ Subscribe
    BY <2>2 DEF TypeOK, StartServer, Start, StartMonitorClient, StartsServer, Return,
       ConnectSys, ConnectTest, Subscribe
  <2>3. CASE StopServer \/ Stop \/ StopMonitorClient
    BY <2>3 DEF TypeOK, StopServer, Stop, StopsServer, NotRunning, StopMonitorClient,
       Unsubscribe, Return
  <2>4. CASE Beside
    BY <2>1, <2>4 DEF Beside, Reconnect, handlerClientEvent, ClientConnects,
       ClientDisconnects, Event, callVars
  <2> QED
    BY <2>1, <2>2, <2>3, <2>4 DEF Next, Beside, vars
<1>2. Line' /\ Subscribed \subseteq Subscribed'
  BY <1>1, NextMoves, LineStep
<1>3. link' \in [Monitors -> {"up", "away", "closed"}] /\ connected' \subseteq Clients
  <2> USE DEF TypeOK
  <2>1. CASE UNCHANGED <<link, connected>>
    BY <2>1
  <2>2. CASE \/ StartServer \/ Start \/ StartMonitorClient \/ ConnectSys \/ ConnectTest
             \/ Subscribe \/ StopMonitorClient
    BY <2>1, <2>2 DEF StartServer, Start, StartMonitorClient, ConnectSys, ConnectTest,
       Subscribe, StopMonitorClient, monitorVars, eventVars
  <2>3. CASE StopServer \/ Stop
    BY <2>3 DEF StopServer, Stop, StopsServer, NotRunning, monitorVars, eventVars
  <2>4. CASE Beside
    BY <2>4 DEF Beside, Reconnect, handlerClientEvent, ClientConnects, ClientDisconnects,
       Event, monitorVars, eventVars
  <2> QED
    BY <2>1, <2>2, <2>3, <2>4 DEF Next, Beside, vars, monitorVars, eventVars
<1>4. /\ inbox' \in [Monitors -> Seq(Events)]
      /\ happened' \in Seq(Events) /\ announced' \in Seq(Events)
  <2> USE DEF TypeOK
  <2>1. CASE Quiet
    BY <2>1 DEF Quiet
  <2>2. CASE Ends
    BY <2>2, EmptySeq DEF Ends, EndsOf
  <2>3. ASSUME NEW e \in Events, Event(e)
        PROVE  /\ inbox' \in [Monitors -> Seq(Events)]
               /\ happened' \in Seq(Events) /\ announced' \in Seq(Events)
    <3>1. \A s \in Seq(Events) : Append(s, e) \in Seq(Events)
      BY AppendProperties
    <3> QED
      BY <2>3, <3>1 DEF Event
  <2>4. ASSUME NEW n \in Monitors, handlerClientEvent(n)
        PROVE  /\ inbox' \in [Monitors -> Seq(Events)]
               /\ happened' \in Seq(Events) /\ announced' \in Seq(Events)
    <3>1. /\ Head(inbox[n]) \in Events /\ Tail(inbox[n]) \in Seq(Events)
      BY <2>4, HeadTailProperties DEF handlerClientEvent
    <3>2. announced' = announced \/ announced' = Append(announced, Head(inbox[n]))
      BY <2>4, <3>1, KindIs DEF handlerClientEvent, Announce
    <3>3. Append(announced, Head(inbox[n])) \in Seq(Events)
      BY <3>1, AppendProperties
    <3> QED
      BY <2>4, <3>1, <3>2, <3>3 DEF handlerClientEvent
  <2> QED
    BY <2>1, <2>2, <2>3, <2>4, BusMoves
<1> QED
  BY <1>1, <1>2, <1>3, <1>4 DEF Line, Stages, TypeOK

\* The types of the broker and the monitors, whatever the caller, the clients
\* and the connections do.
THEOREM TypesAreKept == Spec => []TypeOK
<1>1. Init => BusInv
  BY BusInit
<1>2. BusInv /\ [Next]_vars => BusInv'
  BY BusStep
<1>3. BusInv => TypeOK
  BY DEF BusInv
<1> QED
  BY <1>1, <1>2, <1>3, PTL DEF Spec

-----------------------------------------------------------------------------
(* Sequences that are part of another, in its order *)

Embeds(s, h) ==
  \E at \in [DOMAIN s -> DOMAIN h] :
    \A i, j \in DOMAIN s : s[i] = h[at[i]] /\ (i < j => at[i] < at[j])

LEMMA EmbedsNothing == \A h : Embeds(<<>>, h)
<1> SUFFICES ASSUME NEW h PROVE Embeds(<<>>, h)
  OBVIOUS
<1> DEFINE at == [i \in {} |-> i]
<1>1. DOMAIN <<>> = {} /\ at \in [{} -> DOMAIN h]
  OBVIOUS
<1> HIDE DEF at
<1> QED
  BY <1>1 DEF Embeds

LEMMA EmbedsTransitive ==
  ASSUME NEW S, NEW s \in Seq(S), NEW t \in Seq(S), NEW u \in Seq(S),
         Embeds(s, t), Embeds(t, u)
  PROVE  Embeds(s, u)
<1>1. PICK f \in [DOMAIN s -> DOMAIN t] :
        \A i, j \in DOMAIN s : s[i] = t[f[i]] /\ (i < j => f[i] < f[j])
  BY DEF Embeds
<1>2. PICK g \in [DOMAIN t -> DOMAIN u] :
        \A i, j \in DOMAIN t : t[i] = u[g[i]] /\ (i < j => g[i] < g[j])
  BY DEF Embeds
<1> DEFINE at == [i \in DOMAIN s |-> g[f[i]]]
<1>3. at \in [DOMAIN s -> DOMAIN u]
  BY <1>1, <1>2
<1>4. ASSUME NEW i \in DOMAIN s, NEW j \in DOMAIN s
      PROVE  s[i] = u[at[i]] /\ (i < j => at[i] < at[j])
  BY <1>1, <1>2
<1> HIDE DEF at
<1> QED
  BY <1>3, <1>4 DEF Embeds

\* What embeds still does when the whole grows, and also when both do.
LEMMA EmbedsAppend ==
  ASSUME NEW S, NEW s \in Seq(S), NEW h \in Seq(S), NEW e \in S, Embeds(s, h)
  PROVE  Embeds(s, Append(h, e)) /\ Embeds(Append(s, e), Append(h, e))
<1>1. /\ Len(s) \in Nat /\ DOMAIN s = 1 .. Len(s)
      /\ Len(h) \in Nat /\ DOMAIN h = 1 .. Len(h)
  BY LenProperties
<1>2. /\ DOMAIN Append(s, e) = 1 .. Len(s) + 1
      /\ \A i \in 1 .. Len(s) : Append(s, e)[i] = s[i]
      /\ Append(s, e)[Len(s) + 1] = e
  BY AppendProperties, LenProperties
<1>3. /\ DOMAIN Append(h, e) = 1 .. Len(h) + 1
      /\ \A i \in 1 .. Len(h) : Append(h, e)[i] = h[i]
      /\ Append(h, e)[Len(h) + 1] = e
  BY AppendProperties, LenProperties
<1>4. PICK f \in [1 .. Len(s) -> 1 .. Len(h)] :
        \A i, j \in 1 .. Len(s) : s[i] = h[f[i]] /\ (i < j => f[i] < f[j])
  BY <1>1 DEF Embeds
<1>5. Embeds(s, Append(h, e))
  <2>1. f \in [1 .. Len(s) -> 1 .. Len(h) + 1]
    BY <1>1, <1>4
  <2>2. \A i, j \in 1 .. Len(s) : s[i] = Append(h, e)[f[i]] /\ (i < j => f[i] < f[j])
    BY <1>1, <1>3, <1>4
  <2> QED
    BY <1>1, <1>3, <2>1, <2>2 DEF Embeds
<1>6. Embeds(Append(s, e), Append(h, e))
  <2> DEFINE at == [i \in 1 .. Len(s) + 1 |-> IF i <= Len(s) THEN f[i] ELSE Len(h) + 1]
  <2>1. at \in [1 .. Len(s) + 1 -> 1 .. Len(h) + 1]
    BY <1>1, <1>4
  <2>2. ASSUME NEW i \in 1 .. Len(s) + 1
        PROVE  Append(s, e)[i] = Append(h, e)[at[i]]
    <3>1. CASE i \in 1 .. Len(s)
      BY <1>1, <1>2, <1>3, <1>4, <3>1
    <3>2. CASE i = Len(s) + 1
      BY <1>1, <1>2, <1>3, <3>2
    <3> QED
      BY <1>1, <3>1, <3>2
  <2>3. ASSUME NEW i \in 1 .. Len(s) + 1, NEW j \in 1 .. Len(s) + 1, i < j
        PROVE  at[i] < at[j]
    <3>1. i \in 1 .. Len(s) /\ at[i] = f[i] /\ f[i] \in 1 .. Len(h)
      BY <1>1, <1>4, <2>3
    <3>2. CASE j \in 1 .. Len(s)
      BY <1>1, <1>4, <2>3, <3>1, <3>2
    <3>3. CASE j = Len(s) + 1
      BY <1>1, <3>1, <3>3
    <3> QED
      BY <1>1, <3>2, <3>3
  <2> HIDE DEF at
  <2> QED
    BY <1>2, <1>3, <2>1, <2>2, <2>3 DEF Embeds
<1> QED
  BY <1>5, <1>6

\* What comes first embeds, and so does a sequence with one element left out.
LEMMA EmbedsRest ==
  ASSUME NEW S, NEW s \in Seq(S), NEW t \in Seq(S)
  PROVE  /\ Embeds(s, s \o t)
         /\ t # <<>> => Embeds(s \o Tail(t), s \o t)
<1>1. /\ Len(s) \in Nat /\ DOMAIN s = 1 .. Len(s)
      /\ Len(t) \in Nat
  BY LenProperties
<1>2. /\ DOMAIN (s \o t) = 1 .. Len(s) + Len(t)
      /\ \A i \in 1 .. Len(s) + Len(t) :
           (s \o t)[i] = IF i <= Len(s) THEN s[i] ELSE t[i - Len(s)]
  BY ConcatProperties, LenProperties
<1>3. Embeds(s, s \o t)
  <2> DEFINE at == [i \in 1 .. Len(s) |-> i]
  <2>1. at \in [1 .. Len(s) -> 1 .. Len(s) + Len(t)]
    BY <1>1
  <2>2. \A i, j \in 1 .. Len(s) : s[i] = (s \o t)[at[i]] /\ (i < j => at[i] < at[j])
    BY <1>1, <1>2
  <2> HIDE DEF at
  <2> QED
    BY <1>1, <1>2, <2>1, <2>2 DEF Embeds
<1>4. ASSUME t # <<>> PROVE Embeds(s \o Tail(t), s \o t)
  <2>1. /\ Tail(t) \in Seq(S) /\ Len(t) > 0 /\ Len(Tail(t)) = Len(t) - 1
        /\ \A i \in 1 .. Len(t) - 1 : Tail(t)[i] = t[i + 1]
    BY <1>4, HeadTailProperties, EmptySeq
  <2>2. /\ DOMAIN (s \o Tail(t)) = 1 .. Len(s) + (Len(t) - 1)
        /\ \A i \in 1 .. Len(s) + (Len(t) - 1) :
             (s \o Tail(t))[i] = IF i <= Len(s) THEN s[i] ELSE Tail(t)[i - Len(s)]
    BY <2>1, ConcatProperties, LenProperties
  <2> DEFINE D == 1 .. Len(s) + (Len(t) - 1)
             at == [i \in D |-> IF i <= Len(s) THEN i ELSE i + 1]
  <2>3. at \in [D -> 1 .. Len(s) + Len(t)]
    BY <1>1, <2>1
  <2>4. ASSUME NEW i \in D
        PROVE  (s \o Tail(t))[i] = (s \o t)[at[i]]
    <3>1. CASE i <= Len(s)
      BY <1>1, <1>2, <2>1, <2>2, <3>1
    <3>2. CASE ~(i <= Len(s))
      <4>1. /\ at[i] = i + 1 /\ i + 1 \in 1 .. Len(s) + Len(t) /\ ~(i + 1 <= Len(s))
            /\ i - Len(s) \in 1 .. Len(t) - 1 /\ (i + 1) - Len(s) = (i - Len(s)) + 1
        BY <1>1, <2>1, <3>2
      <4>2. (s \o Tail(t))[i] = Tail(t)[i - Len(s)] /\ (s \o t)[i + 1] = t[(i + 1) - Len(s)]
        BY <1>2, <2>2, <3>2, <4>1
      <4> QED
        BY <2>1, <4>1, <4>2
    <3> QED
      BY <3>1, <3>2
  <2>5. ASSUME NEW i \in D, NEW j \in D, i < j
        PROVE  at[i] < at[j]
    BY <1>1, <2>1, <2>5
  <2> HIDE DEF at
  <2> QED
    BY <1>2, <2>2, <2>3, <2>4, <2>5 DEF Embeds
<1> QED
  BY <1>3, <1>4

LEMMA AppendToConcat ==
  ASSUME NEW S, NEW s \in Seq(S), NEW t \in Seq(S), NEW e \in S
  PROVE  s \o Append(t, e) = Append(s \o t, e)
OBVIOUS

LEMMA ConcatMovesHead ==
  ASSUME NEW S, NEW s \in Seq(S), NEW t \in Seq(S), t # <<>>
  PROVE  Append(s, Head(t)) \o Tail(t) = s \o t
OBVIOUS

-----------------------------------------------------------------------------
(* One monitor announces in order *)

\* What a single monitor announced, and what waits for it, is part of what
\* happened, in its order; a monitor for which something waits is subscribed.
OrderInv ==
  /\ Subscribed = {} => announced = <<>>
  /\ \A n \in Monitors : inbox[n] # <<>> => stage[n] = "subscribed"
  /\ \A n \in Monitors : Subscribed \subseteq {n} => Embeds(announced \o inbox[n], happened)

OrderTypes ==
  /\ inbox \in [Monitors -> Seq(Events)] /\ announced \in Seq(Events)
  /\ happened \in Seq(Events) /\ stage \in [Monitors -> Stages]

LEMMA OrderQuiet ==
  ASSUME BusInv, OrderInv, Subscribed \subseteq Subscribed', Quiet
  PROVE  OrderInv'
BY DEF OrderInv, Quiet

LEMMA OrderEnds ==
  ASSUME BusInv, OrderInv, Subscribed \subseteq Subscribed', Ends
  PROVE  OrderInv'
<1>1. OrderTypes
  BY DEF BusInv, TypeOK, Stages, OrderTypes
<1> PICK last \in Monitors : EndsOf(last)
  BY DEF Ends
<1>2. /\ announced' = announced /\ happened' = happened
      /\ \A n \in Monitors : inbox'[n] = IF n = last THEN <<>> ELSE inbox[n]
      /\ \A n \in Monitors : n # last => stage'[n] = stage[n]
  BY <1>1 DEF EndsOf, OrderTypes
<1>3. ASSUME NEW n \in Monitors, Subscribed' \subseteq {n}
      PROVE  Embeds(announced \o inbox'[n], happened)
  <2>1. Embeds(announced \o inbox[n], happened) /\ inbox[n] \in Seq(Events)
    BY <1>1, <1>3 DEF OrderInv, OrderTypes
  <2>2. CASE n = last
    <3>1. announced \o inbox'[n] = announced
      BY <1>1, <1>2, <2>2, ConcatEmptySeq DEF OrderTypes
    <3>2. announced \o inbox[n] \in Seq(Events)
      BY <1>1, <2>1, ConcatProperties DEF OrderTypes
    <3>3. Embeds(announced, announced \o inbox[n])
      BY <1>1, <2>1, EmbedsRest DEF OrderTypes
    <3> QED
      BY <1>1, <2>1, <3>1, <3>2, <3>3, EmbedsTransitive DEF OrderTypes
  <2>3. CASE n # last
    BY <1>2, <2>1, <2>3
  <2> QED
    BY <2>2, <2>3
<1> QED
  BY <1>2, <1>3 DEF OrderInv

LEMMA OrderEvent ==
  ASSUME BusInv, OrderInv, NEW e \in Events, Event(e)
  PROVE  OrderInv'
<1>1. OrderTypes
  BY DEF BusInv, TypeOK, Stages, OrderTypes
<1>2. /\ announced' = announced /\ happened' = Append(happened, e) /\ stage' = stage
      /\ Subscribed' = Subscribed
      /\ \A n \in Monitors :
           \/ inbox'[n] = inbox[n]
           \/ inbox'[n] = Append(inbox[n], e) /\ stage[n] = "subscribed"
  BY DEF Event, monitorVars, Subscribed
<1>3. ASSUME NEW n \in Monitors, Subscribed \subseteq {n}
      PROVE  Embeds(announced \o inbox'[n], Append(happened, e))
  <2>1. Embeds(announced \o inbox[n], happened) /\ inbox[n] \in Seq(Events)
    BY <1>1, <1>3 DEF OrderInv, OrderTypes
  <2>2. announced \o inbox[n] \in Seq(Events)
    BY <1>1, <2>1, ConcatProperties DEF OrderTypes
  <2>3. /\ Embeds(announced \o inbox[n], Append(happened, e))
        /\ Embeds(Append(announced \o inbox[n], e), Append(happened, e))
    BY <1>1, <2>1, <2>2, EmbedsAppend DEF OrderTypes
  <2>4. announced \o Append(inbox[n], e) = Append(announced \o inbox[n], e)
    BY <1>1, <2>1, AppendToConcat DEF OrderTypes
  <2> QED
    BY <1>2, <2>3, <2>4
<1> QED
  BY <1>2, <1>3 DEF OrderInv

LEMMA OrderHandled ==
  ASSUME BusInv, OrderInv, NEW n \in Monitors, handlerClientEvent(n)
  PROVE  OrderInv'
<1>1. OrderTypes
  BY DEF BusInv, TypeOK, Stages, OrderTypes
<1>2. /\ inbox[n] # <<>> /\ inbox[n] \in Seq(Events) /\ Head(inbox[n]) \in Events
      /\ Tail(inbox[n]) \in Seq(Events)
  BY <1>1, HeadTailProperties DEF handlerClientEvent, OrderTypes
<1>3. n \in Subscribed
  BY <1>2 DEF OrderInv, Subscribed
<1>4. /\ happened' = happened /\ stage' = stage /\ Subscribed' = Subscribed
      /\ \A m \in Monitors : inbox'[m] = IF m = n THEN Tail(inbox[n]) ELSE inbox[m]
  BY <1>1 DEF handlerClientEvent, monitorVars, OrderTypes, Subscribed
<1>5. announced' = announced \/ announced' = Append(announced, Head(inbox[n]))
  BY <1>2, KindIs DEF handlerClientEvent, Announce
<1>6. ASSUME Subscribed \subseteq {n}
      PROVE  Embeds(announced' \o Tail(inbox[n]), happened)
  <2>1. Embeds(announced \o inbox[n], happened)
    BY <1>6 DEF OrderInv
  <2>2. CASE announced' = Append(announced, Head(inbox[n]))
    BY <1>1, <1>2, <2>1, <2>2, ConcatMovesHead DEF OrderTypes
  <2>3. CASE announced' = announced
    <3>1. Embeds(announced \o Tail(inbox[n]), announced \o inbox[n])
      BY <1>1, <1>2, EmbedsRest DEF OrderTypes
    <3>2. /\ announced \o Tail(inbox[n]) \in Seq(Events)
          /\ announced \o inbox[n] \in Seq(Events)
      BY <1>1, <1>2, ConcatProperties DEF OrderTypes
    <3> QED
      BY <1>1, <2>1, <2>3, <3>1, <3>2, EmbedsTransitive DEF OrderTypes
  <2> QED
    BY <1>5, <2>2, <2>3
<1>7. \A m \in Monitors : Subscribed \subseteq {m} => m = n
  BY <1>3
<1>8. \A m \in Monitors : inbox'[m] # <<>> => stage[m] = "subscribed"
  BY <1>2, <1>4 DEF OrderInv
<1> QED
  BY <1>3, <1>4, <1>6, <1>7, <1>8 DEF OrderInv

\* The events of named clients are announced in the order they happened, as
\* long as one monitor has been subscribed: whatever the caller stops and
\* starts, and whenever the handler runs.
THEOREM OneMonitorKeepsOrder == Spec => []AnnouncedInOrder
<1>1. Init => OrderInv
  <2> SUFFICES ASSUME Init PROVE OrderInv
    OBVIOUS
  <2>1. announced = <<>> /\ happened = <<>> /\ \A n \in Monitors : inbox[n] = <<>>
    BY DEF Init
  <2>2. <<>> \o <<>> = <<>>
    OBVIOUS
  <2>3. Embeds(<<>>, <<>>)
    BY EmbedsNothing
  <2> QED
    BY <2>1, <2>2, <2>3 DEF OrderInv
<1>2. BusInv /\ OrderInv /\ [Next]_vars => OrderInv'
  BY BusStep, BusMoves, OrderQuiet, OrderEnds, OrderEvent, OrderHandled
<1>3. BusInv /\ OrderInv => AnnouncedInOrder
  <2> SUFFICES ASSUME BusInv, OrderInv, Cardinality(Subscribed) <= 1
               PROVE  Embeds(announced, happened)
    BY DEF AnnouncedInOrder, Embeds
  <2>1. OrderTypes
    BY DEF BusInv, TypeOK, Stages, OrderTypes
  <2>2. IsFiniteSet(Subscribed)
    BY FS_Interval, FS_Subset, EventBusAssumption DEF EventBusAssumption, Subscribed, Monitors
  <2>3. CASE Subscribed = {}
    <3>1. announced = <<>>
      BY <2>3 DEF OrderInv
    <3> QED
      BY <3>1, EmbedsNothing
  <2>4. CASE \E n : Subscribed = {n}
    <3>1. PICK n : Subscribed = {n}
      BY <2>4
    <3>2. n \in Monitors /\ inbox[n] \in Seq(Events)
      BY <2>1, <3>1 DEF Subscribed, OrderTypes
    <3>3. Embeds(announced \o inbox[n], happened)
      BY <3>1, <3>2 DEF OrderInv
    <3>4. Embeds(announced, announced \o inbox[n]) /\ announced \o inbox[n] \in Seq(Events)
      BY <2>1, <3>2, EmbedsRest, ConcatProperties DEF OrderTypes
    <3> QED
      BY <2>1, <3>3, <3>4, EmbedsTransitive DEF OrderTypes
  <2>5. Cardinality(Subscribed) \in Nat
    BY <2>2, FS_CardinalityType
  <2>6. Cardinality(Subscribed) = 0 \/ Cardinality(Subscribed) = 1
    BY <2>5
  <2> QED
    BY <2>2, <2>3, <2>4, <2>6, FS_EmptySet, FS_Singleton
<1> QED
  BY <1>1, <1>2, <1>3, BusInit, BusStep, PTL DEF Spec

-----------------------------------------------------------------------------
(* Each monitor announces an event once *)

Places(seq, e) == {i \in 1 .. Len(seq) : seq[i] = e}

LEMMA CountIsSize == \A seq, e : Count(seq, e) = Cardinality(Places(seq, e))
BY DEF Count, Places

LEMMA PlacesFinite ==
  ASSUME NEW S, NEW s \in Seq(S), NEW e
  PROVE  IsFiniteSet(Places(s, e)) /\ Count(s, e) \in Nat
<1>1. Len(s) \in Nat
  BY LenProperties
<1>2. IsFiniteSet(1 .. Len(s)) /\ Places(s, e) \in SUBSET (1 .. Len(s))
  BY <1>1, FS_Interval DEF Places
<1>3. IsFiniteSet(Places(s, e))
  BY <1>2, FS_Subset
<1> QED
  BY <1>3, FS_CardinalityType, CountIsSize

LEMMA CountOfNothing == \A e : Count(<<>>, e) = 0
<1> SUFFICES ASSUME NEW e PROVE Count(<<>>, e) = 0
  OBVIOUS
<1>1. Places(<<>>, e) = {}
  BY DEF Places
<1> QED
  BY <1>1, FS_EmptySet, CountIsSize

LEMMA CountAppend ==
  ASSUME NEW S, NEW s \in Seq(S), NEW x \in S, NEW e
  PROVE  Count(Append(s, x), e) = Count(s, e) + (IF x = e THEN 1 ELSE 0)
<1>1. /\ Len(s) \in Nat /\ Len(Append(s, x)) = Len(s) + 1
      /\ \A i \in 1 .. Len(s) : Append(s, x)[i] = s[i]
      /\ Append(s, x)[Len(s) + 1] = x
  BY LenProperties, AppendProperties
<1>2. IsFiniteSet(Places(s, e)) /\ Count(s, e) \in Nat
  BY PlacesFinite
<1>3. Len(s) + 1 \notin Places(s, e)
  BY <1>1 DEF Places
<1>4. CASE x = e
  <2>1. Places(Append(s, x), e) = Places(s, e) \cup {Len(s) + 1}
    BY <1>1, <1>4 DEF Places
  <2> QED
    BY <1>2, <1>3, <1>4, <2>1, FS_AddElement, CountIsSize
<1>5. CASE x # e
  <2>1. Places(Append(s, x), e) = Places(s, e)
    BY <1>1, <1>5 DEF Places
  <2> QED
    BY <1>2, <1>5, <2>1, CountIsSize
<1> QED
  BY <1>4, <1>5

\* Where an event waits: a monitor and a place in what is delivered to it.
Pending(e) ==
  {w \in Monitors \X (Nat \ {0}) : w[2] <= Len(inbox[w[1]]) /\ inbox[w[1]][w[2]] = e}

\* What was announced of an event and what waits is covered by one for each
\* time it happened and each monitor that was subscribed.
PerInv ==
  \A e \in Events :
    /\ IsFiniteSet(Pending(e))
    /\ Count(announced, e) + Cardinality(Pending(e))
         <= Count(happened, e) * Cardinality(Subscribed)
    /\ e[1] \notin Named => Count(announced, e) = 0

LEMMA SubscribedFinite ==
  /\ IsFiniteSet(Subscribed) /\ Cardinality(Subscribed) \in Nat
  /\ IsFiniteSet(Subscribed') /\ Cardinality(Subscribed') \in Nat
<1>1. IsFiniteSet(Monitors)
  BY FS_Interval, EventBusAssumption DEF EventBusAssumption, Monitors
<1>2. Subscribed \in SUBSET Monitors /\ Subscribed' \in SUBSET Monitors
  BY DEF Subscribed
<1> QED
  BY <1>1, <1>2, FS_Subset, FS_CardinalityType

LEMMA TimesMonotonic ==
  ASSUME NEW a \in Nat, NEW b \in Nat, NEW c \in Nat, b <= c
  PROVE  a * b <= a * c
OBVIOUS

LEMMA PerQuiet ==
  ASSUME BusInv, PerInv, Subscribed \subseteq Subscribed', Quiet \/ Ends
  PROVE  PerInv'
<1>1. OrderTypes
  BY DEF BusInv, TypeOK, Stages, OrderTypes
<1>2. UNCHANGED <<announced, happened>>
  BY DEF Quiet, Ends, EndsOf
<1>3. ASSUME NEW e \in Events
      PROVE  Pending(e)' \subseteq Pending(e)
  <2>1. CASE Quiet
    BY <2>1 DEF Quiet, Pending
  <2>2. CASE Ends
    <3> PICK last \in Monitors : EndsOf(last)
      BY <2>2 DEF Ends
    <3>1. \A n \in Monitors : inbox'[n] = IF n = last THEN <<>> ELSE inbox[n]
      BY <1>1 DEF EndsOf, OrderTypes
    <3>2. ASSUME NEW w \in Monitors \X (Nat \ {0}), w \in Pending(e)'
          PROVE  w \in Pending(e)
      <4>1. /\ w[1] \in Monitors /\ w[2] \in Nat \ {0}
            /\ w[2] <= Len(inbox'[w[1]]) /\ inbox'[w[1]][w[2]] = e
        BY <3>2 DEF Pending
      <4>2. w[1] # last
        BY <3>1, <4>1
      <4> QED
        BY <3>1, <4>1, <4>2 DEF Pending
    <3>3. Pending(e)' \subseteq Monitors \X (Nat \ {0})
      BY DEF Pending
    <3> QED
      BY <3>2, <3>3
  <2> QED
    BY <2>1, <2>2
<1>4. ASSUME NEW e \in Events
      PROVE  /\ IsFiniteSet(Pending(e)')
             /\ Count(announced, e) + Cardinality(Pending(e)')
                  <= Count(happened, e) * Cardinality(Subscribed')
  <2>1. IsFiniteSet(Pending(e))
    BY DEF PerInv
  <2>2. IsFiniteSet(Pending(e)') /\ Cardinality(Pending(e)') <= Cardinality(Pending(e))
    BY <1>3, <2>1, FS_Subset
  <2>3. Cardinality(Pending(e)') \in Nat /\ Cardinality(Pending(e)) \in Nat
    BY <2>1, <2>2, FS_CardinalityType
  <2>4. Cardinality(Subscribed) <= Cardinality(Subscribed')
    BY SubscribedFinite, FS_Subset
  <2>5. Count(announced, e) \in Nat /\ Count(happened, e) \in Nat
    BY <1>1, PlacesFinite DEF OrderTypes
  <2> DEFINE most == Count(happened, e) * Cardinality(Subscribed)
             more == Count(happened, e) * Cardinality(Subscribed')
  <2>6. most <= more /\ most \in Nat /\ more \in Nat
    BY <2>4, <2>5, SubscribedFinite, TimesMonotonic
  <2>7. Count(announced, e) + Cardinality(Pending(e)) <= most
    BY DEF PerInv
  <2> HIDE DEF most
  <2>8. Count(announced, e) + Cardinality(Pending(e)') <= more
    <3> HIDE DEF more
    <3> QED
      BY <2>2, <2>3, <2>5, <2>6, <2>7
  <2> QED
    BY <2>2, <2>8
<1>5. \A e : Count(announced, e)' = Count(announced, e) /\ Count(happened, e)' = Count(happened, e)
  BY <1>2
<1> QED
  BY <1>4, <1>5 DEF PerInv

LEMMA PerEvent ==
  ASSUME BusInv, PerInv, NEW x \in Events, Event(x)
  PROVE  PerInv'
<1>1. OrderTypes
  BY DEF BusInv, TypeOK, Stages, OrderTypes
<1>2. /\ announced' = announced /\ happened' = Append(happened, x) /\ Subscribed' = Subscribed
      /\ \A n \in Monitors :
           \/ inbox'[n] = inbox[n]
           \/ inbox'[n] = Append(inbox[n], x) /\ n \in Subscribed
  BY DEF Event, monitorVars, Subscribed
<1>3. ASSUME NEW e \in Events
      PROVE  /\ Count(happened', e) = Count(happened, e) + (IF x = e THEN 1 ELSE 0)
             /\ Count(happened, e) \in Nat /\ Count(announced, e) \in Nat
             /\ IsFiniteSet(Pending(e)) /\ Cardinality(Pending(e)) \in Nat
             /\ Count(announced, e) + Cardinality(Pending(e))
                  <= Count(happened, e) * Cardinality(Subscribed)
  <2>1. IsFiniteSet(Pending(e))
    BY DEF PerInv
  <2> QED
    BY <1>1, <1>2, <2>1, CountAppend, PlacesFinite, FS_CardinalityType DEF OrderTypes, PerInv
<1>4. ASSUME NEW e \in Events, NEW w \in Pending(e)', w \notin Pending(e)
      PROVE  x = e /\ w[1] \in Subscribed /\ w = <<w[1], Len(inbox[w[1]]) + 1>>
  <2>1. /\ w \in Monitors \X (Nat \ {0}) /\ w[2] <= Len(inbox'[w[1]])
        /\ inbox'[w[1]][w[2]] = e
    BY DEF Pending
  <2>2. w[1] \in Monitors /\ w[2] \in Nat \ {0} /\ w = <<w[1], w[2]>>
    BY <2>1
  <2>3. CASE inbox'[w[1]] = inbox[w[1]]
    BY <1>4, <2>1, <2>3 DEF Pending
  <2>4. CASE inbox'[w[1]] = Append(inbox[w[1]], x) /\ w[1] \in Subscribed
    <3>1. inbox[w[1]] \in Seq(Events)
      BY <1>1, <2>2 DEF OrderTypes
    <3> DEFINE t == inbox[w[1]]
    <3>2. /\ Len(t) \in Nat /\ Len(Append(t, x)) = Len(t) + 1
          /\ \A i \in 1 .. Len(t) : Append(t, x)[i] = t[i]
          /\ Append(t, x)[Len(t) + 1] = x
      BY <3>1, LenProperties, AppendProperties
    <3>3. ~(w[2] <= Len(t))
      <4> SUFFICES ASSUME w[2] <= Len(t) PROVE FALSE
        OBVIOUS
      <4>1. t[w[2]] = e
        BY <2>1, <2>2, <2>4, <3>2
      <4> QED
        BY <1>4, <2>1, <4>1 DEF Pending
    <3>4. w[2] = Len(t) + 1
      BY <2>1, <2>2, <2>4, <3>2, <3>3
    <3> QED
      BY <2>1, <2>2, <2>4, <3>2, <3>4
  <2> QED
    BY <1>2, <2>2, <2>3, <2>4
<1>5. ASSUME NEW e \in Events
      PROVE  /\ IsFiniteSet(Pending(e)')
             /\ Count(announced, e) + Cardinality(Pending(e)')
                  <= Count(happened', e) * Cardinality(Subscribed)
  <2> DEFINE New == Pending(e)' \ Pending(e)
             f == [w \in New |-> w[1]]
             most == Count(happened, e) * Cardinality(Subscribed)
  <2>1. IsFiniteSet(New) /\ Cardinality(New) <= Cardinality(Subscribed)
    <3>1. f \in [New -> Subscribed] /\ \A w, v \in New : f[w] = f[v] => w = v
      BY <1>4
    <3>2. f \in Injection(New, Subscribed)
      BY <3>1 DEF Injection, IsInjective
    <3> QED
      BY <3>2, SubscribedFinite, FS_Injection
  <2>2. x # e => New = {}
    BY <1>4
  <2>3. Pending(e)' \subseteq Pending(e) \cup New
    OBVIOUS
  <2> HIDE DEF New
  <2>4. /\ IsFiniteSet(Pending(e) \cup New)
        /\ Cardinality(Pending(e) \cup New)
             = Cardinality(Pending(e)) + Cardinality(New) - Cardinality(Pending(e) \cap New)
        /\ Cardinality(Pending(e) \cap New) \in Nat
        /\ Cardinality(New) \in Nat
    BY <1>3, <2>1, FS_Union, FS_Intersection, FS_CardinalityType
  <2>5. /\ IsFiniteSet(Pending(e)')
        /\ Cardinality(Pending(e)') <= Cardinality(Pending(e) \cup New)
    BY <2>3, <2>4, FS_Subset
  <2>6. Cardinality(Pending(e)') \in Nat
    BY <2>5, FS_CardinalityType
  <2>7. Cardinality(Pending(e)') <= Cardinality(Pending(e)) + Cardinality(New)
    BY <1>3, <2>4, <2>5, <2>6
  <2>8. /\ most \in Nat /\ Count(announced, e) + Cardinality(Pending(e)) <= most
        /\ Cardinality(Subscribed) \in Nat
    BY <1>3, SubscribedFinite
  <2>9. CASE x = e
    <3>1. Count(happened', e) * Cardinality(Subscribed) = most + Cardinality(Subscribed)
      <4>1. Count(happened', e) = Count(happened, e) + 1
        BY <1>3, <2>9
      <4>2. (Count(happened, e) + 1) * Cardinality(Subscribed) = most + Cardinality(Subscribed)
        BY <1>3, SubscribedFinite
      <4> QED
        BY <4>1, <4>2
    <3> HIDE DEF most
    <3>2. Count(announced, e) + Cardinality(Pending(e)') <= most + Cardinality(Subscribed)
      BY <1>3, <2>1, <2>4, <2>6, <2>7, <2>8
    <3> QED
      BY <2>5, <3>1, <3>2
  <2>10. CASE x # e
    <3>1. Cardinality(New) = 0
      BY <2>2, <2>10, FS_EmptySet
    <3>2. Count(happened', e) = Count(happened, e)
      BY <1>3, <2>10
    <3> HIDE DEF most
    <3>3. Count(announced, e) + Cardinality(Pending(e)') <= most
      BY <1>3, <2>6, <2>7, <2>8, <3>1
    <3> QED
      BY <2>5, <3>2, <3>3 DEF most
  <2> QED
    BY <2>9, <2>10
<1> QED
  BY <1>2, <1>5 DEF PerInv

\* A handled event is announced at most once, and no longer waits.
LEMMA PerHandled ==
  ASSUME BusInv, PerInv, NEW n \in Monitors, handlerClientEvent(n)
  PROVE  PerInv'
<1> DEFINE x == Head(inbox[n])
<1>1. OrderTypes
  BY DEF BusInv, TypeOK, Stages, OrderTypes
<1>2. /\ inbox[n] # <<>> /\ inbox[n] \in Seq(Events) /\ x \in Events
      /\ Tail(inbox[n]) \in Seq(Events)
  BY <1>1, HeadTailProperties DEF handlerClientEvent, OrderTypes
<1>3. /\ happened' = happened /\ Subscribed' = Subscribed
      /\ \A m \in Monitors : inbox'[m] = IF m = n THEN Tail(inbox[n]) ELSE inbox[m]
  BY <1>1 DEF handlerClientEvent, monitorVars, OrderTypes, Subscribed
<1>4. \/ announced' = announced
      \/ announced' = Append(announced, x) /\ x[1] \in Named
  BY <1>2, KindIs DEF handlerClientEvent, Announce
<1>5. /\ Len(inbox[n]) \in Nat /\ Len(inbox[n]) > 0 /\ x = inbox[n][1]
      /\ Len(Tail(inbox[n])) = Len(inbox[n]) - 1
      /\ \A i \in 1 .. Len(inbox[n]) - 1 : Tail(inbox[n])[i] = inbox[n][i + 1]
  BY <1>2, LenProperties, HeadTailProperties, EmptySeq
<1> HIDE DEF x
<1>6. ASSUME NEW e \in Events
      PROVE  /\ IsFiniteSet(Pending(e)')
             /\ Cardinality(Pending(e)') + (IF x = e THEN 1 ELSE 0) <= Cardinality(Pending(e))
             /\ Cardinality(Pending(e)') \in Nat /\ Cardinality(Pending(e)) \in Nat
  <2> DEFINE Rest == Pending(e) \ {<<n, 1>>}
             f == [w \in Pending(e)' |-> IF w[1] = n THEN <<n, w[2] + 1>> ELSE w]
  <2>1. IsFiniteSet(Pending(e)) /\ Cardinality(Pending(e)) \in Nat
    BY FS_CardinalityType DEF PerInv
  <2>2. <<n, 1>> \in Pending(e) <=> x = e
    BY <1>5 DEF Pending
  <2>3. ASSUME NEW w \in Pending(e)'
        PROVE  /\ w[1] \in Monitors /\ w[2] \in Nat \ {0} /\ w = <<w[1], w[2]>>
               /\ f[w] \in Rest
    <3>1. /\ w \in Monitors \X (Nat \ {0}) /\ w[2] <= Len(inbox'[w[1]])
          /\ inbox'[w[1]][w[2]] = e
      BY DEF Pending
    <3>2. w[1] \in Monitors /\ w[2] \in Nat \ {0} /\ w = <<w[1], w[2]>>
      BY <3>1
    <3>3. CASE w[1] = n
      <4>1. w[2] <= Len(inbox[n]) - 1 /\ Tail(inbox[n])[w[2]] = e
        BY <1>3, <1>5, <3>1, <3>2, <3>3
      <4>2. w[2] + 1 <= Len(inbox[n]) /\ inbox[n][w[2] + 1] = e /\ w[2] + 1 \in Nat \ {0}
        BY <1>5, <3>2, <4>1
      <4>3. <<n, w[2] + 1>> \in Pending(e)
        BY <4>2 DEF Pending
      <4>4. <<n, w[2] + 1>> # <<n, 1>>
        BY <3>2
      <4> QED
        BY <3>2, <3>3, <4>3, <4>4
    <3>4. CASE w[1] # n
      <4>1. w \in Pending(e)
        BY <1>3, <3>1, <3>2, <3>4 DEF Pending
      <4>2. w # <<n, 1>>
        BY <3>4
      <4> QED
        BY <3>2, <3>4, <4>1, <4>2
    <3> QED
      BY <3>3, <3>4
  <2>4. ASSUME NEW w \in Pending(e)', NEW v \in Pending(e)', f[w] = f[v]
        PROVE  w = v
    <3>1. /\ w[2] \in Nat /\ w = <<w[1], w[2]>>
          /\ v[2] \in Nat /\ v = <<v[1], v[2]>>
      BY <2>3
    <3>2. CASE w[1] = n /\ v[1] = n
      BY <2>4, <3>1, <3>2
    <3>3. CASE w[1] # n /\ v[1] # n
      BY <2>4, <3>3
    <3>4. CASE w[1] = n /\ v[1] # n
      BY <2>4, <3>1, <3>4
    <3>5. CASE w[1] # n /\ v[1] = n
      BY <2>4, <3>1, <3>5
    <3> QED
      BY <3>2, <3>3, <3>4, <3>5
  <2>5. /\ IsFiniteSet(Rest)
        /\ Cardinality(Rest) = IF <<n, 1>> \in Pending(e) THEN Cardinality(Pending(e)) - 1
                                                          ELSE Cardinality(Pending(e))
    BY <2>1, FS_RemoveElement
  <2>6. f \in [Pending(e)' -> Rest]
    BY <2>3
  <2> HIDE DEF f, Rest
  <2>7. f \in Injection(Pending(e)', Rest)
    BY <2>4, <2>6 DEF Injection, IsInjective
  <2>8. IsFiniteSet(Pending(e)') /\ Cardinality(Pending(e)') <= Cardinality(Rest)
    BY <2>5, <2>7, FS_Injection
  <2>9. Cardinality(Pending(e)') \in Nat
    BY <2>8, FS_CardinalityType
  <2> QED
    BY <2>1, <2>2, <2>5, <2>8, <2>9
<1>7. ASSUME NEW e \in Events
      PROVE  /\ Count(announced, e) \in Nat /\ Count(announced', e) \in Nat
             /\ Count(announced', e) <= Count(announced, e) + (IF x = e THEN 1 ELSE 0)
             /\ e[1] \notin Named => Count(announced', e) = Count(announced, e)
  <2>1. Count(announced, e) \in Nat
    BY <1>1, PlacesFinite DEF OrderTypes
  <2>2. Count(Append(announced, x), e) = Count(announced, e) + (IF x = e THEN 1 ELSE 0)
    BY <1>1, <1>2, CountAppend DEF OrderTypes
  <2>3. CASE announced' = announced
    BY <2>1, <2>3
  <2>4. CASE announced' = Append(announced, x) /\ x[1] \in Named
    BY <2>1, <2>2, <2>4
  <2> QED
    BY <1>4, <2>3, <2>4
<1>8. ASSUME NEW e \in Events
      PROVE  Count(announced', e) + Cardinality(Pending(e)')
               <= Count(happened, e) * Cardinality(Subscribed)
  <2> DEFINE most == Count(happened, e) * Cardinality(Subscribed)
  <2>1. Count(announced, e) + Cardinality(Pending(e)) <= most
    BY DEF PerInv
  <2>2. most \in Nat
    BY <1>1, PlacesFinite, SubscribedFinite DEF OrderTypes
  <2> HIDE DEF most
  <2>3. Count(announced', e) + Cardinality(Pending(e)') <= most
    BY <1>6, <1>7, <2>1, <2>2
  <2> QED
    BY <2>3 DEF most
<1> QED
  BY <1>3, <1>6, <1>7, <1>8 DEF PerInv

\* An event of a named client is announced no more often than it happened and
\* monitors were subscribed, and no event of another client is announced.
THEOREM MonitorsAnnounceOnce == Spec => []AnnouncedPerMonitor
<1>1. Init => PerInv
  <2> SUFFICES ASSUME Init, NEW e \in Events
               PROVE  /\ IsFiniteSet(Pending(e))
                      /\ Count(announced, e) + Cardinality(Pending(e))
                           <= Count(happened, e) * Cardinality(Subscribed)
                      /\ e[1] \notin Named => Count(announced, e) = 0
    BY DEF PerInv
  <2>1. Pending(e) = {}
    BY DEF Init, Pending
  <2>2. Count(announced, e) = 0 /\ Count(happened, e) = 0
    BY CountOfNothing DEF Init
  <2>3. IsFiniteSet(Pending(e)) /\ Cardinality(Pending(e)) = 0
    BY <2>1, FS_EmptySet
  <2> QED
    BY <2>2, <2>3, SubscribedFinite
<1>2. BusInv /\ PerInv /\ [Next]_vars => PerInv'
  BY BusStep, BusMoves, PerQuiet, PerEvent, PerHandled
<1>3. BusInv /\ PerInv => AnnouncedPerMonitor
  <2> SUFFICES ASSUME BusInv, PerInv, NEW e \in Events
               PROVE  Count(announced, e) <=
                        IF e[1] \in Named THEN Count(happened, e) * Cardinality(Subscribed) ELSE 0
    BY DEF AnnouncedPerMonitor
  <2>1. OrderTypes
    BY DEF BusInv, TypeOK, Stages, OrderTypes
  <2>2. /\ Count(announced, e) \in Nat /\ Count(happened, e) \in Nat
        /\ Cardinality(Pending(e)) \in Nat
    BY <2>1, PlacesFinite, FS_CardinalityType DEF OrderTypes, PerInv
  <2> DEFINE most == Count(happened, e) * Cardinality(Subscribed)
  <2>3. /\ most \in Nat /\ Count(announced, e) + Cardinality(Pending(e)) <= most
        /\ e[1] \notin Named => Count(announced, e) = 0
    BY <2>2, SubscribedFinite DEF PerInv
  <2> HIDE DEF most
  <2>4. Count(announced, e) <= IF e[1] \in Named THEN most ELSE 0
    BY <2>2, <2>3
  <2> QED
    BY <2>4 DEF most
<1> QED
  BY <1>1, <1>2, <1>3, BusInit, BusStep, PTL DEF Spec

=============================================================================
