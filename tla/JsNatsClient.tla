---------------------------- MODULE JsNatsClient ----------------------------
(***************************************************************************)
(* The connection of the JavaScript side, NatsClient of                    *)
(* js/nats/natsclient/nats_client.js: the connect a program awaits once,   *)
(* whatever comes of it, and the events of the connection afterwards.      *)
(* Left out: this.connected, which nothing reads.                          *)
(***************************************************************************)

VARIABLES
  connecting,  \* where connect stands; "done" and "failed" let the program go on
  conn,        \* this.client: "none" (null), "up", "away" (the library
               \* reconnects), "draining" or "closed"
  manager      \* this.jsm and this.jstream are set

natsVars == <<connecting, conn, manager>>

JsNatsClientTypeOK ==
  /\ connecting \in {"connect", "manager", "done", "failed"}
  /\ conn \in {"none", "up", "away", "draining", "closed"}
  /\ manager \in BOOLEAN

JsNatsClientInit ==
  /\ connecting = "connect"
  /\ conn = "none"
  /\ manager = FALSE

-----------------------------------------------------------------------------

\* The programs await connect, catch its rejection and go on.
Returned == connecting \in {"done", "failed"}

\* Nats.connect resolves.
connect ==
  /\ connecting = "connect"
  /\ connecting' = "manager"
  /\ conn' = "up"
  /\ UNCHANGED manager

connectFails ==
  /\ connecting = "connect"
  /\ connecting' = "failed"
  /\ UNCHANGED <<conn, manager>>

jetstreamManager ==
  /\ connecting = "manager"
  /\ conn = "up"
  /\ connecting' = "done"
  /\ manager' = TRUE
  /\ UNCHANGED conn

\* Only a connection that is closed already is closed then: this.client stays.
jetstreamManagerFails ==
  /\ connecting = "manager"
  /\ connecting' = "failed"
  /\ UNCHANGED <<conn, manager>>

Disconnect ==
  /\ conn = "up"
  /\ conn' = "away"
  /\ UNCHANGED <<connecting, manager>>

Reconnect ==
  /\ conn = "away"
  /\ conn' = "up"
  /\ UNCHANGED <<connecting, manager>>

\* disconnect drains: the library hands on what it has received and closes.
disconnect ==
  /\ Returned
  /\ conn = "up"
  /\ conn' = "draining"
  /\ UNCHANGED <<connecting, manager>>

\* The library gives up, or has drained.  this.client stays and nothing
\* connects again.
Closed ==
  /\ conn \in {"away", "draining"}
  /\ conn' = "closed"
  /\ UNCHANGED <<connecting, manager>>

ConnectStep == connect \/ connectFails \/ jetstreamManager \/ jetstreamManagerFails

\* The library takes a subscription while it reconnects, and sends it later.
CanSubscribeCore == conn \in {"up", "away"}

\* The calls of JetStream are requests: without a connection they time out.
JetStreamAnswers == conn = "up" /\ manager

=============================================================================
