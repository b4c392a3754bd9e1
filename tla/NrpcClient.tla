------------------------------ MODULE NrpcClient ------------------------------
(***************************************************************************)
(* The Go client, go/nrpc/nrpc_client.go: the calls one or more NRPCClients *)
(* have under way, each from its CheckRequestOpt to its last callback.     *)
(*                                                                         *)
(* A call in Async is NRPCClient.Call, whose goroutine reports through a   *)
(* callback; a call in Sync is CallSync, whose return value is the report. *)
(* reports[c] is everything a call has reported, oldest first.             *)
(*                                                                         *)
(* The client meets the broker and the service on the wire:                *)
(*   req  requests published and not yet taken by the broker,              *)
(*   ack  answers of the broker to a publish (PubAck) on their way back,   *)
(*   rep  answers of a service on their way to a reply inbox, a bag.       *)
(***************************************************************************)
EXTENDS Naturals, Sequences, Messages

CONSTANTS
  Async,       \* calls made with Call
  Sync,        \* calls made with CallSync
  Notifies,    \* messages sent with Notify
  QosOf,       \* the Qos of the RequestOpt of a call
  MsgIdOf,     \* its MsgId, or NoId
  AnswerOf,    \* what the service answers a call with
  Lossy,       \* the connection may lose what is on the wire
  MaxTimeouts  \* bound: timeouts one call may report

Calls == Async \cup Sync

Answers == {"response",  \* decodes with the encoding of the client
            "garbled",   \* does not decode
            "acklike"}   \* its bytes contain "stream", +ACK or +WPI

\* What a call may report: an answer, an answer that does not decode (or,
\* for CallSync with Qos0, the PubAck of the stream), an elapsed timeout.
Reports == {"response", "garbled", "timeout"}

Phases == {"idle", "checked", "publishing", "spawned", "select", "request",
           "done", "failed"}

ASSUME NrpcClientAssumption ==
  /\ Async \cap Sync = {}
  /\ Calls \cap Notifies = {}
  /\ Msgs = Calls \cup Notifies
  /\ QosOf \in [Calls -> 0 .. 2]
  /\ MsgIdOf \in [Calls -> MsgIds \cup {NoId}]
  /\ AnswerOf \in [Calls -> Answers]
  /\ Lossy \in BOOLEAN
  /\ MaxTimeouts \in Nat \ {0}

VARIABLES
  phase,    \* where a call stands; a Notify is "idle" or "done"
  found,    \* the lookup found the stream, ExpectedStream is set to it
  qos,      \* opt.Qos, which checkRequestOpt may change
  reports,
  req, ack, rep

clientVars == <<phase, found, qos, reports>>
wireVars == <<req, ack, rep>>

NrpcClientTypeOK ==
  /\ phase \in [Msgs -> Phases]
  /\ found \in [Msgs -> BOOLEAN]
  /\ qos \in [Calls -> 0 .. 2]
  /\ reports \in [Calls -> Seq(Reports)]
  /\ req \subseteq Msgs
  /\ ack \subseteq Calls
  /\ rep \in [Calls -> Nat]

NrpcClientInit ==
  /\ phase = [c \in Msgs |-> "idle"]
  /\ found = [c \in Msgs |-> FALSE]
  /\ qos = QosOf
  /\ reports = [c \in Calls |-> <<>>]
  /\ req = {}
  /\ ack = {}
  /\ rep = [c \in Calls |-> 0]

-----------------------------------------------------------------------------

GoTo(c, p) == phase' = [phase EXCEPT ![c] = p]

Report(c, r) == reports' = [reports EXCEPT ![c] = Append(@, r)]

\* Only Qos0 is corrected, and only when the subject belongs to a stream.
CorrectedQos(c) ==
  IF QosOf[c] # 0 THEN QosOf[c] ELSE IF MsgIdOf[c] # NoId THEN 2 ELSE 1

\* The lookup may fail although the stream exists (the API request times
\* out); the error is dropped, and with it the name of the stream.
CheckRequestOpt(c) ==
  /\ phase[c] = "idle"
  /\ GoTo(c, "checked")
  /\ \/ /\ found' = [found EXCEPT ![c] = TRUE]
        /\ qos' = [qos EXCEPT ![c] = CorrectedQos(c)]
     \/ UNCHANGED <<found, qos>>
  /\ UNCHANGED <<reports, wireVars>>

\* The header a publish carries: MsgId is sent with Qos2 only.
MsgIdHeader(c) ==
  IF c \in Calls /\ qos[c] = 2 THEN MsgIdOf[c] ELSE NoId

\* Marshal, ChanSubscribe or the publish itself returns an error.
SendFails(c) ==
  /\ phase[c] \in {"idle", "checked"}
  /\ GoTo(c, "failed")
  /\ UNCHANGED <<found, qos, reports, wireVars>>

Publish(c, next) ==
  /\ phase[c] = "checked"
  /\ req' = req \cup {c}
  /\ GoTo(c, next)
  /\ UNCHANGED <<found, qos, reports, ack, rep>>

\* request(): PublishMsg waits for the PubAck.
RequestStream(c) == qos[c] # 0 /\ Publish(c, "publishing")

\* Call with Qos0 publishes with the inbox as reply subject and goes on.
PublishRequest(c) == c \in Async /\ qos[c] = 0 /\ Publish(c, "spawned")

\* CallSync with Qos0 is a request of the NATS client.
RequestCore(c) == c \in Sync /\ qos[c] = 0 /\ Publish(c, "request")

PublishAcked(c) ==
  /\ phase[c] = "publishing"
  /\ c \in ack
  /\ ack' = ack \ {c}
  /\ GoTo(c, "spawned")
  /\ UNCHANGED <<found, qos, reports, req, rep>>

\* No PubAck within AckWait, or the connection is lost.
PublishFails(c) ==
  /\ phase[c] = "publishing"
  /\ GoTo(c, "failed")
  /\ UNCHANGED <<found, qos, reports, wireVars>>

\* The goroutine of Call, or CallSync itself, reaches its select.
EnterSelect(c) ==
  /\ phase[c] = "spawned"
  /\ GoTo(c, "select")
  /\ UNCHANGED <<found, qos, reports, wireVars>>

\* Mutant: no return after the callback.
OnAnswerGoesOn(c, answer) ==
  /\ Report(c, IF answer = "garbled" THEN "garbled" ELSE "response")
  /\ UNCHANGED phase

\* What one received answer does.  The goroutine of Call takes an answer
\* that looks like a PubAck for one and selects again.
OnAnswer(c, answer) ==
  IF answer = "acklike" /\ c \in Async
  THEN UNCHANGED <<phase, reports>>
  ELSE /\ GoTo(c, "done")
       /\ Report(c, IF answer = "garbled" THEN "garbled" ELSE "response")

\* replyChan has no buffer: it takes an answer only from inside the select.
ReceiveAnswer(c) ==
  /\ phase[c] = "select"
  /\ rep[c] > 0
  /\ rep' = [rep EXCEPT ![c] = @ - 1]
  /\ OnAnswer(c, AnswerOf[c])
  /\ UNCHANGED <<found, qos, req, ack>>

\* Nobody receives on replyChan: the subscription drops the answer.
DropAnswer(c) ==
  /\ phase[c] # "select"
  /\ rep[c] > 0
  /\ rep' = [rep EXCEPT ![c] = @ - 1]
  /\ UNCHANGED <<clientVars, req, ack>>

\* Mutant: the goroutine of Call takes a PubAck for an answer.
DropPubAckUnfiltered(c) ==
  /\ phase[c] = "select"
  /\ c \in ack
  /\ ack' = ack \ {c}
  /\ GoTo(c, "done")
  /\ Report(c, "response")
  /\ UNCHANGED <<found, qos, req, rep>>

\* A PubAck nobody waits for: that of a publish with Qos0 goes to the inbox,
\* where Call drops it; that of a failed publish is late.
DropPubAck(c) ==
  /\ phase[c] \notin {"publishing", "request"}
  /\ c \in ack
  /\ ack' = ack \ {c}
  /\ UNCHANGED <<clientVars, req, rep>>

\* The stream answers the request of CallSync with its PubAck, which is no
\* Response.
RequestCoreAnswered(c) ==
  /\ phase[c] = "request"
  /\ c \in ack
  /\ ack' = ack \ {c}
  /\ GoTo(c, "done")
  /\ Report(c, "garbled")
  /\ UNCHANGED <<found, qos, req, rep>>

\* Mutant: CallSync waits without a time.After.
TimeoutOfCall(c) ==
  /\ c \in Async
  /\ phase[c] = "select"
  /\ Len(reports[c]) < MaxTimeouts
  /\ Report(c, "timeout")
  /\ UNCHANGED <<phase, found, qos, wireVars>>

\* time.After(opt.Timeout).  CallSync returns; the goroutine of Call runs
\* the callback and goes round its loop.
Timeout(c) ==
  /\ phase[c] \in {"select", "request"}
  /\ Len(reports[c]) < MaxTimeouts
  /\ Report(c, "timeout")
  /\ IF c \in Sync THEN GoTo(c, "done") ELSE UNCHANGED phase
  /\ UNCHANGED <<found, qos, wireVars>>

\* Notify publishes without headers and expects nothing back; when it fails
\* it has done nothing.
Notify(n) ==
  /\ phase[n] = "idle"
  /\ GoTo(n, "done")
  /\ req' = req \cup {n}
  /\ UNCHANGED <<found, qos, reports, ack, rep>>

\* The connection loses what is on the wire.
Lose(c) ==
  /\ Lossy
  /\ \/ req' = req \ {c} /\ UNCHANGED <<ack, rep>>
     \/ ack' = ack \ {c} /\ UNCHANGED <<req, rep>>
     \/ /\ c \in Calls
        /\ rep[c] > 0
        /\ rep' = [rep EXCEPT ![c] = @ - 1]
        /\ UNCHANGED <<req, ack>>
  /\ UNCHANGED clientVars

CallStep(c) ==
  \/ CheckRequestOpt(c)
  \/ SendFails(c)
  \/ RequestStream(c)
  \/ PublishRequest(c)
  \/ RequestCore(c)
  \/ PublishAcked(c)
  \/ PublishFails(c)
  \/ EnterSelect(c)
  \/ ReceiveAnswer(c)
  \/ DropAnswer(c)
  \/ DropPubAck(c)
  \/ RequestCoreAnswered(c)
  \/ Timeout(c)

=============================================================================
