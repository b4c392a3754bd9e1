------------------------------- MODULE JsSetup -------------------------------
(***************************************************************************)
(* What a JavaScript program sets up before it registers: bindStream and   *)
(* bindConsumer of js/nrpc/nrpc.js over addStream and addConsumer of       *)
(* js/nats/natsclient/nats_client.js.  A program may await them or, as     *)
(* js/test/server_test.js does, call register at once.                     *)
(*                                                                         *)
(* The broker has at most one stream for the subject, ours or, under       *)
(* another name, that of another program (the two test programs name       *)
(* different streams for one subject), and one durable consumer.  Every    *)
(* bindConsumer brings an inbox of its own for the consumer to deliver to; *)
(* the broker changes the inbox of a consumer unless somebody subscribes   *)
(* it (attached, a parameter here).  While the connection is up the broker *)
(* answers; otherwise a lookup or call fails.                              *)
(***************************************************************************)
EXTENDS JsNatsClient

VARIABLES
  stream,    \* the stream of the subject in the broker: "none", "ours", "foreign"
  binding,   \* where bindStream stands; it resolves with information when
             \* "bound", with nothing when "failed"
  consumer,  \* the durable consumer: "none", or whose inbox it delivers to,
             \* the one of this program's bindConsumer, "ours", or "other"
  adding,    \* where bindConsumer stands
  updating   \* an update of the consumer nobody awaits is on its way

setupVars == <<stream, binding, consumer, adding, updating>>

JsSetupTypeOK ==
  /\ JsNatsClientTypeOK
  /\ stream \in {"none", "ours", "foreign"}
  /\ binding \in {"idle", "info", "add", "update", "bound", "failed"}
  /\ consumer \in {"none", "ours", "other"}
  /\ adding \in {"idle", "info", "add", "bound", "failed"}
  /\ updating \in BOOLEAN

\* An earlier process may have left stream and consumer behind.
JsSetupInit ==
  /\ JsNatsClientInit
  /\ stream \in {"none", "ours"}
  /\ consumer \in IF stream = "ours" THEN {"none", "other"} ELSE {"none"}
  /\ binding = "idle"
  /\ adding = "idle"
  /\ updating = FALSE

-----------------------------------------------------------------------------
(* bindStream *)

Binding(from, to) ==
  /\ binding = from
  /\ binding' = to
  /\ UNCHANGED <<consumer, adding, updating, natsVars>>

\* Without a client addStream throws; bindStream resolves all the same.
bindStream ==
  /\ Returned
  /\ Binding("idle", IF conn = "none" THEN "failed" ELSE "info")
  /\ UNCHANGED stream

\* Any failure of the lookup is taken for a stream that does not exist.
streamInfo ==
  /\ Binding("info", IF JetStreamAnswers /\ stream = "ours" THEN "update" ELSE "add")
  /\ UNCHANGED stream

\* The broker refuses a subject another stream has, and may refuse a stream
\* that exists by now with another configuration.
streamAdd ==
  /\ binding = "add"
  /\ \/ /\ JetStreamAnswers
        /\ stream # "foreign"
        /\ stream' = "ours"
        /\ Binding("add", "bound")
     \/ /\ JetStreamAnswers => stream # "none"
        /\ UNCHANGED stream
        /\ Binding("add", "failed")

streamUpdate ==
  /\ \/ JetStreamAnswers /\ Binding("update", "bound")
     \/ Binding("update", "failed")
  /\ UNCHANGED stream

\* Another program binds a stream to the subject first.
OtherBindsStream ==
  /\ stream = "none"
  /\ stream' \in {"ours", "foreign"}
  /\ UNCHANGED <<binding, consumer, adding, updating, natsVars>>

-----------------------------------------------------------------------------
(* The checks of register *)

\* The stream of the subject; the broker knows none, or does not answer.
streamNameBySubject == IF JetStreamAnswers THEN stream ELSE "none"

\* name is the stream the service is made with, "" for none.
checkStreamWithSubject(name) == streamNameBySubject = name

\* The assertion wants a service without a stream: a service with one is
\* rejected before the lookups.
checkConsumerAndStreamWithSubject(name) == name = "" /\ streamNameBySubject = "none"

-----------------------------------------------------------------------------
(* bindConsumer *)

Adding(from, to) ==
  /\ adding = from
  /\ adding' = to
  /\ UNCHANGED <<stream, binding, natsVars>>

bindConsumer ==
  /\ Returned
  /\ binding # "idle"
  /\ Adding("idle", IF conn = "none" THEN "failed" ELSE "info")
  /\ UNCHANGED <<consumer, updating>>

\* A consumer that is found is updated, without waiting, and added as well.
consumerInfo ==
  /\ Adding("info", "add")
  /\ updating' = (JetStreamAnswers /\ consumer # "none")
  /\ UNCHANGED consumer

\* The inbox of this program may be given to the consumer, or is there.
Deliverable(attached) == consumer # "ours" => ~attached

\* The broker may refuse a consumer that exists by now.
consumerAdd(attached) ==
  \/ /\ JetStreamAnswers
     /\ stream = "ours"
     /\ Deliverable(attached)
     /\ consumer' = "ours"
     /\ Adding("add", "bound")
     /\ UNCHANGED updating
  \/ /\ JetStreamAnswers /\ stream = "ours" => consumer # "none"
     /\ Adding("add", "failed")
     /\ UNCHANGED <<consumer, updating>>

\* Mutant: the update brings another new inbox.
consumerUpdateRenews(attached, rejected) ==
  /\ updating
  /\ updating' = FALSE
  /\ \/ ~rejected /\ JetStreamAnswers /\ ~attached /\ consumer' = "other"
     \/ rejected /\ UNCHANGED consumer
  /\ UNCHANGED <<stream, binding, adding, natsVars>>

\* The update has the configuration of consumerAdd, inbox included, and comes
\* before or after it.  When it fails, the rejection is that of a promise nobody
\* has.
consumerUpdate(attached, rejected) ==
  /\ updating
  /\ updating' = FALSE
  /\ \/ /\ ~rejected
        /\ JetStreamAnswers
        /\ Deliverable(attached)
        /\ consumer' = "ours"
     \/ rejected /\ UNCHANGED consumer
  /\ UNCHANGED <<stream, binding, adding, natsVars>>

SetupCall == bindStream \/ bindConsumer

SetupStep(attached) ==
  \/ streamInfo \/ streamAdd \/ streamUpdate \/ OtherBindsStream
  \/ consumerInfo \/ consumerAdd(attached)
  \/ consumerUpdate(attached, FALSE)

=============================================================================
