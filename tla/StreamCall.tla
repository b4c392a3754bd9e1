----------------------------- MODULE StreamCall -----------------------------
(***************************************************************************)
(* Remote calls over a stream (Qos1, Qos2): the Go client, the JetStream   *)
(* broker and the Go service, with lost messages, a service that crashes,  *)
(* restarts and unregisters, and redelivery.                               *)
(***************************************************************************)
EXTENDS NrpcClient, JetStream, WorkMsg

vars == <<clientVars, wireVars, jsVars, workVars>>

Init ==
  /\ NrpcClientInit
  /\ JetStreamInit
  /\ WorkMsgInit

-----------------------------------------------------------------------------
(* The client *)

Client(c) == CallStep(c) /\ UNCHANGED <<jsVars, workVars>>

NotifyStep(n) == Notify(n) /\ UNCHANGED <<jsVars, workVars>>

LoseStep(m) == Lose(m) /\ UNCHANGED <<jsVars, workVars>>

(* The broker *)

\* The PubAck goes to whoever expects one: a Notify has no reply subject.
StoreStep(m) ==
  /\ m \in req
  /\ req' = req \ {m}
  /\ ack' = IF m \in Calls THEN ack \cup {m} ELSE ack
  /\ Store(m, MsgIdHeader(m))
  /\ UNCHANGED <<clientVars, rep, workVars>>

\* The consumer delivers while somebody is subscribed.
DeliverStep(m) ==
  /\ Deliver(m) \/ Redeliver(m)
  /\ Arrives(m) \/ (Lossy /\ sub # NoSub /\ UNCHANGED workVars)
  /\ UNCHANGED <<clientVars, wireVars>>

GiveUpStep(m) == GiveUp(m) /\ UNCHANGED <<clientVars, wireVars, workVars>>

TickStep == Tick /\ UNCHANGED <<clientVars, wireVars, workVars>>

(* The service *)

StartStep == Start /\ UNCHANGED <<clientVars, wireVars, jsVars>>

CrashStep == Crash /\ UNCHANGED <<clientVars, wireVars, jsVars>>

Register ==
  /\ \E s \in Subs : Subscribed(s, consumer)
  /\ CreateConsumer
  /\ UNCHANGED <<clientVars, wireVars>>

\* The NATS client deletes the consumer it created itself.
UnRegister ==
  /\ Unsubscribed
  /\ IF owner THEN DeleteConsumer ELSE UNCHANGED jsVars
  /\ UNCHANGED <<clientVars, wireVars>>

\* An acknowledgement is a publish nobody confirms: the connection may lose it.
Acknowledging(A) == A \/ (Lossy /\ UNCHANGED jsVars)

\* Mutant: Process acknowledges the message before its handler has run.
BeginStepAcks(s, m) ==
  /\ Begin(s, m)
  /\ Acknowledging(Ack(m))
  /\ UNCHANGED <<clientVars, wireVars>>

BeginStep(s, m) ==
  /\ Begin(s, m)
  /\ Acknowledging(InProgress(m))
  /\ UNCHANGED <<clientVars, wireVars>>

HandleStep(s) == Handle(s) /\ UNCHANGED <<clientVars, wireVars, jsVars>>

TerminateStep(s) ==
  /\ Terminate(s, found[current[s]])
  /\ Acknowledging(Term(current[s]))
  /\ UNCHANGED <<clientVars, wireVars>>

AcknowledgeStep(s) ==
  /\ Acknowledge(s, found[current[s]])
  /\ Acknowledging(Ack(current[s]))
  /\ UNCHANGED <<clientVars, wireVars>>

\* The answer goes to the reply subject named in a header of the request.
ReplyStep(s) ==
  /\ Reply(s)
  /\ rep' = [rep EXCEPT ![current[s]] = @ + 1]
  /\ UNCHANGED <<clientVars, req, ack, jsVars>>

Process(s) ==
  \/ \E m \in Msgs : BeginStep(s, m)
  \/ HandleStep(s)
  \/ TerminateStep(s)
  \/ AcknowledgeStep(s)
  \/ ReplyStep(s)

Next ==
  \/ \E c \in Calls : Client(c)
  \/ \E n \in Notifies : NotifyStep(n)
  \/ \E m \in Msgs :
       \/ LoseStep(m)
       \/ StoreStep(m)
       \/ DeliverStep(m)
       \/ GiveUpStep(m)
  \/ \E s \in Subs : Process(s)
  \/ TickStep
  \/ StartStep
  \/ CrashStep
  \/ Register
  \/ UnRegister

Spec == Init /\ [][Next]_vars

\* A call that was made is carried on: its goroutine is scheduled, its timer
\* runs out.  Nothing is assumed of the application, the network, the broker
\* or the service.
CallFairness(c) ==
  /\ WF_vars(Client(c) /\ phase[c] # "idle" /\ phase'[c] # phase[c])
  /\ WF_vars(Timeout(c) /\ UNCHANGED <<jsVars, workVars>>)

FairSpec == Spec /\ \A c \in Calls : CallFairness(c)

-----------------------------------------------------------------------------
(* Properties *)

TypeOK == NrpcClientTypeOK /\ JetStreamTypeOK /\ WorkMsgTypeOK

Reported(c, r) == \E i \in 1 .. Len(reports[c]) : reports[c][i] = r

\* A call reports a response only after the handler has run for the very
\* message the call published, stored as a message of its own: whatever the
\* crashes, losses, redeliveries and duplicates (Call, CallSync, Process).
AnswerFollowsHandler ==
  \A c \in Calls : Reported(c, "response") => execs[c] > 0 /\ seq[c] > 0

\* checkRequestOpt drops the error of the lookup, and the message of a call
\* whose lookup failed is terminated after the handler has run: such a call
\* is never answered.
AnswerNeedsLookup ==
  \A c \in Calls : Reported(c, "response") => found[c]

\* An answer is the last thing a call reports, and CallSync reports once:
\* only timeouts of Call may come before the answer.
AnswerIsLast ==
  \A c \in Calls :
    /\ \A i \in 1 .. Len(reports[c]) - 1 : reports[c][i] = "timeout"
    /\ c \in Sync => Len(reports[c]) <= 1

\* Process runs the handler at most once for each delivery, and the consumer
\* delivers a message at most MaxDeliver times.
ExecutionsBounded ==
  \A m \in Msgs : execs[m] <= deliv[m] /\ deliv[m] <= MaxDeliver

\* With StreamDefaultConfig and the AckWait of the server a message is gone
\* before it is due again (MaxAge <= AckWait): redelivery never happens, the
\* handler runs at most once for a message.
AtMostOnce == \A m \in Msgs : execs[m] <= 1

\* With StreamDefaultConfig (MaxAge <= Duplicates) the stream never holds two
\* messages with the same MsgId, however often a Qos2 call is retried.
UniqueInStream ==
  \A m, n \in stream :
    m # n => MsgIdHeader(m) = NoId \/ MsgIdHeader(m) # MsgIdHeader(n)

\* A request leaves the stream without having been handled only for a limit of
\* the stream or with the consumer, never for an acknowledgement of Process.
Handled(m) ==
  \/ execs[m] > 0
  \/ m \in Expired /\ TickStep
  \/ m \in Oldest /\ lastSeq' > lastSeq
  \/ ~consumer'

HandledBeforeGone == [][\A m \in stream \ stream' : Handled(m)]_vars

\* Every call that was made reports something or returns an error.
CallSettles ==
  \A c \in Calls : phase[c] # "idle" ~> phase[c] = "failed" \/ reports[c] # <<>>

-----------------------------------------------------------------------------
(* Inductive invariants: why the properties above hold *)

\* The way of an answer back to its handler: what is delivered, in Process,
\* answered and reported was stored, executed and found before.
DeliveredWasStored ==
  /\ \A m \in stream : seq[m] > 0
  /\ \A m \in Msgs : inbox[m] > 0 => seq[m] > 0
  /\ \A s \in Subs : step[s] # "idle" => seq[current[s]] > 0

RespondedWasExecuted ==
  \A s \in Subs :
    /\ step[s] \in {"respond", "reply"} => execs[current[s]] > 0
    /\ step[s] = "reply" => found[current[s]]

Served(c) == execs[c] > 0 /\ seq[c] > 0 /\ found[c]

AnsweredWasServed ==
  \A c \in Calls : rep[c] > 0 \/ Reported(c, "response") => Served(c)

Causality == DeliveredWasStored /\ RespondedWasExecuted /\ AnsweredWasServed

\* Why nothing follows an answer: a call that still waits has reported timeouts
\* only, and CallSync nothing at all.
OnlyTimeouts(c) == \A i \in 1 .. Len(reports[c]) : reports[c][i] = "timeout"

WaitingInv ==
  \A c \in Calls : phase[c] # "done" =>
    OnlyTimeouts(c) /\ (c \in Sync => reports[c] = <<>>)

LastAnswer == WaitingInv /\ AnswerIsLast

\* Why a MsgId is unique in the stream: it is in the window for as long as
\* the message that brought it, and a message that was sent keeps its header.
SentIsChecked ==
  /\ \A m \in req \cup stream : phase[m] \notin {"idle", "checked"}
  /\ req \cap stream = {}

IdInWindow ==
  \A m \in stream :
    /\ age[m] < MaxAge
    /\ MsgIdHeader(m) # NoId => dupAge[MsgIdHeader(m)] <= age[m]

Window == SentIsChecked /\ IdInWindow /\ UniqueInStream

\* Why a message is executed once when it expires before it is due again:
\* its only delivery is in one place, waiting, in Process or executed.
DueAfterExpiry ==
  /\ pending \subseteq stream
  /\ \A m \in stream : age[m] < MaxAge
  /\ \A m \in pending : wait[m] <= age[m]

InProcess(m) == {s \in Subs : current[s] = m}

InOnePlace(m) ==
  /\ deliv[m] = 0 => inbox[m] = 0 /\ InProcess(m) = {} /\ execs[m] = 0
  /\ inbox[m] <= 1
  /\ inbox[m] = 1 => InProcess(m) = {} /\ execs[m] = 0
  /\ \A s, t \in InProcess(m) : s = t
  /\ \A s \in InProcess(m) : step[s] = "handler" => execs[m] = 0
  /\ execs[m] <= 1

OneDelivery == \A m \in Msgs : InOnePlace(m)

Once == SentIsChecked /\ DueAfterExpiry /\ OneDelivery

\* Why a delivery runs the handler once, however many subscriptions are in
\* Process: each delivery waits, is about to run the handler, has run it or is
\* gone with a crash or an UnRegister.
Running(m) == {s \in Subs : current[s] = m /\ step[s] = "handler"}

DeliveriesCount ==
  \A m \in Msgs :
    /\ IsFiniteSet(Running(m))
    /\ inbox[m] + Cardinality(Running(m)) + execs[m] <= deliv[m]
    /\ deliv[m] <= MaxDeliver

\* Why a handler runs only for a call that was made.
StoredWasSent == \A m \in Msgs : seq[m] > 0 => phase[m] \notin {"idle", "checked"}

-----------------------------------------------------------------------------
(* Refinement *)

StatusOf(m) ==
  CASE phase[m] \in {"idle", "checked"} -> "idle"
    [] phase[m] = "failed" -> "failed"
    [] phase[m] = "done" /\ m \in Calls ->
         IF Reported(m, "response") THEN "answered" ELSE "failed"
    [] OTHER -> "pending"

Status == [m \in Msgs |-> StatusOf(m)]

RunsLimit == IF MaxAge <= AckWait THEN 1 ELSE MaxDeliver

Abstract == INSTANCE Rpc WITH
  Requests <- Msgs, status <- Status, runs <- execs, Limit <- RunsLimit

\* Whatever is lost, delivered again or restarted, client, broker and service
\* together keep the promise of Rpc.
ImplementsRpc == Abstract!Spec

-----------------------------------------------------------------------------
(* What an example assumes of the program and the code does not keep *)

\* The callback of Call runs once: helloworld.go waits for it with
\* wg.Add(1) and calls wg.Done() in it.
CallbackOnce == \A c \in Async : Len(reports[c]) <= 1

=============================================================================
