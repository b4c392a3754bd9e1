------------------------------ MODULE JetStream ------------------------------
(***************************************************************************)
(* External: the NATS JetStream broker as the code of the repository uses  *)
(* it.  One stream made by BindStream with StreamDefaultConfig (interest   *)
(* retention, MaxAge, duplicate window, MaxMsgs with DiscardOld) and the   *)
(* one durable push consumer that Register binds for a service             *)
(* (AckExplicit, ManualAck, MaxDeliver, MaxAckPending).                    *)
(*                                                                         *)
(* Time is a Tick that ages what the broker holds: a stored message, an id *)
(* in the duplicate window, an unacknowledged delivery.  Ages stop at the  *)
(* limits they are compared with, so no clock has to be bounded.           *)
(***************************************************************************)
EXTENDS Naturals, FiniteSets, Messages

CONSTANTS
  MaxAge,        \* ticks a message stays in the stream
  Duplicates,    \* ticks an id stays in the duplicate window
  MaxMsgs,       \* messages the stream holds before it discards the oldest
  AckWait,       \* ticks before an unacknowledged delivery is due again
  MaxDeliver,    \* deliveries of one message
  MaxAckPending  \* unacknowledged deliveries at a time

ASSUME JetStreamAssumption ==
  {MaxAge, Duplicates, MaxMsgs, AckWait, MaxDeliver, MaxAckPending}
    \subseteq Nat \ {0}

VARIABLES
  stream,    \* messages now in the stream
  seq,       \* stream sequence of a message, 0 when it was never stored
  lastSeq,   \* last sequence given out
  age,       \* ticks since a message of the stream was stored
  dupAge,    \* ticks since an id entered the window; Duplicates: outside it
  consumer,  \* the durable consumer exists
  pending,   \* messages delivered and not acknowledged
  deliv,     \* deliveries of a message
  wait       \* ticks since the last delivery or +WPI of a pending message

jsVars == <<stream, seq, lastSeq, age, dupAge, consumer, pending, deliv, wait>>

JetStreamTypeOK ==
  /\ stream \subseteq Msgs
  /\ seq \in [Msgs -> Nat]
  /\ lastSeq \in Nat
  /\ age \in [Msgs -> Nat]
  /\ dupAge \in [MsgIds -> 0 .. Duplicates]
  /\ consumer \in BOOLEAN
  /\ pending \subseteq Msgs
  /\ deliv \in [Msgs -> Nat]
  /\ wait \in [Msgs -> 0 .. AckWait]

JetStreamInit ==
  /\ stream = {}
  /\ seq = [m \in Msgs |-> 0]
  /\ lastSeq = 0
  /\ age = [m \in Msgs |-> 0]
  /\ dupAge = [i \in MsgIds |-> Duplicates]
  /\ consumer = FALSE
  /\ pending = {}
  /\ deliv = [m \in Msgs |-> 0]
  /\ wait = [m \in Msgs |-> 0]

-----------------------------------------------------------------------------
(* Publishing *)

IsDuplicate(id) == id # NoId /\ dupAge[id] < Duplicates

\* DiscardOld: what a full stream gives up to take one more message.
Oldest ==
  IF Cardinality(stream) < MaxMsgs
  THEN {}
  ELSE {m \in stream : \A n \in stream : seq[m] <= seq[n]}

\* The id enters the window whether or not the message is retained.
RememberId(id) ==
  dupAge' = IF id = NoId THEN dupAge ELSE [dupAge EXCEPT ![id] = 0]

\* Interest retention keeps a message only when a consumer exists.
Retain(m) ==
  IF consumer
  THEN /\ stream' = (stream \ Oldest) \cup {m}
       /\ pending' = pending \ Oldest
       /\ seq' = [seq EXCEPT ![m] = lastSeq + 1]
       /\ lastSeq' = lastSeq + 1
       /\ age' = [age EXCEPT ![m] = 0]
  ELSE UNCHANGED <<stream, pending, seq, lastSeq, age>>

\* The broker takes a published message; a PubAck answers it in every case.
Store(m, id) ==
  /\ IF IsDuplicate(id)
     THEN UNCHANGED <<stream, pending, seq, lastSeq, age, dupAge>>
     ELSE RememberId(id) /\ Retain(m)
  /\ UNCHANGED <<consumer, deliv, wait>>

-----------------------------------------------------------------------------
(* Delivering to the subscription of the consumer *)

Send(m) ==
  /\ pending' = pending \cup {m}
  /\ deliv' = [deliv EXCEPT ![m] = @ + 1]
  /\ wait' = [wait EXCEPT ![m] = 0]
  /\ UNCHANGED <<stream, seq, lastSeq, age, dupAge, consumer>>

\* New messages go out in stream order while MaxAckPending allows.
Deliver(m) ==
  /\ consumer
  /\ m \in stream
  /\ deliv[m] = 0
  /\ \A n \in stream : deliv[n] = 0 => seq[m] <= seq[n]
  /\ Cardinality(pending) < MaxAckPending
  /\ Send(m)

AckWaitOver(m) == m \in pending \cap stream /\ wait[m] >= AckWait

Redeliver(m) ==
  /\ consumer
  /\ AckWaitOver(m)
  /\ deliv[m] < MaxDeliver
  /\ Send(m)

\* After MaxDeliver deliveries the message is no longer delivered; it stays
\* in the stream until it expires.
GiveUp(m) ==
  /\ AckWaitOver(m)
  /\ deliv[m] >= MaxDeliver
  /\ pending' = pending \ {m}
  /\ UNCHANGED <<stream, seq, lastSeq, age, dupAge, consumer, deliv, wait>>

-----------------------------------------------------------------------------
(* Acknowledgements of the service *)

\* +WPI restarts the ack timer.
InProgress(m) ==
  /\ wait' = IF m \in pending THEN [wait EXCEPT ![m] = 0] ELSE wait
  /\ UNCHANGED <<stream, seq, lastSeq, age, dupAge, consumer, pending, deliv>>

\* +ACK and +TERM: the only interest is gone, the message leaves the stream.
Ack(m) ==
  /\ stream' = stream \ {m}
  /\ pending' = pending \ {m}
  /\ UNCHANGED <<seq, lastSeq, age, dupAge, consumer, deliv, wait>>

Term(m) == Ack(m)

CreateConsumer ==
  /\ consumer' = TRUE
  /\ UNCHANGED <<stream, seq, lastSeq, age, dupAge, pending, deliv, wait>>

\* Without a consumer nobody is interested in what the stream holds.
DeleteConsumer ==
  /\ consumer' = FALSE
  /\ stream' = {}
  /\ pending' = {}
  /\ UNCHANGED <<seq, lastSeq, age, dupAge, deliv, wait>>

-----------------------------------------------------------------------------

Expired == {m \in stream : age[m] + 1 >= MaxAge}

Tick ==
  /\ stream' = stream \ Expired
  /\ pending' = pending \ Expired
  /\ age' = [m \in Msgs |-> IF m \in stream \ Expired THEN age[m] + 1 ELSE 0]
  /\ dupAge' = [i \in MsgIds |->
                  IF dupAge[i] < Duplicates THEN dupAge[i] + 1 ELSE dupAge[i]]
  /\ wait' = [m \in Msgs |->
                IF m \in pending /\ wait[m] < AckWait THEN wait[m] + 1 ELSE wait[m]]
  /\ UNCHANGED <<seq, lastSeq, consumer, deliv>>

=============================================================================
