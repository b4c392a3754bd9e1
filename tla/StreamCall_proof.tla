-------------------------- MODULE StreamCall_proof --------------------------
(***************************************************************************)
(* Proofs about StreamCall, for every value of the constants.              *)
(***************************************************************************)
EXTENDS StreamCall, TLAPS

-----------------------------------------------------------------------------
(* Type correctness, component by component *)

\* Moving a call and appending to its reports keep their types.
LEMMA GoToType ==
  ASSUME NrpcClientTypeOK, NEW c, NEW p \in Phases, GoTo(c, p)
  PROVE  phase' \in [Msgs -> Phases]
BY DEF NrpcClientTypeOK, GoTo

LEMMA ReportType ==
  ASSUME NrpcClientTypeOK, NEW c \in Calls, NEW r \in Reports, Report(c, r)
  PROVE  reports' \in [Calls -> Seq(Reports)]
BY DEF NrpcClientTypeOK, Report

LEMMA AnswerTakenType ==
  ASSUME NrpcClientTypeOK, NEW c \in Calls, rep[c] > 0,
         rep' = [rep EXCEPT ![c] = @ - 1]
  PROVE  rep' \in [Calls -> Nat]
BY DEF NrpcClientTypeOK

\* Every step of a call keeps the types of the client and of the wire.
LEMMA CallStepType ==
  ASSUME NrpcClientTypeOK, NEW c \in Calls, CallStep(c)
  PROVE  NrpcClientTypeOK'
<1>a. {"idle", "checked", "publishing", "spawned", "select", "request", "done", "failed"} = Phases
  BY DEF Phases
<1>b. {"response", "garbled", "timeout"} = Reports
  BY DEF Reports
<1>c. c \in Msgs
  BY NrpcClientAssumption DEF NrpcClientAssumption, Calls
<1>1. CASE CheckRequestOpt(c)
  <2>1. CorrectedQos(c) \in 0 .. 2
    BY NrpcClientAssumption DEF NrpcClientAssumption, CorrectedQos
  <2>2. phase' \in [Msgs -> Phases]
    BY <1>1, <1>a, GoToType DEF CheckRequestOpt
  <2>3. found' \in [Msgs -> BOOLEAN]
    BY <1>1, <1>c DEF CheckRequestOpt, NrpcClientTypeOK
  <2>4. qos' \in [Calls -> 0 .. 2]
    BY <1>1, <2>1 DEF CheckRequestOpt, NrpcClientTypeOK
  <2> QED
    BY <1>1, <2>2, <2>3, <2>4 DEF CheckRequestOpt, NrpcClientTypeOK, wireVars
<1>2. CASE SendFails(c)
  BY <1>2, <1>a, GoToType DEF SendFails, NrpcClientTypeOK, wireVars
<1>3. CASE RequestStream(c) \/ PublishRequest(c) \/ RequestCore(c)
  BY <1>3, <1>a, <1>c, GoToType
     DEF RequestStream, PublishRequest, RequestCore, Publish, NrpcClientTypeOK
<1>4. CASE PublishAcked(c) \/ PublishFails(c) \/ EnterSelect(c)
  BY <1>4, <1>a, GoToType
     DEF PublishAcked, PublishFails, EnterSelect, NrpcClientTypeOK, wireVars
<1>5. CASE ReceiveAnswer(c)
  <2>1. phase' \in [Msgs -> Phases] /\ reports' \in [Calls -> Seq(Reports)]
    <3>1. CASE AnswerOf[c] = "acklike" /\ c \in Async
      BY <1>5, <3>1 DEF ReceiveAnswer, OnAnswer, NrpcClientTypeOK
    <3>2. CASE ~(AnswerOf[c] = "acklike" /\ c \in Async)
      BY <1>5, <3>2, <1>a, <1>b, GoToType, ReportType DEF ReceiveAnswer, OnAnswer
    <3> QED  BY <3>1, <3>2
  <2>2. rep' \in [Calls -> Nat]
    BY <1>5 DEF ReceiveAnswer, NrpcClientTypeOK
  <2> QED
    BY <1>5, <2>1, <2>2 DEF ReceiveAnswer, NrpcClientTypeOK
<1>6. CASE DropAnswer(c) \/ DropPubAck(c)
  <2>1. CASE DropAnswer(c)
    BY <2>1, AnswerTakenType DEF DropAnswer, NrpcClientTypeOK, clientVars
  <2>2. CASE DropPubAck(c)
    BY <2>2 DEF DropPubAck, NrpcClientTypeOK, clientVars
  <2> QED
    BY <1>6, <2>1, <2>2
<1>7. CASE RequestCoreAnswered(c)
  <2>1. phase' \in [Msgs -> Phases] /\ reports' \in [Calls -> Seq(Reports)]
    BY <1>7, <1>a, <1>b, GoToType, ReportType DEF RequestCoreAnswered
  <2> QED
    BY <1>7, <2>1 DEF RequestCoreAnswered, NrpcClientTypeOK
<1>8. CASE Timeout(c)
  <2>1. reports' \in [Calls -> Seq(Reports)]
    BY <1>8, <1>b, ReportType DEF Timeout
  <2>2. phase' \in [Msgs -> Phases]
    BY <1>8, <1>a, GoToType DEF Timeout, NrpcClientTypeOK
  <2> QED
    BY <1>8, <2>1, <2>2 DEF Timeout, NrpcClientTypeOK, wireVars
<1> QED
  BY <1>1, <1>2, <1>3, <1>4, <1>5, <1>6, <1>7, <1>8 DEF CallStep

\* The messages on the wire keep their types when they are sent, taken or lost.
LEMMA WireType ==
  ASSUME NrpcClientTypeOK,
         \/ \E n \in Notifies : Notify(n)
         \/ \E m \in Msgs : Lose(m)
  PROVE  NrpcClientTypeOK'
<1>1. CASE \E n \in Notifies : Notify(n)
  <2>1. PICK n \in Notifies : Notify(n)
    BY <1>1
  <2>2. n \in Msgs /\ "done" \in Phases
    BY NrpcClientAssumption DEF NrpcClientAssumption, Phases
  <2> QED
    BY <2>1, <2>2, GoToType DEF Notify, NrpcClientTypeOK
<1>2. CASE \E m \in Msgs : Lose(m)
  <2>1. PICK m \in Msgs : Lose(m)
    BY <1>2
  <2>2. CASE UNCHANGED rep
    BY <2>1, <2>2 DEF Lose, NrpcClientTypeOK, clientVars
  <2>3. CASE m \in Calls /\ rep[m] > 0 /\ rep' = [rep EXCEPT ![m] = @ - 1]
    BY <2>1, <2>3, AnswerTakenType DEF Lose, NrpcClientTypeOK, clientVars
  <2> QED
    BY <2>1, <2>2, <2>3 DEF Lose
<1> QED
  BY <1>1, <1>2

\* The header of a message is an id or absent.
LEMMA HeaderType ==
  ASSUME NEW m \in Msgs
  PROVE  MsgIdHeader(m) \in MsgIds \cup {NoId}
BY NrpcClientAssumption DEF NrpcClientAssumption, MsgIdHeader

\* What the broker keeps is typed whatever it is asked to do.
LEMMA StoreType ==
  ASSUME JetStreamTypeOK, NEW m \in Msgs, NEW id \in MsgIds \cup {NoId}, Store(m, id)
  PROVE  JetStreamTypeOK'
<1>1. CASE IsDuplicate(id)
  BY <1>1 DEF Store, JetStreamTypeOK
<1>2. CASE ~IsDuplicate(id)
  <2>1. dupAge' \in [MsgIds -> 0 .. Duplicates]
    BY <1>2, JetStreamAssumption DEF JetStreamAssumption, Store, RememberId, JetStreamTypeOK
  <2>2. /\ stream' \subseteq Msgs
        /\ pending' \subseteq Msgs
        /\ seq' \in [Msgs -> Nat]
        /\ lastSeq' \in Nat
        /\ age' \in [Msgs -> Nat]
    <3>1. CASE consumer
      BY <1>2, <3>1 DEF Store, Retain, JetStreamTypeOK
    <3>2. CASE ~consumer
      BY <1>2, <3>2 DEF Store, Retain, JetStreamTypeOK
    <3> QED  BY <3>1, <3>2
  <2> QED
    BY <1>2, <2>1, <2>2 DEF Store, JetStreamTypeOK
<1> QED
  BY <1>1, <1>2

LEMMA SendType ==
  ASSUME JetStreamTypeOK, NEW m \in Msgs, Send(m)
  PROVE  JetStreamTypeOK'
BY JetStreamAssumption DEF JetStreamAssumption, Send, JetStreamTypeOK

LEMMA TickType ==
  ASSUME JetStreamTypeOK, Tick
  PROVE  JetStreamTypeOK'
<1>1. age' \in [Msgs -> Nat]
  BY DEF Tick, JetStreamTypeOK
<1>2. dupAge' \in [MsgIds -> 0 .. Duplicates]
  BY JetStreamAssumption DEF JetStreamAssumption, Tick, JetStreamTypeOK
<1>3. wait' \in [Msgs -> 0 .. AckWait]
  BY JetStreamAssumption DEF JetStreamAssumption, Tick, JetStreamTypeOK
<1> QED
  BY <1>1, <1>2, <1>3 DEF Tick, JetStreamTypeOK

LEMMA AckType ==
  ASSUME JetStreamTypeOK, NEW m,
         \/ InProgress(m) \/ Ack(m) \/ Term(m) \/ GiveUp(m)
         \/ CreateConsumer \/ DeleteConsumer
  PROVE  JetStreamTypeOK'
<1>1. wait' \in [Msgs -> 0 .. AckWait]
  BY JetStreamAssumption
     DEF JetStreamAssumption, InProgress, Ack, Term, GiveUp, CreateConsumer,
         DeleteConsumer, JetStreamTypeOK
<1> QED
  BY <1>1
     DEF InProgress, Ack, Term, GiveUp, CreateConsumer, DeleteConsumer,
         JetStreamTypeOK

\* What the service keeps is typed whatever it does.
LEMMA LifeCycleType ==
  ASSUME WorkMsgTypeOK,
         \/ Start \/ Crash \/ Unsubscribed
         \/ \E s \in Subs, e \in BOOLEAN : Subscribed(s, e)
         \/ \E m \in Msgs : Arrives(m)
  PROVE  WorkMsgTypeOK'
<1> USE DEF WorkMsgTypeOK, Steps
<1>1. CASE Start \/ Unsubscribed
  <2>1. inbox' \in [Msgs -> Nat]
    BY <1>1 DEF Start, Unsubscribed, NoDeliveries
  <2> QED
    BY <1>1, <2>1 DEF Start, Unsubscribed
<1>2. CASE Crash
  BY <1>2 DEF Crash, NoDeliveries, NoProcess, AllIdle
<1>3. CASE \E s \in Subs, e \in BOOLEAN : Subscribed(s, e)
  BY <1>3 DEF Subscribed
<1>4. CASE \E m \in Msgs : Arrives(m)
  BY <1>4 DEF Arrives
<1> QED
  BY <1>1, <1>2, <1>3, <1>4

LEMMA ProcessType ==
  ASSUME WorkMsgTypeOK, NEW s \in Subs, NEW e,
         \/ \E m \in Msgs : Begin(s, m)
         \/ Handle(s) \/ Terminate(s, e) \/ Acknowledge(s, e) \/ Reply(s)
  PROVE  WorkMsgTypeOK'
<1> USE WorkMsgAssumption DEF WorkMsgAssumption, WorkMsgTypeOK, Steps, GoOn
<1>0. \A m \in Msgs : m # NoMsg
  OBVIOUS
<1>1. CASE \E m \in Msgs : Begin(s, m)
  <2>1. PICK m \in Msgs : Begin(s, m)
    BY <1>1
  <2>2. inbox' \in [Msgs -> Nat]
    BY <2>1 DEF Begin
  <2>3. current'[s] = m /\ step'[s] = "handler"
    BY <2>1 DEF Begin
  <2>4. current' \in [Subs -> Msgs \cup {NoMsg}] /\ step' \in [Subs -> Steps]
    BY <2>1 DEF Begin
  <2>5. \A t \in Subs : current'[t] = NoMsg <=> step'[t] = "idle"
    BY <2>1, <2>3 DEF Begin
  <2> QED
    BY <2>1, <2>2, <2>4, <2>5 DEF Begin
<1>2. CASE Handle(s)
  BY <1>2 DEF Handle
<1>3. CASE Terminate(s, e) \/ Reply(s)
  BY <1>3 DEF Terminate, Reply, EndProcess
<1>4. CASE Acknowledge(s, e)
  BY <1>4 DEF Acknowledge
<1> QED
  BY <1>1, <1>2, <1>3, <1>4

\* What a step of StreamCall does to each component, in one place: the later
\* proofs go through the same cases.
LEMMA TypeInit == Init => TypeOK
<1> SUFFICES ASSUME Init PROVE TypeOK
  OBVIOUS
<1>1. NrpcClientTypeOK
  BY NrpcClientAssumption
     DEF NrpcClientAssumption, Init, NrpcClientInit, NrpcClientTypeOK, Phases
<1>2. JetStreamTypeOK
  <2>1. Duplicates \in 0 .. Duplicates /\ 0 \in 0 .. AckWait
    BY JetStreamAssumption DEF JetStreamAssumption
  <2> QED
    BY <2>1 DEF Init, JetStreamInit, JetStreamTypeOK
<1>3. WorkMsgTypeOK
  BY DEF Init, WorkMsgInit, WorkMsgTypeOK, Steps, NoDeliveries, NoProcess, AllIdle
<1> QED
  BY <1>1, <1>2, <1>3 DEF TypeOK

LEMMA TypeStep == TypeOK /\ [Next]_vars => TypeOK'
<1> SUFFICES ASSUME TypeOK, [Next]_vars PROVE TypeOK'
  OBVIOUS
<1>t. NrpcClientTypeOK /\ JetStreamTypeOK /\ WorkMsgTypeOK
  BY DEF TypeOK
<1>c. UNCHANGED <<clientVars, wireVars>> => NrpcClientTypeOK'
  BY <1>t DEF NrpcClientTypeOK, clientVars, wireVars
<1>j. UNCHANGED jsVars => JetStreamTypeOK'
  BY <1>t DEF JetStreamTypeOK, jsVars
<1>w. UNCHANGED workVars => WorkMsgTypeOK'
  BY <1>t DEF WorkMsgTypeOK, workVars
<1>1. CASE \E c \in Calls : Client(c)
  BY <1>1, <1>t, <1>j, <1>w, CallStepType DEF Client, TypeOK
<1>2. CASE (\E n \in Notifies : NotifyStep(n)) \/ (\E m \in Msgs : LoseStep(m))
  BY <1>2, <1>t, <1>j, <1>w, WireType DEF NotifyStep, LoseStep, TypeOK
<1>3. CASE \E m \in Msgs : StoreStep(m)
  <2>1. PICK m \in Msgs : StoreStep(m)
    BY <1>3
  <2>2. NrpcClientTypeOK'
    BY <1>t, <2>1 DEF StoreStep, NrpcClientTypeOK, clientVars
  <2>3. JetStreamTypeOK'
    BY <1>t, <2>1, HeaderType, StoreType DEF StoreStep
  <2>4. WorkMsgTypeOK'
    BY <1>w, <2>1 DEF StoreStep
  <2> QED
    BY <2>2, <2>3, <2>4 DEF TypeOK
<1>4. CASE \E m \in Msgs : DeliverStep(m)
  <2>1. PICK m \in Msgs : DeliverStep(m)
    BY <1>4
  <2>2. JetStreamTypeOK'
    BY <1>t, <2>1, SendType DEF DeliverStep, Deliver, Redeliver
  <2>3. WorkMsgTypeOK'
    BY <1>t, <1>w, <2>1, LifeCycleType DEF DeliverStep
  <2> QED
    BY <1>c, <2>1, <2>2, <2>3 DEF DeliverStep, TypeOK
<1>5. CASE TickStep \/ \E m \in Msgs : GiveUpStep(m)
  BY <1>5, <1>t, <1>c, <1>w, TickType, AckType DEF TickStep, GiveUpStep, TypeOK
<1>6. CASE StartStep \/ CrashStep
  BY <1>6, <1>t, <1>c, <1>j, LifeCycleType DEF StartStep, CrashStep, TypeOK
<1>7. CASE Register
  <2>1. WorkMsgTypeOK'
    <3>1. consumer \in BOOLEAN
      BY <1>t DEF JetStreamTypeOK
    <3> QED
      BY <1>7, <1>t, <3>1, LifeCycleType DEF Register
  <2> QED
    BY <1>7, <1>t, <1>c, <2>1, AckType DEF Register, TypeOK
<1>8. CASE UnRegister
  BY <1>8, <1>t, <1>c, <1>j, LifeCycleType, AckType DEF UnRegister, TypeOK
<1>9. CASE \E s \in Subs : Process(s)
  <2>1. PICK s \in Subs : Process(s)
    BY <1>9
  <2>2. CASE \E m \in Msgs : BeginStep(s, m)
    BY <2>2, <1>t, <1>c, <1>j, ProcessType, AckType
       DEF BeginStep, Acknowledging, TypeOK
  <2>3. CASE HandleStep(s)
    BY <2>3, <1>t, <1>c, <1>j, ProcessType DEF HandleStep, TypeOK
  <2>4. CASE TerminateStep(s) \/ AcknowledgeStep(s)
    BY <2>4, <1>t, <1>c, <1>j, ProcessType, AckType
       DEF TerminateStep, AcknowledgeStep, Acknowledging, TypeOK
  <2>5. CASE ReplyStep(s)
    <3>1. NrpcClientTypeOK'
      <4>1. rep' = [rep EXCEPT ![current[s]] = @ + 1] /\ rep \in [Calls -> Nat]
        BY <2>5, <1>t DEF ReplyStep, NrpcClientTypeOK
      <4>2. rep' \in [Calls -> Nat]
        <5>1. rep' = [d \in Calls |->
                        IF d = current[s] THEN rep[d] + 1 ELSE rep[d]]
          BY <4>1
        <5>2. \A d \in Calls : rep[d] \in Nat /\ rep[d] + 1 \in Nat
          BY <4>1
        <5> QED
          BY <5>1, <5>2
      <4> QED
        BY <2>5, <1>t, <4>2 DEF ReplyStep, NrpcClientTypeOK, clientVars
    <3> QED
      BY <2>5, <3>1, <1>t, <1>j, ProcessType DEF ReplyStep, TypeOK
  <2> QED
    BY <2>1, <2>2, <2>3, <2>4, <2>5 DEF Process
<1>10. CASE UNCHANGED vars
  BY <1>10, <1>c, <1>j, <1>w DEF vars, TypeOK
<1> QED
  BY <1>1, <1>2, <1>3, <1>4, <1>5, <1>6, <1>7, <1>8, <1>9, <1>10 DEF Next

\* Every variable keeps its type, whatever the calls, the losses and the
\* crashes.
THEOREM TypeCorrect == Spec => []TypeOK
BY TypeInit, TypeStep, PTL DEF Spec

=============================================================================
