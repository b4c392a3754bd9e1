------------------------ MODULE StreamCallRuns_proof ------------------------
(***************************************************************************)
(* How often the handler of a stream call runs.  What the limits of the    *)
(* stream buy, for every value of them that keeps the order of             *)
(* StreamDefaultConfig: a MsgId is unique in the stream when MaxAge <=     *)
(* Duplicates, and the handler runs at most once for a message when MaxAge *)
(* <= AckWait.  For any limits it runs at most once for a delivery, which  *)
(* with what is known of the answers gives the refinement of Rpc.          *)
(***************************************************************************)
EXTENDS StreamCallAnswers_proof, FiniteSetTheorems

-----------------------------------------------------------------------------
(* A message that was sent keeps its header *)

\* checkRequestOpt is over when a call publishes.
LEMMA SentIsCheckedStep ==
  ASSUME TypeOK, SentIsChecked, [Next]_vars
  PROVE  SentIsChecked'
<1>t. stream \subseteq Msgs /\ req \subseteq Msgs /\ phase \in [Msgs -> Phases]
  BY DEF TypeOK, JetStreamTypeOK, NrpcClientTypeOK
<1>c. Calls \subseteq Msgs /\ Notifies \subseteq Msgs
  BY NrpcClientAssumption DEF NrpcClientAssumption
<1>1. CASE \E c \in Calls : Client(c)
  <2>1. PICK c \in Calls : CallStep(c) /\ stream' = stream
    BY <1>1 DEF Client, jsVars
  <2>2. \A m \in Msgs : m # c => phase'[m] = phase[m] /\ (m \in req' <=> m \in req)
    BY <1>t, <2>1
       DEF CallStep, CheckRequestOpt, SendFails, RequestStream, PublishRequest,
           RequestCore, Publish, PublishAcked, PublishFails, EnterSelect,
           ReceiveAnswer, OnAnswer, DropAnswer, DropPubAck,
           RequestCoreAnswered, Timeout, GoTo, wireVars, clientVars
  <2>3. \/ /\ phase'[c] \notin {"idle", "checked"}
           /\ c \in req' => c \in req \/ phase[c] = "checked"
        \/ (c \in req' <=> c \in req) /\ phase'[c] = phase[c]
        \/ (c \in req' <=> c \in req) /\ phase[c] = "idle"
    BY <1>t, <1>c, <2>1
       DEF CallStep, CheckRequestOpt, SendFails, RequestStream, PublishRequest,
           RequestCore, Publish, PublishAcked, PublishFails, EnterSelect,
           ReceiveAnswer, OnAnswer, DropAnswer, DropPubAck,
           RequestCoreAnswered, Timeout, GoTo, wireVars, clientVars
  <2>4. req' \subseteq Msgs
    BY <1>t, <1>c, <2>1
       DEF CallStep, CheckRequestOpt, SendFails, RequestStream, PublishRequest,
           RequestCore, Publish, PublishAcked, PublishFails, EnterSelect,
           ReceiveAnswer, DropAnswer, DropPubAck, RequestCoreAnswered, Timeout,
           wireVars
  <2> QED
    BY <1>t, <2>1, <2>2, <2>3, <2>4 DEF SentIsChecked
<1>2. CASE \E n \in Notifies : NotifyStep(n)
  BY <1>t, <1>c, <1>2 DEF NotifyStep, Notify, GoTo, jsVars, SentIsChecked
<1>3. CASE \E m \in Msgs : StoreStep(m)
  BY <1>t, <1>3 DEF StoreStep, Store, Retain, clientVars, SentIsChecked
<1>4. CASE phase' = phase /\ req' \subseteq req /\ stream' \subseteq stream
  BY <1>t, <1>4 DEF SentIsChecked
<1> QED
  BY <1>1, <1>2, <1>3, <1>4
     DEF Next, LoseStep, Lose, DeliverStep, Deliver, Redeliver, Send, GiveUpStep,
         GiveUp, TickStep, Tick, StartStep, CrashStep, Register, CreateConsumer,
         UnRegister, DeleteConsumer, Process, BeginStep, InProgress, HandleStep,
         TerminateStep, Term, Ack, AcknowledgeStep, Acknowledging, ReplyStep,
         vars, clientVars, wireVars, jsVars

LEMMA HeaderStays ==
  ASSUME TypeOK, [Next]_vars, NEW m \in Msgs, phase[m] # "idle"
  PROVE  MsgIdHeader(m)' = MsgIdHeader(m)
<1>1. qos'[m] = qos[m] \/ m \notin Calls
  <2>1. CASE \E c \in Calls : Client(c)
    BY <2>1
       DEF TypeOK, NrpcClientTypeOK, Client, CallStep, CheckRequestOpt,
           SendFails, RequestStream, PublishRequest, RequestCore, Publish,
           PublishAcked, PublishFails, EnterSelect, ReceiveAnswer, DropAnswer,
           DropPubAck, RequestCoreAnswered, Timeout, clientVars
  <2>2. CASE UNCHANGED qos
    BY <2>2
  <2> QED
    BY <2>1, <2>2
       DEF Next, NotifyStep, Notify, LoseStep, Lose, StoreStep, DeliverStep,
           GiveUpStep, TickStep, StartStep, CrashStep, Register, UnRegister,
           Process, BeginStep, HandleStep, TerminateStep, AcknowledgeStep,
           ReplyStep, vars, clientVars
<1> QED
  BY <1>1 DEF MsgIdHeader

-----------------------------------------------------------------------------
(* A MsgId is unique in the stream *)

LEMMA WindowStep ==
  ASSUME MaxAge <= Duplicates, TypeOK, Window, [Next]_vars
  PROVE  IdInWindow' /\ UniqueInStream'
<1>t. /\ stream \subseteq Msgs /\ req \subseteq Msgs
      /\ age \in [Msgs -> Nat] /\ dupAge \in [MsgIds -> 0 .. Duplicates]
      /\ MaxAge \in Nat \ {0} /\ Duplicates \in Nat /\ NoId \notin MsgIds
  BY JetStreamAssumption, MessagesAssumption
     DEF JetStreamAssumption, MessagesAssumption, TypeOK, JetStreamTypeOK,
         NrpcClientTypeOK
<1>h. \A m \in Msgs : MsgIdHeader(m) \in MsgIds \cup {NoId}
  BY HeaderType
<1>s. \A m \in req \cup stream : MsgIdHeader(m)' = MsgIdHeader(m)
  BY <1>t, HeaderStays DEF Window, SentIsChecked
<1>i. IdInWindow /\ UniqueInStream
  BY DEF Window
<1>1. CASE \E m \in Msgs : StoreStep(m)
  <2>1. PICK m \in Msgs : StoreStep(m)
    BY <1>1
  <2>2. CASE UNCHANGED <<stream, age, dupAge>>
    BY <1>t, <1>s, <1>i, <2>2 DEF IdInWindow, UniqueInStream
  <2>3. CASE ~IsDuplicate(MsgIdHeader(m))
    <3>1. m \in req /\ RememberId(MsgIdHeader(m)) /\ Retain(m)
      BY <2>1, <2>3 DEF StoreStep, Store
    <3>2. \A n \in stream : MsgIdHeader(m) # NoId => MsgIdHeader(n) # MsgIdHeader(m)
      BY <1>t, <1>h, <1>i, <2>3 DEF IsDuplicate, IdInWindow
    <3>3. stream' \subseteq stream \cup {m}
      BY <3>1 DEF Retain
    <3>4. \A n \in stream' : n # m => age'[n] = age[n]
      BY <1>t, <3>1, <3>3 DEF Retain
    <3>5. m \in stream' => age'[m] = 0 \/ (m \in stream /\ age'[m] = age[m])
      BY <1>t, <3>1 DEF Retain
    <3>6. \A n \in Msgs : n # m /\ MsgIdHeader(n) # NoId /\ MsgIdHeader(n) # MsgIdHeader(m)
             => dupAge'[MsgIdHeader(n)] = dupAge[MsgIdHeader(n)]
      BY <1>t, <1>h, <3>1 DEF RememberId
    <3>7. MsgIdHeader(m) # NoId => dupAge'[MsgIdHeader(m)] = 0
      BY <1>t, <1>h, <3>1 DEF RememberId
    <3>8. \A n \in stream' :
            /\ age'[n] < MaxAge
            /\ MsgIdHeader(n) # NoId => dupAge'[MsgIdHeader(n)] <= age'[n]
      <4>1. TAKE n \in stream'
      <4>2. CASE n = m
        BY <1>t, <1>h, <1>i, <3>5, <3>7, <4>2 DEF IdInWindow
      <4>3. CASE n # m
        BY <1>t, <1>h, <1>i, <3>2, <3>3, <3>4, <3>6, <4>3 DEF IdInWindow
      <4> QED
        BY <4>2, <4>3
    <3>9. \A n \in stream' : MsgIdHeader(n)' = MsgIdHeader(n)
      BY <1>s, <3>1, <3>3
    <3>10. IdInWindow'
      BY <3>8, <3>9 DEF IdInWindow
    <3>11. UniqueInStream'
      BY <1>i, <3>2, <3>3, <3>9 DEF UniqueInStream
    <3> QED
      BY <3>10, <3>11
  <2> QED
    BY <2>1, <2>2, <2>3 DEF StoreStep, Store
<1>2. CASE TickStep
  <2>1. stream' \subseteq stream /\ \A m \in stream' : age'[m] = age[m] + 1 /\ age'[m] < MaxAge
    BY <1>t, <1>2 DEF TickStep, Tick, Expired
  <2>2. \A i \in MsgIds : dupAge'[i] <= dupAge[i] + 1
    BY <1>t, <1>2 DEF TickStep, Tick
  <2>3. \A m \in stream' : MsgIdHeader(m) # NoId => dupAge'[MsgIdHeader(m)] <= age'[m]
    <3>1. TAKE m \in stream'
    <3>2. HAVE MsgIdHeader(m) # NoId
    <3>3. dupAge[MsgIdHeader(m)] <= age[m] /\ MsgIdHeader(m) \in MsgIds
      BY <1>t, <1>h, <1>i, <2>1, <3>2 DEF IdInWindow
    <3>4. dupAge[MsgIdHeader(m)] \in Nat /\ age[m] \in Nat /\ dupAge'[MsgIdHeader(m)] \in Nat
      BY <1>t, <1>2, <2>1, <3>3 DEF TickStep, Tick
    <3> QED
      BY <2>1, <2>2, <3>3, <3>4
  <2> QED
    BY <1>s, <1>i, <2>1, <2>3 DEF IdInWindow, UniqueInStream
<1>3. CASE stream' \subseteq stream /\ UNCHANGED <<age, dupAge>>
  BY <1>t, <1>s, <1>i, <1>3 DEF IdInWindow, UniqueInStream
<1> QED
  BY <1>1, <1>2, <1>3
     DEF Next, Client, NotifyStep, LoseStep, DeliverStep, Deliver, Redeliver, Send,
         GiveUpStep, GiveUp, StartStep, CrashStep, Register, CreateConsumer,
         UnRegister, DeleteConsumer, Process, BeginStep, InProgress, HandleStep,
         TerminateStep, Term, Ack, AcknowledgeStep, Acknowledging, ReplyStep,
         vars, jsVars

\* With a duplicate window no shorter than the life of a message, the stream
\* never holds two messages with one MsgId: StreamDefaultConfig has both at
\* ten seconds.
THEOREM IdsUniqueInStream ==
  ASSUME MaxAge <= Duplicates
  PROVE  Spec => []UniqueInStream
<1>1. Init => Window
  BY DEF Init, NrpcClientInit, JetStreamInit, Window, SentIsChecked, IdInWindow,
         UniqueInStream
<1>2. TypeOK /\ Window /\ [Next]_vars => Window'
  BY SentIsCheckedStep, WindowStep DEF Window
<1>3. Window => UniqueInStream
  BY DEF Window
<1> QED
  BY <1>1, <1>2, <1>3, TypeCorrect, PTL DEF Spec

-----------------------------------------------------------------------------
(* The handler runs at most once for a message *)

LEMMA DueAfterExpiryStep ==
  ASSUME TypeOK, SentIsChecked, DueAfterExpiry, [Next]_vars
  PROVE  DueAfterExpiry'
<1>t. /\ stream \subseteq Msgs /\ pending \subseteq Msgs
      /\ age \in [Msgs -> Nat] /\ wait \in [Msgs -> 0 .. AckWait]
      /\ MaxAge \in Nat \ {0} /\ AckWait \in Nat
  BY JetStreamAssumption DEF JetStreamAssumption, TypeOK, JetStreamTypeOK
<1> USE DEF DueAfterExpiry
<1>1. CASE \E m \in Msgs : StoreStep(m)
  <2>1. PICK m \in Msgs : StoreStep(m)
    BY <1>1
  <2>2. CASE UNCHANGED <<stream, age, pending, wait>>
    BY <2>2
  <2>3. CASE m \notin pending /\ Retain(m) /\ wait' = wait
    BY <1>t, <2>3 DEF Retain
  <2>4. m \notin pending
    BY <2>1 DEF StoreStep, SentIsChecked
  <2> QED
    BY <2>1, <2>2, <2>3, <2>4 DEF StoreStep, Store, Retain
<1>2. CASE TickStep
  <2>1. /\ stream' = stream \ Expired /\ pending' = pending \ Expired
        /\ \A m \in stream' : age'[m] = age[m] + 1 /\ age'[m] < MaxAge
    BY <1>t, <1>2 DEF TickStep, Tick, Expired
  <2>2. \A m \in pending : wait'[m] <= wait[m] + 1
    BY <1>t, <1>2 DEF TickStep, Tick
  <2>3. \A m \in pending' : m \in pending /\ m \in stream /\ m \in stream'
    BY <2>1
  <2>4. \A m \in pending' : wait'[m] <= age'[m]
    <3>1. TAKE m \in pending'
    <3>2. wait'[m] \in Nat /\ wait[m] \in Nat /\ age[m] \in Nat
      BY <1>t, <1>2, <2>3 DEF TickStep, Tick
    <3> QED
      BY <2>1, <2>2, <2>3, <3>2
  <2> QED
    BY <2>1, <2>3, <2>4
<1>3. CASE \E m \in Msgs : DeliverStep(m)
  BY <1>t, <1>3 DEF DeliverStep, Deliver, Redeliver, AckWaitOver, Send
<1>4. CASE \E m \in Msgs : GiveUpStep(m)
  BY <1>t, <1>4 DEF GiveUpStep, GiveUp
<1>5. CASE Register \/ UnRegister
  BY <1>t, <1>5
     DEF Register, CreateConsumer, UnRegister, DeleteConsumer, jsVars
<1>6. CASE \E s \in Subs : Process(s)
  <2>1. PICK s \in Subs : Process(s)
    BY <1>6
  <2>2. CASE \E m \in Msgs : InProgress(m)
    BY <1>t, <2>2 DEF InProgress
  <2>3. CASE \E m : Ack(m)
    BY <1>t, <2>3 DEF Ack
  <2>4. CASE UNCHANGED jsVars
    BY <2>4 DEF jsVars
  <2> QED
    BY <2>1, <2>2, <2>3, <2>4
       DEF Process, BeginStep, HandleStep, TerminateStep, Term,
           AcknowledgeStep, Acknowledging, ReplyStep
<1>7. CASE UNCHANGED jsVars
  BY <1>7 DEF jsVars
<1> QED
  BY <1>1, <1>2, <1>3, <1>4, <1>5, <1>6, <1>7
     DEF Next, Client, NotifyStep, LoseStep, StartStep, CrashStep, vars

\* A message in the stream is never due again, so nothing is redelivered.
LEMMA NoRedelivery ==
  ASSUME MaxAge <= AckWait, TypeOK, DueAfterExpiry, NEW m \in Msgs
  PROVE  ~Redeliver(m)
BY JetStreamAssumption
   DEF JetStreamAssumption, TypeOK, JetStreamTypeOK, DueAfterExpiry, Redeliver,
       AckWaitOver

\* Nothing new: deliveries disappear, Process goes on or ends.
LEMMA NothingNew ==
  ASSUME TypeOK, OneDelivery, UNCHANGED <<deliv, execs>>,
         inbox' \in [Msgs -> Nat],
         \A m \in Msgs : inbox'[m] <= inbox[m],
         \A s \in Subs : current'[s] = current[s] \/ current'[s] \notin Msgs,
         \A s \in Subs : step'[s] = "handler" => step[s] = "handler"
  PROVE  OneDelivery'
<1>1. \A m \in Msgs : inbox[m] \in Nat /\ inbox'[m] \in Nat
  BY DEF TypeOK, WorkMsgTypeOK
<1>2. \A m \in Msgs : InProcess(m)' \subseteq InProcess(m)
  BY DEF InProcess
<1>3. \A m \in Msgs : inbox[m] = 0 => inbox'[m] = 0
  BY <1>1
<1>4. \A m \in Msgs : inbox'[m] <= 1 /\ (inbox'[m] = 1 => inbox[m] = 1)
  BY <1>1 DEF OneDelivery, InOnePlace
<1>5. \A m \in Msgs : InProcess(m) = {} => InProcess(m)' = {}
  BY <1>2
<1>6. \A m \in Msgs : \A s \in InProcess(m)' :
        /\ s \in InProcess(m)
        /\ step'[s] = "handler" => step[s] = "handler"
  BY <1>2 DEF InProcess
<1>7. ASSUME NEW m \in Msgs PROVE InOnePlace(m)'
  <2>1. InOnePlace(m)
    BY DEF OneDelivery
  <2> QED
    BY <1>3, <1>4, <1>5, <1>6, <2>1 DEF InOnePlace
<1> QED
  BY <1>7 DEF OneDelivery

LEMMA OneDeliveryStep ==
  ASSUME MaxAge <= AckWait, TypeOK, DueAfterExpiry, OneDelivery, [Next]_vars
  PROVE  OneDelivery'
<1>t. /\ deliv \in [Msgs -> Nat] /\ inbox \in [Msgs -> Nat] /\ execs \in [Msgs -> Nat]
      /\ current \in [Subs -> Msgs \cup {NoMsg}] /\ step \in [Subs -> Steps]
      /\ \A s \in Subs : current[s] = NoMsg <=> step[s] = "idle"
      /\ NoMsg \notin Msgs
  BY WorkMsgAssumption DEF WorkMsgAssumption, TypeOK, JetStreamTypeOK, WorkMsgTypeOK
<1>z. \A m \in Msgs : 0 <= inbox[m]
  BY <1>t
<1>1. CASE \E m \in Msgs : DeliverStep(m)
  <2>1. PICK m \in Msgs : DeliverStep(m)
    BY <1>1
  <2>2. deliv[m] = 0 /\ deliv' = [deliv EXCEPT ![m] = @ + 1]
    BY <2>1, NoRedelivery DEF DeliverStep, Deliver, Send
  <2>3. inbox' = [inbox EXCEPT ![m] = @ + 1] \/ inbox' = inbox
    BY <2>1 DEF DeliverStep, Arrives, workVars
  <2>4. UNCHANGED <<current, step, execs>>
    BY <2>1 DEF DeliverStep, Arrives, workVars
  <2>5. \A n \in Msgs : InProcess(n)' = InProcess(n)
    BY <2>4 DEF InProcess
  <2>6. inbox[m] = 0 /\ InProcess(m) = {} /\ execs[m] = 0
    BY <2>2 DEF OneDelivery, InOnePlace
  <2>7. deliv'[m] = 1 /\ inbox'[m] \in {0, 1}
    BY <1>t, <2>2, <2>3, <2>6
  <2>8. \A n \in Msgs : n # m => deliv'[n] = deliv[n] /\ inbox'[n] = inbox[n]
    BY <1>t, <2>2, <2>3
  <2> QED
    BY <2>4, <2>5, <2>6, <2>7, <2>8 DEF OneDelivery, InOnePlace
<1>2. CASE \E s \in Subs : Process(s)
  <2>1. PICK s \in Subs : Process(s)
    BY <1>2
  <2>d. UNCHANGED deliv
    BY <2>1
       DEF Process, BeginStep, HandleStep, TerminateStep, AcknowledgeStep,
           ReplyStep, Acknowledging, InProgress, Term, Ack, jsVars
  <2>2. CASE \E m \in Msgs : BeginStep(s, m)
    <3>1. PICK m \in Msgs : Begin(s, m)
      BY <2>2 DEF BeginStep
    <3>2. /\ inbox[m] = 1 /\ inbox'[m] = 0
          /\ \A n \in Msgs : n # m => inbox'[n] = inbox[n]
      BY <1>t, <3>1 DEF Begin, OneDelivery, InOnePlace
    <3>3. /\ current' = [current EXCEPT ![s] = m] /\ current[s] = NoMsg
          /\ step' = [step EXCEPT ![s] = "handler"] /\ execs' = execs
      BY <1>t, <3>1 DEF Begin, GoOn
    <3>4. InProcess(m) = {} /\ execs[m] = 0 /\ deliv[m] # 0
      BY <3>2 DEF OneDelivery, InOnePlace
    <3>5. InProcess(m)' = {s}
      BY <1>t, <3>3, <3>4 DEF InProcess
    <3>6. \A n \in Msgs : n # m => InProcess(n)' = InProcess(n) /\ s \notin InProcess(n)
      BY <1>t, <3>3 DEF InProcess
    <3>7. \A n \in Msgs : n # m => \A u \in InProcess(n) : step'[u] = step[u]
      BY <1>t, <3>3, <3>6 DEF InProcess
    <3> QED
      BY <2>d, <3>2, <3>3, <3>4, <3>5, <3>6, <3>7 DEF OneDelivery, InOnePlace
  <2>3. CASE HandleStep(s)
    <3>1. /\ step[s] = "handler" /\ step' = [step EXCEPT ![s] = "respond"]
          /\ execs' = [execs EXCEPT ![current[s]] = @ + 1]
          /\ UNCHANGED <<inbox, current>>
      BY <2>3 DEF HandleStep, Handle, GoOn
    <3>2. /\ current[s] \in Msgs
          /\ \A n \in Msgs : s \in InProcess(n) <=> n = current[s]
          /\ \A n \in Msgs : InProcess(n)' = InProcess(n)
      BY <1>t, <3>1 DEF InProcess
    <3>3. execs[current[s]] = 0 /\ execs'[current[s]] = 1
      BY <1>t, <3>1, <3>2 DEF OneDelivery, InOnePlace
    <3>4. \A n \in Msgs : n # current[s] => execs'[n] = execs[n]
      BY <1>t, <3>1
    <3>5. \A u \in Subs : step'[u] = "handler" => step[u] = "handler" /\ u # s
      BY <1>t, <3>1
    <3>6. \A n \in Msgs : \A u \in InProcess(n) : u \in Subs
      BY DEF InProcess
    <3>7. /\ InProcess(current[s]) # {} /\ inbox[current[s]] # 1
          /\ deliv[current[s]] # 0
          /\ \A u \in InProcess(current[s]) : u = s
      BY <3>2 DEF OneDelivery, InOnePlace
    <3> QED
      BY <2>d, <3>1, <3>2, <3>3, <3>4, <3>5, <3>6, <3>7 DEF OneDelivery, InOnePlace
  <2>4. CASE TerminateStep(s) \/ ReplyStep(s) \/ AcknowledgeStep(s)
    <3>1. /\ UNCHANGED <<inbox, execs>>
          /\ \A u \in Subs : current'[u] = current[u] \/ current'[u] \notin Msgs
          /\ \A u \in Subs : step'[u] = "handler" => step[u] = "handler"
      BY <1>t, <2>4
         DEF TerminateStep, Terminate, ReplyStep, Reply, AcknowledgeStep,
             Acknowledge, EndProcess, GoOn
    <3>2. \A m \in Msgs : inbox'[m] <= inbox[m]
      BY <1>t, <3>1
    <3> QED
      BY <1>t, <2>d, <3>1, <3>2, NothingNew
  <2> QED
    BY <2>1, <2>2, <2>3, <2>4 DEF Process
<1>3. CASE CrashStep \/ UnRegister
  <2>1. UNCHANGED <<deliv, execs>>
    BY <1>3
       DEF CrashStep, Crash, UnRegister, Unsubscribed, DeleteConsumer, jsVars
  <2>2. /\ inbox' = NoDeliveries
        /\ (UNCHANGED <<current, step>>) \/ (current' = NoProcess /\ step' = AllIdle)
    BY <1>3 DEF CrashStep, Crash, UnRegister, Unsubscribed
  <2>3. inbox' \in [Msgs -> Nat] /\ \A m \in Msgs : inbox'[m] <= inbox[m]
    BY <1>t, <1>z, <2>2 DEF NoDeliveries
  <2>4. /\ \A u \in Subs : current'[u] = current[u] \/ current'[u] \notin Msgs
        /\ \A u \in Subs : step'[u] = "handler" => step[u] = "handler"
    BY <1>t, <2>2 DEF NoProcess, AllIdle
  <2> QED
    BY <2>1, <2>3, <2>4, NothingNew
<1>4. CASE UNCHANGED <<deliv, inbox, current, step, execs>>
  BY <1>4 DEF OneDelivery, InOnePlace, InProcess
<1> QED
  BY <1>1, <1>2, <1>3, <1>4
     DEF Next, Client, NotifyStep, LoseStep, StoreStep, Store, GiveUpStep, GiveUp,
         TickStep, Tick, StartStep, Start, Register, Subscribed, CreateConsumer,
         vars, jsVars, workVars

LEMMA OnceInvariant ==
  ASSUME MaxAge <= AckWait
  PROVE  Spec => []Once
<1>1. Init => Once
  <2> SUFFICES ASSUME Init PROVE Once
    OBVIOUS
  <2>1. SentIsChecked /\ DueAfterExpiry
    BY DEF Init, NrpcClientInit, JetStreamInit, SentIsChecked, DueAfterExpiry
  <2>2. \A m \in Msgs : InProcess(m) = {}
    BY WorkMsgAssumption
       DEF WorkMsgAssumption, Init, WorkMsgInit, NoProcess, InProcess
  <2>3. \A m \in Msgs : deliv[m] = 0 /\ inbox[m] = 0 /\ execs[m] = 0
    BY DEF Init, JetStreamInit, WorkMsgInit, NoDeliveries
  <2>4. ASSUME NEW m \in Msgs PROVE InOnePlace(m)
    BY <2>2, <2>3 DEF InOnePlace
  <2> QED
    BY <2>1, <2>4 DEF OneDelivery, Once
<1>2. TypeOK /\ Once /\ [Next]_vars => Once'
  BY SentIsCheckedStep, DueAfterExpiryStep, OneDeliveryStep DEF Once
<1> QED
  BY <1>1, <1>2, TypeCorrect, PTL DEF Spec

\* When messages expire before they are due again, the handler runs at most
\* once for a message, whatever crashes, losses and registrations happen:
\* StreamDefaultConfig has MaxAge at ten seconds, the server AckWait at thirty.
THEOREM HandlersRunAtMostOnce ==
  ASSUME MaxAge <= AckWait
  PROVE  Spec => []AtMostOnce
<1>1. Once => AtMostOnce
  BY DEF Once, OneDelivery, InOnePlace, AtMostOnce
<1> QED
  BY <1>1, OnceInvariant, PTL

-----------------------------------------------------------------------------
(* The handler runs at most once for a delivery *)

\* Deliveries that disappear and subscriptions that go on leave the count.
LEMMA CountGoesDown ==
  ASSUME TypeOK, DeliveriesCount, UNCHANGED <<deliv, execs>>,
         inbox' \in [Msgs -> Nat],
         \A m \in Msgs : inbox'[m] <= inbox[m] /\ Running(m)' \subseteq Running(m)
  PROVE  DeliveriesCount'
<1> SUFFICES ASSUME NEW m \in Msgs
             PROVE  /\ IsFiniteSet(Running(m)')
                    /\ inbox'[m] + Cardinality(Running(m)') + execs[m] <= deliv[m]
                    /\ deliv[m] <= MaxDeliver
  BY DEF DeliveriesCount
<1>1. /\ IsFiniteSet(Running(m)) /\ deliv[m] <= MaxDeliver
      /\ inbox[m] + Cardinality(Running(m)) + execs[m] <= deliv[m]
  BY DEF DeliveriesCount
<1>2. /\ IsFiniteSet(Running(m)')
      /\ Cardinality(Running(m)') <= Cardinality(Running(m))
  BY <1>1, FS_Subset
<1>3. Cardinality(Running(m)) \in Nat /\ Cardinality(Running(m)') \in Nat
  BY <1>1, <1>2, FS_CardinalityType
<1>4. inbox[m] \in Nat /\ inbox'[m] \in Nat /\ execs[m] \in Nat /\ deliv[m] \in Nat
  BY DEF TypeOK, WorkMsgTypeOK, JetStreamTypeOK
<1> QED
  BY <1>1, <1>2, <1>3, <1>4

\* A delivery is one of at most MaxDeliver, and one more that waits or is lost.
LEMMA DeliverCounts ==
  ASSUME TypeOK, DeliveriesCount, NEW m \in Msgs, DeliverStep(m)
  PROVE  DeliveriesCount'
<1>t. /\ deliv \in [Msgs -> Nat] /\ inbox \in [Msgs -> Nat] /\ execs \in [Msgs -> Nat]
      /\ MaxDeliver \in Nat \ {0}
  BY JetStreamAssumption DEF JetStreamAssumption, TypeOK, JetStreamTypeOK, WorkMsgTypeOK
<1>1. deliv[m] < MaxDeliver /\ deliv' = [deliv EXCEPT ![m] = @ + 1]
  BY <1>t DEF DeliverStep, Deliver, Redeliver, Send
<1>2. inbox' = [inbox EXCEPT ![m] = @ + 1] \/ inbox' = inbox
  BY DEF DeliverStep, Arrives, workVars
<1>3. UNCHANGED <<current, step, execs>> /\ \A n \in Msgs : Running(n)' = Running(n)
  BY DEF DeliverStep, Arrives, workVars, Running
<1>4. \A n \in Msgs : IsFiniteSet(Running(n)) /\ Cardinality(Running(n)) \in Nat
  BY FS_CardinalityType DEF DeliveriesCount
<1>5. ASSUME NEW n \in Msgs
      PROVE  /\ inbox'[n] + Cardinality(Running(n)) + execs[n] <= deliv'[n]
             /\ deliv'[n] <= MaxDeliver
  <2>1. /\ inbox[n] + Cardinality(Running(n)) + execs[n] <= deliv[n]
        /\ deliv[n] <= MaxDeliver
    BY DEF DeliveriesCount
  <2> QED
    BY <1>t, <1>1, <1>2, <1>4, <2>1
<1> QED
  BY <1>3, <1>4, <1>5 DEF DeliveriesCount

\* A delivery that enters Process leaves the inbox.
LEMMA BeginCounts ==
  ASSUME TypeOK, DeliveriesCount, NEW s \in Subs, NEW m \in Msgs, BeginStep(s, m)
  PROVE  DeliveriesCount'
<1>t. /\ deliv \in [Msgs -> Nat] /\ inbox \in [Msgs -> Nat] /\ execs \in [Msgs -> Nat]
      /\ current \in [Subs -> Msgs \cup {NoMsg}] /\ step \in [Subs -> Steps]
  BY DEF TypeOK, JetStreamTypeOK, WorkMsgTypeOK
<1>1. /\ inbox[m] > 0 /\ inbox' = [inbox EXCEPT ![m] = @ - 1] /\ step[s] = "idle"
      /\ current' = [current EXCEPT ![s] = m] /\ step' = [step EXCEPT ![s] = "handler"]
      /\ UNCHANGED <<execs, deliv>>
  BY DEF BeginStep, Begin, GoOn, Acknowledging, InProgress, jsVars
<1>2. \A n \in Msgs : IsFiniteSet(Running(n)) /\ Cardinality(Running(n)) \in Nat
  BY FS_CardinalityType DEF DeliveriesCount
<1>3. Running(m)' = Running(m) \cup {s} /\ s \notin Running(m)
  BY <1>t, <1>1 DEF Running
<1>4. \A n \in Msgs : n # m => Running(n)' = Running(n)
  BY <1>t, <1>1 DEF Running
<1>5. IsFiniteSet(Running(m)') /\ Cardinality(Running(m)') = Cardinality(Running(m)) + 1
  BY <1>2, <1>3, FS_AddElement
<1>6. ASSUME NEW n \in Msgs
      PROVE  /\ IsFiniteSet(Running(n)')
             /\ inbox'[n] + Cardinality(Running(n)') + execs[n] <= deliv[n]
             /\ deliv[n] <= MaxDeliver
  <2>1. /\ inbox[n] + Cardinality(Running(n)) + execs[n] <= deliv[n]
        /\ deliv[n] <= MaxDeliver
    BY DEF DeliveriesCount
  <2>2. CASE n = m
    BY <1>t, <1>1, <1>2, <1>5, <2>1, <2>2
  <2>3. CASE n # m
    BY <1>t, <1>1, <1>2, <1>4, <2>1, <2>3
  <2> QED
    BY <2>2, <2>3
<1> QED
  BY <1>1, <1>6 DEF DeliveriesCount

\* A handler that has run is no longer about to.
LEMMA HandleCounts ==
  ASSUME TypeOK, DeliveriesCount, NEW s \in Subs, HandleStep(s)
  PROVE  /\ DeliveriesCount'
         /\ current[s] \in Msgs /\ execs[current[s]] < deliv[current[s]]
         /\ execs' = [execs EXCEPT ![current[s]] = @ + 1]
<1> DEFINE m == current[s]
<1>t. /\ deliv \in [Msgs -> Nat] /\ inbox \in [Msgs -> Nat] /\ execs \in [Msgs -> Nat]
      /\ current \in [Subs -> Msgs \cup {NoMsg}] /\ step \in [Subs -> Steps]
      /\ \A u \in Subs : current[u] = NoMsg <=> step[u] = "idle"
  BY DEF TypeOK, JetStreamTypeOK, WorkMsgTypeOK
<1>1. /\ step[s] = "handler" /\ step' = [step EXCEPT ![s] = "respond"]
      /\ execs' = [execs EXCEPT ![m] = @ + 1]
      /\ UNCHANGED <<inbox, current, deliv>>
  BY DEF HandleStep, Handle, GoOn, jsVars
<1>2. m \in Msgs
  BY <1>t, <1>1
<1>3. \A n \in Msgs : IsFiniteSet(Running(n)) /\ Cardinality(Running(n)) \in Nat
  BY FS_CardinalityType DEF DeliveriesCount
<1>4. Running(m)' = Running(m) \ {s} /\ s \in Running(m)
  BY <1>t, <1>1 DEF Running
<1>5. \A n \in Msgs : n # m => Running(n)' = Running(n)
  BY <1>t, <1>1 DEF Running
<1>6. IsFiniteSet(Running(m)') /\ Cardinality(Running(m)') = Cardinality(Running(m)) - 1
  BY <1>2, <1>3, <1>4, FS_RemoveElement
<1>7. Cardinality(Running(m)') \in Nat
  BY <1>6, FS_CardinalityType
<1>8. ASSUME NEW n \in Msgs
      PROVE  /\ IsFiniteSet(Running(n)')
             /\ inbox[n] + Cardinality(Running(n)') + execs'[n] <= deliv[n]
             /\ deliv[n] <= MaxDeliver
  <2>1. /\ inbox[n] + Cardinality(Running(n)) + execs[n] <= deliv[n]
        /\ deliv[n] <= MaxDeliver
    BY DEF DeliveriesCount
  <2>2. CASE n = m
    BY <1>t, <1>1, <1>3, <1>6, <2>1, <2>2
  <2>3. CASE n # m
    BY <1>t, <1>1, <1>3, <1>5, <2>1, <2>3
  <2> QED
    BY <2>2, <2>3
<1>9. execs[m] < deliv[m]
  BY <1>t, <1>2, <1>3, <1>6, <1>7 DEF DeliveriesCount
<1> QED
  BY <1>1, <1>2, <1>8, <1>9 DEF DeliveriesCount

LEMMA DeliveriesCountStep == TypeOK /\ DeliveriesCount /\ [Next]_vars => DeliveriesCount'
<1> SUFFICES ASSUME TypeOK, DeliveriesCount, [Next]_vars PROVE DeliveriesCount'
  OBVIOUS
<1>t. /\ inbox \in [Msgs -> Nat]
      /\ current \in [Subs -> Msgs \cup {NoMsg}] /\ step \in [Subs -> Steps]
      /\ NoMsg \notin Msgs
  BY WorkMsgAssumption DEF WorkMsgAssumption, TypeOK, WorkMsgTypeOK
<1>1. CASE \E s \in Subs : TerminateStep(s) \/ AcknowledgeStep(s) \/ ReplyStep(s)
  <2>1. UNCHANGED <<deliv, execs, inbox>>
    BY <1>1
       DEF TerminateStep, Terminate, Term, AcknowledgeStep, Acknowledge,
           Acknowledging, Ack, ReplyStep, Reply, jsVars
  <2>2. \A m \in Msgs : Running(m)' \subseteq Running(m)
    BY <1>t, <1>1
       DEF TerminateStep, Terminate, AcknowledgeStep, Acknowledge, ReplyStep,
           Reply, EndProcess, GoOn, Running
  <2> QED
    BY <1>t, <2>1, <2>2, CountGoesDown
<1>2. CASE CrashStep \/ UnRegister
  <2>1. /\ UNCHANGED <<deliv, execs>> /\ inbox' = NoDeliveries
        /\ UNCHANGED <<current, step>> \/ step' = AllIdle
    BY <1>2 DEF CrashStep, Crash, UnRegister, Unsubscribed, DeleteConsumer, jsVars
  <2>2. \A m \in Msgs : Running(m)' \subseteq Running(m)
    BY <2>1 DEF Running, AllIdle
  <2>3. inbox' \in [Msgs -> Nat] /\ \A m \in Msgs : inbox'[m] <= inbox[m]
    BY <1>t, <2>1 DEF NoDeliveries
  <2> QED
    BY <2>1, <2>2, <2>3, CountGoesDown
<1>3. CASE UNCHANGED <<deliv, inbox, current, step, execs>>
  BY <1>3 DEF DeliveriesCount, Running
<1> QED
  BY <1>1, <1>2, <1>3, DeliverCounts, BeginCounts, HandleCounts
     DEF Next, Client, NotifyStep, LoseStep, StoreStep, Store, GiveUpStep, GiveUp,
         TickStep, Tick, StartStep, Start, Register, Subscribed, CreateConsumer,
         Process, vars, jsVars, workVars

LEMMA DeliveriesCountInvariant == Spec => []DeliveriesCount
<1>1. Init => DeliveriesCount
  <2> SUFFICES ASSUME Init, NEW m \in Msgs
               PROVE  /\ IsFiniteSet(Running(m))
                      /\ inbox[m] + Cardinality(Running(m)) + execs[m] <= deliv[m]
                      /\ deliv[m] <= MaxDeliver
    BY DEF DeliveriesCount
  <2>1. Running(m) = {} /\ inbox[m] = 0 /\ execs[m] = 0 /\ deliv[m] = 0
    BY DEF Init, JetStreamInit, WorkMsgInit, NoDeliveries, AllIdle, Running
  <2>2. IsFiniteSet(Running(m)) /\ Cardinality(Running(m)) = 0
    BY <2>1, FS_EmptySet
  <2>3. MaxDeliver \in Nat
    BY JetStreamAssumption DEF JetStreamAssumption
  <2> QED
    BY <2>1, <2>2, <2>3
<1> QED
  BY <1>1, DeliveriesCountStep, TypeCorrect, PTL DEF Spec

\* Whatever crashes, registrations and redeliveries come together, a handler
\* runs at most once for each delivery, and the broker delivers a message at
\* most MaxDeliver times (WorkMsg.Process).
THEOREM RunsAreBounded == Spec => []ExecutionsBounded
<1>1. TypeOK /\ DeliveriesCount => ExecutionsBounded
  <2> SUFFICES ASSUME TypeOK, DeliveriesCount, NEW m \in Msgs
               PROVE  execs[m] <= deliv[m] /\ deliv[m] <= MaxDeliver
    BY DEF ExecutionsBounded
  <2>1. inbox[m] \in Nat /\ execs[m] \in Nat /\ deliv[m] \in Nat
    BY DEF TypeOK, JetStreamTypeOK, WorkMsgTypeOK
  <2>2. Cardinality(Running(m)) \in Nat
    BY FS_CardinalityType DEF DeliveriesCount
  <2> QED
    BY <2>1, <2>2 DEF DeliveriesCount
<1> QED
  BY <1>1, DeliveriesCountInvariant, TypeCorrect, PTL

-----------------------------------------------------------------------------
(* Client, broker and service keep the promise of Rpc *)

\* A call that was made does not become one that was not.
LEMMA SentStays ==
  ASSUME TypeOK, [Next]_vars, NEW m \in Msgs, phase[m] \notin {"idle", "checked"}
  PROVE  phase'[m] \notin {"idle", "checked"}
<1>t. phase \in [Msgs -> Phases] /\ Calls \subseteq Msgs
  BY NrpcClientAssumption DEF NrpcClientAssumption, TypeOK, NrpcClientTypeOK
<1>1. CASE \E c \in Calls : Client(c)
  <2>1. PICK c \in Calls : CallStep(c)
    BY <1>1 DEF Client
  <2>2. CASE m = c
    BY <1>t, <2>1, <2>2
       DEF CallStep, CheckRequestOpt, SendFails, RequestStream, PublishRequest,
           RequestCore, Publish, PublishAcked, PublishFails, EnterSelect,
           ReceiveAnswer, OnAnswer, DropAnswer, DropPubAck, RequestCoreAnswered,
           Timeout, GoTo, clientVars
  <2> QED
    BY <2>1, <2>2, OtherCalls
<1>2. CASE \E n \in Notifies : NotifyStep(n)
  BY <1>t, <1>2 DEF NotifyStep, Notify, GoTo
<1>3. CASE UNCHANGED phase
  BY <1>3
<1> QED
  BY <1>1, <1>2, <1>3
     DEF Next, LoseStep, Lose, StoreStep, DeliverStep, GiveUpStep, TickStep,
         StartStep, CrashStep, Register, UnRegister, Process, BeginStep,
         HandleStep, TerminateStep, AcknowledgeStep, ReplyStep, vars, clientVars

LEMMA StoredWasSentStep ==
  ASSUME TypeOK, SentIsChecked, StoredWasSent, [Next]_vars
  PROVE  StoredWasSent'
<1>1. ASSUME NEW m \in Msgs, seq'[m] > 0
      PROVE  phase[m] \notin {"idle", "checked"}
  <2>1. CASE \E n \in Msgs : StoreStep(n)
    <3>1. PICK n \in Msgs : StoreStep(n)
      BY <2>1
    <3>2. m = n \/ seq'[m] = seq[m]
      BY <3>1 DEF StoreStep, Store, Retain, TypeOK, JetStreamTypeOK
    <3> QED
      BY <1>1, <3>1, <3>2 DEF StoreStep, SentIsChecked, StoredWasSent
  <2>2. CASE UNCHANGED seq
    BY <1>1, <2>2 DEF StoredWasSent
  <2> QED
    BY <2>1, <2>2
       DEF Next, Client, NotifyStep, LoseStep, DeliverStep, Deliver, Redeliver,
           Send, GiveUpStep, GiveUp, TickStep, Tick, StartStep, CrashStep,
           Register, CreateConsumer, UnRegister, DeleteConsumer, Process,
           BeginStep, InProgress, HandleStep, TerminateStep, Term, Ack,
           AcknowledgeStep, Acknowledging, ReplyStep, vars, jsVars
<1> QED
  BY <1>1, SentStays DEF StoredWasSent

LEMMA StoredWasSentInvariant == Spec => []StoredWasSent
<1>1. Init => SentIsChecked /\ StoredWasSent
  BY DEF Init, NrpcClientInit, JetStreamInit, SentIsChecked, StoredWasSent
<1> QED
  BY <1>1, SentIsCheckedStep, StoredWasSentStep, TypeCorrect, PTL DEF Spec

\* The status of all calls, from that of each.
LEMMA StatusStays ==
  ASSUME \A m \in Msgs : StatusOf(m)' = StatusOf(m)
  PROVE  Status' = Status
BY DEF Status

LEMMA StatusMoves ==
  ASSUME NEW m \in Msgs, NEW x, StatusOf(m)' = x,
         \A n \in Msgs : n # m => StatusOf(n)' = StatusOf(n)
  PROVE  Status' = [Status EXCEPT ![m] = x]
BY DEF Status

\* What a step of a call is in the abstract specification.
LEMMA CallRefines ==
  ASSUME TypeOK, Causality, LastAnswer, NEW c \in Calls, Client(c)
  PROVE  \/ UNCHANGED Status
         \/ Abstract!Issue(c) \/ Abstract!Answer(c) \/ Abstract!Fail(c)
<1>t. /\ phase \in [Msgs -> Phases] /\ c \in Msgs /\ rep \in [Calls -> Nat]
      /\ reports \in [Calls -> Seq(Reports)]
  BY NrpcClientAssumption DEF NrpcClientAssumption, TypeOK, NrpcClientTypeOK
<1>c. CallStep(c) /\ UNCHANGED execs
  BY DEF Client, workVars
<1>s. Status[c] = StatusOf(c)
  BY <1>t DEF Status
<1>o. \A d \in Msgs : d # c => StatusOf(d)' = StatusOf(d)
  BY <1>c, OtherCalls DEF StatusOf, Reported
<1>1. ASSUME StatusOf(c)' = StatusOf(c)
      PROVE  UNCHANGED Status
  BY <1>o, <1>1, StatusStays
<1>2. ASSUME phase[c] = "checked", phase'[c] \notin {"idle", "checked", "failed", "done"}
      PROVE  Abstract!Issue(c)
  <2>1. StatusOf(c) = "idle" /\ StatusOf(c)' = "pending"
    BY <1>2 DEF StatusOf
  <2> QED
    BY <1>t, <1>c, <1>s, <1>o, <2>1, StatusMoves DEF Abstract!Issue
<1>3. ASSUME phase[c] \notin {"done", "failed"}, phase'[c] = "failed"
      PROVE  Abstract!Fail(c)
  <2>1. StatusOf(c) \in {"idle", "pending"} /\ StatusOf(c)' = "failed"
    BY <1>3 DEF StatusOf
  <2> QED
    BY <1>t, <1>c, <1>s, <1>o, <2>1, StatusMoves DEF Abstract!Fail
<1>4. ASSUME phase[c] \notin {"done", "failed"}, phase'[c] = "done",
             NEW r \in Reports \ {"response"}, Report(c, r)
      PROVE  Abstract!Fail(c)
  <2>1. ~Reported(c, "response")
    BY <1>4 DEF LastAnswer, WaitingInv, OnlyTimeouts, Reported
  <2>2. ~Reported(c, "response")'
    BY <1>4, <2>1, ReportedAfter
  <2>3. StatusOf(c) \in {"idle", "pending"} /\ StatusOf(c)' = "failed"
    BY <1>4, <2>2 DEF StatusOf
  <2> QED
    BY <1>t, <1>c, <1>s, <1>o, <2>3, StatusMoves DEF Abstract!Fail
<1>5. CASE ReceiveAnswer(c)
  <2>1. phase[c] = "select" /\ execs[c] > 0
    BY <1>5 DEF ReceiveAnswer, Causality, AnsweredWasServed, Served
  <2>2. CASE AnswerOf[c] = "acklike" /\ c \in Async
    BY <1>1, <1>5, <2>2 DEF ReceiveAnswer, OnAnswer, StatusOf, Reported
  <2>3. CASE ~(AnswerOf[c] = "acklike" /\ c \in Async)
    <3>1. phase'[c] = "done"
      BY <1>t, <1>5, <2>3 DEF ReceiveAnswer, OnAnswer, GoTo
    <3>2. CASE AnswerOf[c] = "garbled"
      <4>1. Report(c, "garbled") /\ "garbled" \in Reports \ {"response"}
        BY <1>5, <2>3, <3>2 DEF ReceiveAnswer, OnAnswer, Reports
      <4> QED
        BY <1>4, <2>1, <3>1, <4>1
    <3>3. CASE AnswerOf[c] # "garbled"
      <4>1. Report(c, "response")
        BY <1>5, <2>3, <3>3 DEF ReceiveAnswer, OnAnswer
      <4>2. /\ reports'[c] = Append(reports[c], "response")
            /\ Len(reports'[c]) \in 1 .. Len(reports'[c])
            /\ reports'[c][Len(reports'[c])] = "response"
        BY <1>t, <4>1 DEF Report
      <4>3. Reported(c, "response")'
        BY <4>2 DEF Reported
      <4>4. StatusOf(c) = "pending" /\ StatusOf(c)' = "answered"
        BY <2>1, <3>1, <4>3 DEF StatusOf
      <4> QED
        BY <1>t, <1>c, <1>s, <1>o, <2>1, <4>4, StatusMoves DEF Abstract!Answer
    <3> QED
      BY <3>2, <3>3
  <2> QED
    BY <2>2, <2>3
<1>6. CASE Timeout(c)
  <2>1. phase[c] \in {"select", "request"} /\ Report(c, "timeout")
    BY <1>6 DEF Timeout
  <2>2. CASE c \in Sync
    <3>1. phase'[c] = "done" /\ "timeout" \in Reports \ {"response"}
      BY <1>t, <1>6, <2>2 DEF Timeout, GoTo, Reports
    <3> QED
      BY <1>4, <2>1, <3>1
  <2>3. CASE c \notin Sync
    <3>1. StatusOf(c) = "pending" /\ StatusOf(c)' = "pending"
      BY <1>6, <2>1, <2>3 DEF Timeout, StatusOf
    <3> QED
      BY <1>1, <3>1
  <2> QED
    BY <2>2, <2>3
<1>7. CASE RequestCoreAnswered(c)
  <2>1. /\ phase[c] = "request" /\ phase'[c] = "done" /\ Report(c, "garbled")
        /\ "garbled" \in Reports \ {"response"}
    BY <1>t, <1>7 DEF RequestCoreAnswered, GoTo, Reports
  <2> QED
    BY <1>4, <2>1
<1>8. CASE SendFails(c) \/ PublishFails(c)
  BY <1>t, <1>3, <1>8 DEF SendFails, PublishFails, GoTo
<1>9. CASE RequestStream(c) \/ PublishRequest(c) \/ RequestCore(c)
  BY <1>t, <1>2, <1>9 DEF RequestStream, PublishRequest, RequestCore, Publish, GoTo
<1>10. CASE \/ CheckRequestOpt(c) \/ PublishAcked(c) \/ EnterSelect(c)
            \/ DropAnswer(c) \/ DropPubAck(c)
  <2>1. StatusOf(c)' = StatusOf(c)
    BY <1>t, <1>10
       DEF CheckRequestOpt, PublishAcked, EnterSelect, DropAnswer, DropPubAck,
           GoTo, clientVars, StatusOf, Reported
  <2> QED
    BY <1>1, <2>1
<1> QED
  BY <1>c, <1>5, <1>6, <1>7, <1>8, <1>9, <1>10 DEF CallStep

\* A handler that runs is the Run of a call that was made, and one of those
\* the limits allow.
LEMMA HandleRefines ==
  ASSUME TypeOK, Causality, DeliveriesCount, StoredWasSent,
         MaxAge <= AckWait => Once,
         NEW s \in Subs, HandleStep(s)
  PROVE  \E m \in Msgs : Abstract!Run(m)
<1> DEFINE m == current[s]
<1>1. /\ m \in Msgs /\ step[s] = "handler" /\ execs[m] < deliv[m]
      /\ execs' = [execs EXCEPT ![m] = @ + 1]
  BY HandleCounts DEF HandleStep, Handle
<1>2. execs[m] < RunsLimit
  <2>1. CASE MaxAge <= AckWait
    BY <1>1, <2>1 DEF Once, OneDelivery, InOnePlace, InProcess, RunsLimit
  <2>2. CASE ~(MaxAge <= AckWait)
    <3>1. deliv[m] <= MaxDeliver
      BY <1>1 DEF DeliveriesCount
    <3>2. execs[m] \in Nat /\ deliv[m] \in Nat /\ MaxDeliver \in Nat
      BY <1>1, JetStreamAssumption
         DEF JetStreamAssumption, TypeOK, JetStreamTypeOK, WorkMsgTypeOK
    <3> QED
      BY <1>1, <2>2, <3>1, <3>2 DEF RunsLimit
  <2> QED
    BY <2>1, <2>2
<1>3. Status[m] # "idle"
  BY <1>1 DEF Causality, DeliveredWasStored, StoredWasSent, Status, StatusOf
<1>4. UNCHANGED Status
  BY DEF HandleStep, clientVars, Status, StatusOf, Reported
<1> QED
  BY <1>1, <1>2, <1>3, <1>4 DEF Abstract!Run

LEMMA NotifyRefines ==
  ASSUME TypeOK, NEW n \in Notifies, NotifyStep(n)
  PROVE  Abstract!Issue(n)
<1>1. /\ n \in Msgs /\ n \notin Calls /\ phase[n] = "idle"
      /\ phase' = [phase EXCEPT ![n] = "done"] /\ UNCHANGED <<reports, execs>>
      /\ phase \in [Msgs -> Phases]
  BY NrpcClientAssumption
     DEF NrpcClientAssumption, NotifyStep, Notify, GoTo, workVars, TypeOK,
         NrpcClientTypeOK
<1>2. StatusOf(n) = "idle" /\ StatusOf(n)' = "pending"
  BY <1>1 DEF StatusOf
<1>3. \A m \in Msgs : m # n => StatusOf(m)' = StatusOf(m)
  BY <1>1 DEF StatusOf, Reported
<1>4. Status[n] = "idle" /\ Status' = [Status EXCEPT ![n] = "pending"]
  BY <1>1, <1>2, <1>3, StatusMoves DEF Status
<1> QED
  BY <1>1, <1>4 DEF Abstract!Issue

LEMMA StepRefines ==
  ASSUME TypeOK, Causality, LastAnswer, DeliveriesCount, StoredWasSent,
         MaxAge <= AckWait => Once, [Next]_vars
  PROVE  [Abstract!Next]_Abstract!vars
<1>c. Calls \subseteq Msgs /\ Notifies \subseteq Msgs
  BY NrpcClientAssumption DEF NrpcClientAssumption
<1>1. CASE \E c \in Calls : Client(c)
  <2>1. UNCHANGED execs
    BY <1>1 DEF Client, workVars
  <2> QED
    BY <1>c, <1>1, <2>1, CallRefines DEF Abstract!Next, Abstract!vars
<1>2. CASE \E n \in Notifies : NotifyStep(n)
  BY <1>c, <1>2, NotifyRefines DEF Abstract!Next
<1>3. CASE \E s \in Subs : HandleStep(s)
  BY <1>3, HandleRefines DEF Abstract!Next
<1>4. CASE UNCHANGED <<phase, reports, execs>>
  BY <1>4 DEF Status, StatusOf, Reported, Abstract!vars
<1> QED
  BY <1>1, <1>2, <1>3, <1>4
     DEF Next, LoseStep, Lose, StoreStep, DeliverStep, Arrives, GiveUpStep,
         TickStep, StartStep, Start, CrashStep, Crash, Register, Subscribed,
         UnRegister, Unsubscribed, Process, BeginStep, Begin, TerminateStep,
         Terminate, AcknowledgeStep, Acknowledge, ReplyStep, Reply, vars,
         clientVars, workVars

\* Whatever is lost, delivered again, or restarted: a call is issued once, its
\* handler runs for an issued call only and no more often than the limits allow,
\* an answer follows a run of the handler, and a call ends at most once.
THEOREM CallsImplementRpc == Spec => ImplementsRpc
<1>1. Init => Abstract!Init
  <2> SUFFICES ASSUME Init PROVE Abstract!Init
    OBVIOUS
  <2>1. \A m \in Msgs : StatusOf(m) = "idle"
    BY DEF Init, NrpcClientInit, StatusOf
  <2> QED
    BY <2>1 DEF Init, WorkMsgInit, Status, Abstract!Init
<1>2. Spec => [](MaxAge <= AckWait => Once)
  <2>1. CASE MaxAge <= AckWait
    <3>1. Once => (MaxAge <= AckWait => Once)
      OBVIOUS
    <3> QED
      BY <2>1, <3>1, OnceInvariant, PTL
  <2>2. CASE ~(MaxAge <= AckWait)
    <3>1. MaxAge <= AckWait => Once
      BY <2>2
    <3> QED
      BY <3>1, PTL
  <2> QED
    BY <2>1, <2>2
<1> QED
  BY <1>1, <1>2, StepRefines, TypeCorrect, CausalityInvariant,
     LastAnswerInvariant, DeliveriesCountInvariant, StoredWasSentInvariant, PTL
     DEF Spec, ImplementsRpc, Abstract!Spec

=============================================================================
