----------------------- MODULE StreamCallAnswers_proof -----------------------
(***************************************************************************)
(* What a stream call reports.  An answer follows a run of the handler: the *)
(* inductive invariant is Causality, which traces an answer back along the *)
(* way it came.  An answer is the last report: LastAnswer.  And a request  *)
(* leaves the stream handled, or for a limit: an action property that      *)
(* Causality has too.                                                      *)
(***************************************************************************)
EXTENDS StreamCall_proof

\* What was stored, executed or found stays so.
LEMMA Monotone ==
  ASSUME TypeOK, [Next]_vars, NEW m \in Msgs
  PROVE  /\ seq[m] > 0 => seq'[m] > 0
         /\ execs[m] > 0 => execs'[m] > 0
         /\ found[m] => found'[m]
<1>t. /\ seq \in [Msgs -> Nat] /\ execs \in [Msgs -> Nat] /\ lastSeq \in Nat
      /\ found \in [Msgs -> BOOLEAN]
  BY DEF TypeOK, JetStreamTypeOK, WorkMsgTypeOK, NrpcClientTypeOK
<1>1. seq[m] > 0 => seq'[m] > 0
  <2>1. CASE \E n \in Msgs : StoreStep(n)
    BY <1>t, <2>1 DEF StoreStep, Store, Retain
  <2>2. CASE UNCHANGED seq
    BY <2>2
  <2> QED
    BY <2>1, <2>2
       DEF Next, Client, NotifyStep, LoseStep, DeliverStep, Deliver, Redeliver,
           Send, GiveUpStep, GiveUp, TickStep, Tick, StartStep, CrashStep,
           Register, CreateConsumer, UnRegister, DeleteConsumer, Process,
           BeginStep, InProgress, HandleStep, TerminateStep, Term, Ack,
           AcknowledgeStep, Acknowledging, ReplyStep, vars, jsVars
<1>2. execs[m] > 0 => execs'[m] > 0
  <2>1. CASE \E s \in Subs : HandleStep(s)
    BY <1>t, <2>1 DEF HandleStep, Handle
  <2>2. CASE UNCHANGED execs
    BY <2>2
  <2> QED
    BY <2>1, <2>2
       DEF Next, Client, NotifyStep, LoseStep, StoreStep, DeliverStep, Arrives,
           GiveUpStep, TickStep, StartStep, Start, CrashStep, Crash, Register,
           Subscribed, UnRegister, Unsubscribed, Process, BeginStep, Begin,
           TerminateStep, Terminate, AcknowledgeStep, Acknowledge, ReplyStep,
           Reply, vars, workVars
<1>3. found[m] => found'[m]
  <2>1. CASE \E c \in Calls : Client(c)
    <3>1. PICK c \in Calls : CallStep(c)
      BY <2>1 DEF Client
    <3>2. CASE CheckRequestOpt(c)
      BY <1>t, <3>2 DEF CheckRequestOpt
    <3>3. CASE UNCHANGED found
      BY <3>3
    <3> QED
      BY <3>1, <3>2, <3>3
         DEF CallStep, SendFails, RequestStream, PublishRequest, RequestCore,
             Publish, PublishAcked, PublishFails, EnterSelect, ReceiveAnswer,
             DropAnswer, DropPubAck, RequestCoreAnswered, Timeout, clientVars
  <2>2. CASE UNCHANGED found
    BY <2>2
  <2> QED
    BY <2>1, <2>2
       DEF Next, NotifyStep, Notify, LoseStep, Lose, StoreStep, DeliverStep,
           GiveUpStep, TickStep, StartStep, CrashStep, Register, UnRegister,
           Process, BeginStep, HandleStep, TerminateStep, AcknowledgeStep,
           ReplyStep, vars, clientVars
<1> QED
  BY <1>1, <1>2, <1>3

\* What reaches the service was stored.
LEMMA DeliveredStep ==
  ASSUME TypeOK, DeliveredWasStored, [Next]_vars
  PROVE  DeliveredWasStored'
<1>t. /\ seq \in [Msgs -> Nat] /\ lastSeq \in Nat /\ inbox \in [Msgs -> Nat]
      /\ stream \subseteq Msgs
      /\ current \in [Subs -> Msgs \cup {NoMsg}] /\ step \in [Subs -> Steps]
      /\ \A s \in Subs : step[s] # "idle" => current[s] \in Msgs
  BY DEF TypeOK, JetStreamTypeOK, WorkMsgTypeOK
<1>m. \A m \in Msgs : seq[m] > 0 => seq'[m] > 0
  BY Monotone
<1>1. \A m \in stream' : seq'[m] > 0
  <2>1. CASE \E n \in Msgs : StoreStep(n)
    BY <1>t, <2>1 DEF StoreStep, Store, Retain, DeliveredWasStored
  <2>2. CASE stream' \subseteq stream
    BY <1>t, <1>m, <2>2 DEF DeliveredWasStored
  <2> QED
    BY <2>1, <2>2
       DEF Next, Client, NotifyStep, LoseStep, DeliverStep, Deliver, Redeliver,
           Send, GiveUpStep, GiveUp, TickStep, Tick, StartStep, CrashStep,
           Register, CreateConsumer, UnRegister, DeleteConsumer, Process,
           BeginStep, InProgress, HandleStep, TerminateStep, Term, Ack,
           AcknowledgeStep, Acknowledging, ReplyStep, vars, jsVars
<1>2. \A m \in Msgs : inbox'[m] > 0 => seq'[m] > 0
  <2>1. CASE \E n \in Msgs : DeliverStep(n)
    <3>1. PICK n \in Msgs : DeliverStep(n)
      BY <2>1
    <3>2. seq[n] > 0
      BY <3>1 DEF DeliverStep, Deliver, Redeliver, AckWaitOver, DeliveredWasStored
    <3>3. \A m \in Msgs : m # n => inbox'[m] = inbox[m]
      BY <1>t, <3>1 DEF DeliverStep, Arrives, workVars
    <3> QED
      BY <1>m, <3>2, <3>3 DEF DeliveredWasStored
  <2>2. CASE \E s \in Subs, n \in Msgs : BeginStep(s, n)
    <3>1. \A m \in Msgs : inbox'[m] > 0 => inbox[m] > 0
      BY <1>t, <2>2 DEF BeginStep, Begin
    <3> QED
      BY <1>m, <3>1 DEF DeliveredWasStored
  <2>3. CASE inbox' = inbox \/ inbox' = NoDeliveries
    BY <1>m, <2>3 DEF DeliveredWasStored, NoDeliveries
  <2> QED
    BY <2>1, <2>2, <2>3
       DEF Next, Client, NotifyStep, LoseStep, StoreStep, GiveUpStep, TickStep,
           StartStep, Start, CrashStep, Crash, Register, Subscribed, UnRegister,
           Unsubscribed, Process, HandleStep, Handle, TerminateStep, Terminate,
           AcknowledgeStep, Acknowledge, ReplyStep, Reply, vars, workVars
<1>3. \A s \in Subs : step'[s] # "idle" => seq'[current'[s]] > 0
  <2>1. CASE \E s \in Subs : Process(s)
    <3>1. PICK s \in Subs : Process(s)
      BY <2>1
    <3>2. \A t \in Subs : t # s => step'[t] = step[t] /\ current'[t] = current[t]
      BY <1>t, <3>1
         DEF Process, BeginStep, Begin, HandleStep, Handle, TerminateStep,
             Terminate, AcknowledgeStep, Acknowledge, ReplyStep, Reply,
             EndProcess, GoOn
    <3>3. step'[s] # "idle" => seq'[current'[s]] > 0
      <4>1. CASE \E m \in Msgs : BeginStep(s, m)
        BY <1>t, <1>m, <4>1 DEF BeginStep, Begin, DeliveredWasStored
      <4>2. CASE HandleStep(s) \/ AcknowledgeStep(s)
        BY <1>t, <1>m, <4>2
           DEF HandleStep, Handle, AcknowledgeStep, Acknowledge, DeliveredWasStored
      <4>3. CASE TerminateStep(s) \/ ReplyStep(s)
        BY <1>t, <4>3
           DEF TerminateStep, Terminate, ReplyStep, Reply, EndProcess, GoOn
      <4> QED
        BY <3>1, <4>1, <4>2, <4>3 DEF Process
    <3> QED
      BY <1>t, <1>m, <3>2, <3>3 DEF DeliveredWasStored
  <2>2. CASE CrashStep
    BY <2>2 DEF CrashStep, Crash, AllIdle
  <2>3. CASE UNCHANGED <<step, current>>
    BY <1>t, <1>m, <2>3 DEF DeliveredWasStored
  <2> QED
    BY <2>1, <2>2, <2>3
       DEF Next, Client, NotifyStep, LoseStep, StoreStep, DeliverStep, Arrives,
           GiveUpStep, TickStep, StartStep, Start, Register, Subscribed,
           UnRegister, Unsubscribed, vars, workVars
<1> QED
  BY <1>1, <1>2, <1>3 DEF DeliveredWasStored

\* What Process answers was executed, and its lookup succeeded.
LEMMA RespondedStep ==
  ASSUME TypeOK, RespondedWasExecuted, [Next]_vars
  PROVE  RespondedWasExecuted'
<1>t. /\ execs \in [Msgs -> Nat]
      /\ current \in [Subs -> Msgs \cup {NoMsg}] /\ step \in [Subs -> Steps]
      /\ \A s \in Subs : step[s] # "idle" => current[s] \in Msgs
  BY DEF TypeOK, WorkMsgTypeOK
<1>m. \A m \in Msgs : (execs[m] > 0 => execs'[m] > 0) /\ (found[m] => found'[m])
  BY Monotone
<1>1. CASE \E s \in Subs : Process(s)
  <2>1. PICK s \in Subs : Process(s)
    BY <1>1
  <2>2. \A t \in Subs : t # s => step'[t] = step[t] /\ current'[t] = current[t]
    BY <1>t, <2>1
       DEF Process, BeginStep, Begin, HandleStep, Handle, TerminateStep,
           Terminate, AcknowledgeStep, Acknowledge, ReplyStep, Reply,
           EndProcess, GoOn
  <2>3. /\ step'[s] \in {"respond", "reply"} => execs'[current'[s]] > 0
        /\ step'[s] = "reply" => found'[current'[s]]
    <3>1. CASE \E m \in Msgs : BeginStep(s, m)
      BY <1>t, <3>1 DEF BeginStep, Begin, GoOn
    <3>2. CASE HandleStep(s)
      BY <1>t, <3>2 DEF HandleStep, Handle, GoOn
    <3>3. CASE AcknowledgeStep(s)
      <4>1. step[s] = "respond" /\ found[current[s]] /\ current' = current
        BY <3>3 DEF AcknowledgeStep, Acknowledge, Rejected
      <4> QED
        BY <1>t, <1>m, <4>1 DEF RespondedWasExecuted
    <3>4. CASE TerminateStep(s) \/ ReplyStep(s)
      BY <1>t, <3>4
         DEF TerminateStep, Terminate, ReplyStep, Reply, EndProcess, GoOn
    <3> QED
      BY <2>1, <3>1, <3>2, <3>3, <3>4 DEF Process
  <2> QED
    BY <1>t, <1>m, <2>2, <2>3 DEF RespondedWasExecuted
<1>2. CASE CrashStep
  BY <1>2 DEF CrashStep, Crash, AllIdle, RespondedWasExecuted
<1>3. CASE UNCHANGED <<step, current>>
  BY <1>t, <1>m, <1>3 DEF RespondedWasExecuted
<1> QED
  BY <1>1, <1>2, <1>3
     DEF Next, Client, NotifyStep, LoseStep, StoreStep, DeliverStep, Arrives,
         GiveUpStep, TickStep, StartStep, Start, Register, Subscribed,
         UnRegister, Unsubscribed, vars, workVars

\* A report adds itself to what a call has reported and nothing else.
LEMMA ReportedAfter ==
  ASSUME TypeOK, NEW c \in Calls, NEW r \in Reports, Report(c, r),
         NEW d \in Calls, Reported(d, "response")'
  PROVE  Reported(d, "response") \/ (d = c /\ r = "response")
<1>t. reports \in [Calls -> Seq(Reports)]
  BY DEF TypeOK, NrpcClientTypeOK
<1>1. CASE d = c
  <2>1. reports'[c] = Append(reports[c], r)
    BY <1>t DEF Report
  <2>2. PICK i \in 1 .. Len(reports'[c]) : reports'[c][i] = "response"
    BY <1>1 DEF Reported
  <2> QED
    BY <1>t, <1>1, <2>1, <2>2 DEF Reported
<1>2. CASE d # c
  BY <1>t, <1>2 DEF Report, Reported
<1> QED
  BY <1>1, <1>2

\* An answer on its way or reported belongs to a call that was served.
LEMMA AnsweredStep ==
  ASSUME TypeOK, Causality, [Next]_vars
  PROVE  AnsweredWasServed'
<1>t. /\ rep \in [Calls -> Nat] /\ reports \in [Calls -> Seq(Reports)]
      /\ \A s \in Subs : step[s] # "idle" => current[s] \in Msgs
      /\ {"response", "garbled", "timeout"} = Reports
  BY DEF TypeOK, NrpcClientTypeOK, WorkMsgTypeOK, Reports
<1>c. \A c \in Calls : c \in Msgs
  BY NrpcClientAssumption DEF NrpcClientAssumption
<1>m. \A c \in Calls : Served(c) => Served(c)'
  BY <1>c, Monotone DEF Served
<1>s. \A c \in Calls : rep[c] > 0 \/ Reported(c, "response") => Served(c)
  BY DEF Causality, AnsweredWasServed
<1>1. \A c \in Calls : rep'[c] > 0 => rep[c] > 0 \/ Served(c)
  <2>1. CASE \E s \in Subs : ReplyStep(s)
    <3>1. PICK s \in Subs : ReplyStep(s)
      BY <2>1
    <3>2. Served(current[s])
      BY <3>1
         DEF ReplyStep, Reply, Causality, DeliveredWasStored,
             RespondedWasExecuted, Served
    <3>3. \A c \in Calls : c # current[s] => rep'[c] = rep[c]
      BY <1>t, <3>1 DEF ReplyStep
    <3> QED
      BY <3>2, <3>3
  <2>2. CASE \E c \in Calls : rep[c] > 0 /\ rep' = [rep EXCEPT ![c] = @ - 1]
    BY <1>t, <2>2
  <2>3. CASE UNCHANGED rep
    BY <2>3
  <2>4. CASE \E c \in Calls : Client(c)
    BY <2>2, <2>3, <2>4
       DEF Client, CallStep, CheckRequestOpt, SendFails, RequestStream,
           PublishRequest, RequestCore, Publish, PublishAcked, PublishFails,
           EnterSelect, ReceiveAnswer, DropAnswer, DropPubAck,
           RequestCoreAnswered, Timeout, wireVars
  <2> QED
    BY <2>1, <2>2, <2>3, <2>4
       DEF Next, NotifyStep, Notify, LoseStep, Lose, StoreStep, DeliverStep,
           GiveUpStep, TickStep, StartStep, CrashStep, Register, UnRegister,
           Process, BeginStep, HandleStep, TerminateStep, AcknowledgeStep,
           vars, wireVars
<1>2. \A c \in Calls : Reported(c, "response")' => Reported(c, "response") \/ Served(c)
  <2>1. CASE \E c \in Calls : Client(c)
    <3>1. PICK c \in Calls : CallStep(c)
      BY <2>1 DEF Client
    <3>2. CASE ReceiveAnswer(c)
      <4>1. Served(c)
        BY <1>s, <3>2 DEF ReceiveAnswer
      <4>2. CASE \E r \in Reports : Report(c, r)
        BY <4>1, <4>2, ReportedAfter
      <4>3. CASE UNCHANGED reports
        BY <4>3 DEF Reported
      <4> QED
        BY <1>t, <3>2, <4>2, <4>3 DEF ReceiveAnswer, OnAnswer
    <3>3. CASE \E r \in Reports \ {"response"} : Report(c, r)
      BY <3>3, ReportedAfter
    <3>4. CASE Timeout(c) \/ RequestCoreAnswered(c)
      <4>1. {"garbled", "timeout"} \subseteq Reports \ {"response"}
        BY DEF Reports
      <4> QED
        BY <3>3, <3>4, <4>1 DEF Timeout, RequestCoreAnswered
    <3>5. CASE UNCHANGED reports
      BY <3>5 DEF Reported
    <3> QED
      BY <3>1, <3>2, <3>4, <3>5
         DEF CallStep, CheckRequestOpt, SendFails, RequestStream,
             PublishRequest, RequestCore, Publish, PublishAcked, PublishFails,
             EnterSelect, DropAnswer, DropPubAck, clientVars
  <2>2. CASE UNCHANGED reports
    BY <2>2 DEF Reported
  <2> QED
    BY <2>1, <2>2
       DEF Next, NotifyStep, Notify, LoseStep, Lose, StoreStep, DeliverStep,
           GiveUpStep, TickStep, StartStep, CrashStep, Register, UnRegister,
           Process, BeginStep, HandleStep, TerminateStep, AcknowledgeStep,
           ReplyStep, vars, clientVars
<1> QED
  BY <1>m, <1>s, <1>1, <1>2 DEF AnsweredWasServed

LEMMA CausalityInit == Init => Causality
<1> SUFFICES ASSUME Init PROVE Causality
  OBVIOUS
<1>1. DeliveredWasStored /\ RespondedWasExecuted
  BY DEF Init, JetStreamInit, WorkMsgInit, AllIdle, NoDeliveries,
         DeliveredWasStored, RespondedWasExecuted
<1>2. AnsweredWasServed
  BY DEF Init, NrpcClientInit, AnsweredWasServed, Reported
<1> QED
  BY <1>1, <1>2 DEF Causality

LEMMA CausalityStep == TypeOK /\ Causality /\ [Next]_vars => Causality'
<1> SUFFICES ASSUME TypeOK, Causality, [Next]_vars PROVE Causality'
  OBVIOUS
<1>1. DeliveredWasStored' /\ RespondedWasExecuted'
  BY DeliveredStep, RespondedStep DEF Causality
<1>2. AnsweredWasServed'
  BY AnsweredStep
<1> QED
  BY <1>1, <1>2 DEF Causality

THEOREM CausalityInvariant == Spec => []Causality
BY TypeCorrect, CausalityInit, CausalityStep, PTL DEF Spec

\* A response is reported only for a call whose message was stored and whose
\* handler has run.
THEOREM AnswersFollowHandlers == Spec => []AnswerFollowsHandler
<1>1. Causality => AnswerFollowsHandler
  BY DEF Causality, AnsweredWasServed, Served, AnswerFollowsHandler
<1> QED
  BY <1>1, CausalityInvariant, PTL

\* A call whose stream lookup failed never reports a response.
THEOREM AnswersNeedLookups == Spec => []AnswerNeedsLookup
<1>1. Causality => AnswerNeedsLookup
  BY DEF Causality, AnsweredWasServed, Served, AnswerNeedsLookup
<1> QED
  BY <1>1, CausalityInvariant, PTL

-----------------------------------------------------------------------------
(* An answer is the last thing a call reports *)

\* A step of a call that is not done: it reports nothing, a timeout, or, when
\* it gets done, anything.
LEMMA CallReports ==
  ASSUME TypeOK, NEW c \in Calls, CallStep(c)
  PROVE  \/ reports' = reports /\ (phase[c] = "done" => phase'[c] = "done")
         \/ /\ phase[c] # "done"
            /\ \E r \in Reports :
                 /\ Report(c, r)
                 /\ (r = "timeout" /\ c \notin Sync) \/ phase'[c] = "done"
<1>t. phase \in [Msgs -> Phases] /\ c \in Msgs
  BY NrpcClientAssumption DEF NrpcClientAssumption, TypeOK, NrpcClientTypeOK
<1>r. {"response", "garbled", "timeout"} = Reports
  BY DEF Reports
<1>1. CASE ReceiveAnswer(c)
  <2>1. CASE AnswerOf[c] = "acklike" /\ c \in Async
    BY <1>1, <2>1 DEF ReceiveAnswer, OnAnswer
  <2>2. CASE ~(AnswerOf[c] = "acklike" /\ c \in Async)
    BY <1>t, <1>r, <1>1, <2>2 DEF ReceiveAnswer, OnAnswer, GoTo
  <2> QED
    BY <2>1, <2>2
<1>2. CASE RequestCoreAnswered(c)
  BY <1>t, <1>r, <1>2 DEF RequestCoreAnswered, GoTo
<1>3. CASE Timeout(c)
  BY <1>t, <1>r, <1>3 DEF Timeout, GoTo
<1>4. CASE DropAnswer(c) \/ DropPubAck(c)
  BY <1>4 DEF DropAnswer, DropPubAck, clientVars
<1>5. CASE \/ CheckRequestOpt(c) \/ SendFails(c) \/ RequestStream(c)
           \/ PublishRequest(c) \/ RequestCore(c) \/ PublishAcked(c)
           \/ PublishFails(c) \/ EnterSelect(c)
  <2>1. phase[c] # "done" /\ reports' = reports
    BY <1>5
       DEF CheckRequestOpt, SendFails, RequestStream, PublishRequest,
           RequestCore, Publish, PublishAcked, PublishFails, EnterSelect
  <2> QED
    BY <2>1
<1> QED
  BY <1>1, <1>2, <1>3, <1>4, <1>5 DEF CallStep

\* A call moves and reports for itself only.
LEMMA OtherCalls ==
  ASSUME TypeOK, NEW c \in Calls, CallStep(c), NEW d \in Msgs, d # c
  PROVE  phase'[d] = phase[d] /\ (d \in Calls => reports'[d] = reports[d])
<1>t. phase \in [Msgs -> Phases] /\ reports \in [Calls -> Seq(Reports)]
  BY DEF TypeOK, NrpcClientTypeOK
<1>1. phase'[d] = phase[d]
  BY <1>t
     DEF CallStep, CheckRequestOpt, SendFails, RequestStream, PublishRequest,
         RequestCore, Publish, PublishAcked, PublishFails, EnterSelect,
         ReceiveAnswer, OnAnswer, DropAnswer, DropPubAck, RequestCoreAnswered,
         Timeout, GoTo, clientVars
<1>2. d \in Calls => reports'[d] = reports[d]
  BY <1>t, CallReports DEF Report
<1> QED
  BY <1>1, <1>2

\* Whatever else happens, calls neither move nor report, but for a Notify.
LEMMA CallsStay ==
  ASSUME TypeOK, [Next]_vars, ~\E c \in Calls : Client(c)
  PROVE  /\ reports' = reports
         /\ \A c \in Calls : phase'[c] = phase[c]
<1>1. CASE \E n \in Notifies : NotifyStep(n)
  <2>1. \A c \in Calls : c \notin Notifies
    BY NrpcClientAssumption DEF NrpcClientAssumption
  <2> QED
    BY <1>1, <2>1 DEF NotifyStep, Notify, GoTo, TypeOK, NrpcClientTypeOK
<1>2. CASE UNCHANGED <<phase, reports>>
  BY <1>2
<1> QED
  BY <1>1, <1>2
     DEF Next, LoseStep, Lose, StoreStep, DeliverStep, GiveUpStep, TickStep,
         StartStep, CrashStep, Register, UnRegister, Process, BeginStep,
         HandleStep, TerminateStep, AcknowledgeStep, ReplyStep, vars, clientVars

LEMMA LastAnswerStep == TypeOK /\ LastAnswer /\ [Next]_vars => LastAnswer'
<1> SUFFICES ASSUME TypeOK, LastAnswer, [Next]_vars PROVE LastAnswer'
  OBVIOUS
<1>t. phase \in [Msgs -> Phases] /\ reports \in [Calls -> Seq(Reports)]
  BY DEF TypeOK, NrpcClientTypeOK
<1>l. WaitingInv /\ AnswerIsLast
  BY DEF LastAnswer
<1>1. ASSUME NEW c \in Calls, CallStep(c) PROVE LastAnswer'
  <2>1. ASSUME NEW d \in Calls, d # c
        PROVE  phase'[d] = phase[d] /\ reports'[d] = reports[d]
    BY <1>1, <2>1, OtherCalls, NrpcClientAssumption DEF NrpcClientAssumption
  <2>2. CASE reports' = reports /\ (phase[c] = "done" => phase'[c] = "done")
    BY <1>l, <2>1, <2>2 DEF WaitingInv, OnlyTimeouts, AnswerIsLast, LastAnswer
  <2>3. CASE /\ phase[c] # "done"
             /\ \E r \in Reports :
                  /\ Report(c, r)
                  /\ (r = "timeout" /\ c \notin Sync) \/ phase'[c] = "done"
    <3>1. PICK r \in Reports :
            /\ Report(c, r)
            /\ (r = "timeout" /\ c \notin Sync) \/ phase'[c] = "done"
      BY <2>3
    <3>2. OnlyTimeouts(c) /\ (c \in Sync => Len(reports[c]) = 0)
      BY <1>l, <2>3 DEF WaitingInv
    <3>3. /\ reports'[c] = Append(reports[c], r) /\ reports[c] \in Seq(Reports)
          /\ Len(reports'[c]) = Len(reports[c]) + 1
          /\ \A i \in 1 .. Len(reports[c]) : reports'[c][i] = reports[c][i]
          /\ reports'[c][Len(reports[c]) + 1] = r
      BY <1>t, <3>1 DEF Report
    <3>4. \A i \in 1 .. Len(reports'[c]) - 1 : reports'[c][i] = "timeout"
      BY <3>2, <3>3 DEF OnlyTimeouts
    <3>5. c \in Sync => Len(reports'[c]) <= 1
      BY <3>2, <3>3
    <3>6. phase'[c] # "done" => OnlyTimeouts(c)' /\ c \notin Sync
      BY <3>1, <3>2, <3>3 DEF OnlyTimeouts
    <3> QED
      BY <1>l, <2>1, <3>4, <3>5, <3>6
         DEF WaitingInv, OnlyTimeouts, AnswerIsLast, LastAnswer
  <2> QED
    BY <1>1, <2>2, <2>3, CallReports
<1>2. CASE ~\E c \in Calls : Client(c)
  BY <1>l, <1>2, CallsStay DEF WaitingInv, OnlyTimeouts, AnswerIsLast, LastAnswer
<1> QED
  BY <1>1, <1>2 DEF Client

LEMMA LastAnswerInvariant == Spec => []LastAnswer
<1>1. Init => LastAnswer
  BY DEF Init, NrpcClientInit, LastAnswer, WaitingInv, OnlyTimeouts, AnswerIsLast
<1> QED
  BY <1>1, LastAnswerStep, TypeCorrect, PTL DEF Spec

\* Only timeouts of Call come before an answer, nothing comes after it, and
\* CallSync reports once (Call, CallSync).
THEOREM AnswerEndsCall == Spec => []AnswerIsLast
<1>1. LastAnswer => AnswerIsLast
  BY DEF LastAnswer
<1> QED
  BY <1>1, LastAnswerInvariant, PTL

-----------------------------------------------------------------------------
(* How a request leaves the stream *)

\* Process acknowledges what it has handled; everything else that takes a
\* message from the stream is a limit or the end of the consumer.
LEMMA GoneIsHandled ==
  ASSUME TypeOK, Causality, [Next]_vars, NEW m \in stream \ stream'
  PROVE  Handled(m)
<1>t. m \in Msgs /\ lastSeq \in Nat /\ execs \in [Msgs -> Nat]
  BY DEF TypeOK, JetStreamTypeOK, WorkMsgTypeOK
<1>1. CASE \E n \in Msgs : StoreStep(n)
  BY <1>t, <1>1 DEF StoreStep, Store, Retain, Handled
<1>2. CASE TickStep
  BY <1>2 DEF TickStep, Tick, Handled
<1>3. CASE UnRegister
  BY <1>3 DEF UnRegister, DeleteConsumer, jsVars, Handled
<1>4. CASE \E s \in Subs : TerminateStep(s) \/ AcknowledgeStep(s)
  <2>1. PICK s \in Subs : TerminateStep(s) \/ AcknowledgeStep(s)
    BY <1>4
  <2>2. m = current[s] /\ step[s] = "respond" /\ execs' = execs
    BY <2>1
       DEF TerminateStep, Terminate, Term, AcknowledgeStep, Acknowledge,
           Acknowledging, Ack, jsVars
  <2>3. execs[m] > 0
    BY <2>2 DEF Causality, RespondedWasExecuted
  <2> QED
    BY <2>3 DEF Handled
<1>5. CASE UNCHANGED stream
  BY <1>5
<1> QED
  BY <1>1, <1>2, <1>3, <1>4, <1>5
     DEF Next, Client, NotifyStep, LoseStep, DeliverStep, Deliver, Redeliver,
         Send, GiveUpStep, GiveUp, StartStep, CrashStep, Register,
         CreateConsumer, Process, BeginStep, InProgress, HandleStep,
         Acknowledging, ReplyStep, vars, jsVars

\* No acknowledgement of Process takes from the stream a request whose handler
\* has not run: with the reply, the reject and the restart in any order.
THEOREM GoneIsHandledOrLimit == Spec => HandledBeforeGone
<1>1. TypeOK /\ Causality /\ [Next]_vars => [\A m \in stream \ stream' : Handled(m)]_vars
  BY GoneIsHandled
<1> QED
  BY <1>1, TypeCorrect, CausalityInvariant, PTL DEF Spec, HandledBeforeGone

=============================================================================
