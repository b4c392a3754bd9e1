---------------------------- MODULE JsClient_proof ----------------------------
(***************************************************************************)
(* Proofs about JsClient, for any number of calls, RequestOpts, encodings  *)
(* and executions: what a caller is told is the last thing it is told, it  *)
(* is what a handler returned for the call, and a call made for a stream   *)
(* goes without one only after a failed lookup.                            *)
(***************************************************************************)
EXTENDS JsClient, TLAPS, SequenceTheorems

Phases == {"idle", "lookup", "found", "missing", "publish", "wait", "done", "failed"}

\* The shapes the proofs need, weaker than TypeOK: what is reported is left open.
Shapes ==
  /\ phase \in [Calls \cup Notifies -> Phases]
  /\ sub \in [Calls ->
       {"none", "open", "closed", "iterated", "message", "timeout", "ended"}]
  /\ sent \in [Calls \cup Notifies -> {"no", "core", "stream"}]
  /\ reports = [c \in Calls |-> reports[c]]
  /\ \A c \in Calls : \E S : reports[c] \in Seq(S)

\* A call reports at most once while it waits, when its timer expires, and once
\* when it ends; a call that is done has no timer left.
ReportInv(c) ==
  /\ phase[c] = "idle" => reports[c] = <<>> /\ c \notin timer /\ sub[c] = "none"
                         /\ sent[c] = "no"
  /\ phase[c] # "done" => \A i \in 1 .. Len(reports[c]) : ~Told(reports[c][i])
  /\ phase[c] \notin {"done", "failed"} =>
       Len(reports[c]) <= 1 /\ (c \in timer => Len(reports[c]) = 0)
  /\ phase[c] = "failed" =>
       Len(reports[c]) <= 2 /\ (c \in timer => Len(reports[c]) <= 1)
  /\ phase[c] = "done" =>
       /\ Len(reports[c]) <= 2 /\ c \notin timer
       /\ \A i \in 1 .. Len(reports[c]) - 1 : ~Told(reports[c][i])
  /\ c \in Async /\ sent[c] = "core" /\ sub[c] = "open" => phase[c] = "wait"
  /\ c \in Sync /\ sent[c] = "core" => c \notin timer

Inv == Shapes /\ \A c \in Calls : ReportInv(c)

\* A report is put at the end of those of its call.
LEMMA ReportAppends ==
  ASSUME Shapes, NEW c \in Calls, NEW r, Report(c, r)
  PROVE  /\ reports' = [d \in Calls |-> reports'[d]]
         /\ \A d \in Calls : \E S : reports'[d] \in Seq(S)
         /\ \A d \in Calls : d # c => reports'[d] = reports[d]
         /\ Len(reports[c]) \in Nat
         /\ Len(reports'[c]) = Len(reports[c]) + 1
         /\ \A i \in 1 .. Len(reports[c]) : reports'[c][i] = reports[c][i]
         /\ reports'[c][Len(reports[c]) + 1] = r
<1>1. PICK S : reports[c] \in Seq(S)
  BY DEF Shapes
<1>2. reports'[c] = Append(reports[c], r) /\ \A d \in Calls : d # c => reports'[d] = reports[d]
  BY DEF Report, Shapes
<1>3. /\ reports[c] \in Seq(S \cup {r}) /\ r \in S \cup {r}
      /\ reports'[c] \in Seq(S \cup {r})
  BY <1>1, <1>2
<1>4. reports' = [d \in Calls |-> reports'[d]]
  BY DEF Report, Shapes
<1>5. \A d \in Calls : \E T : reports'[d] \in Seq(T)
  BY <1>2, <1>3 DEF Shapes
<1> QED
  BY <1>1, <1>2, <1>3, <1>4, <1>5

LEMMA LengthIsNat ==
  ASSUME Shapes, NEW c \in Calls
  PROVE  Len(reports[c]) \in Nat
BY DEF Shapes

\* A step that leaves a call alone leaves what it has reported.
LEMMA Frame ==
  ASSUME NEW c \in Calls, ReportInv(c),
         phase'[c] = phase[c], sent'[c] = sent[c], reports'[c] = reports[c],
         phase[c] = "idle" => sub'[c] = sub[c],
         sub'[c] = "open" => sub[c] = "open",
         c \in timer' => c \in timer
  PROVE  ReportInv(c)'
BY DEF ReportInv, Told

\* What a step may do to its call: it moves on, reports at most once, and sets
\* its timer only when it is made.
LEMMA Moves ==
  ASSUME Inv, NEW c \in Calls, NEW to \in Phases,
         phase' = [phase EXCEPT ![c] = to],
         phase[c] # "done", to # "idle",
         sub' \in [Calls -> {"none", "open", "closed", "iterated", "message",
                             "timeout", "ended"}],
         sent' \in [Calls \cup Notifies -> {"no", "core", "stream"}],
         \A d \in Calls : d # c => sub'[d] = sub[d] /\ sent'[d] = sent[d],
         timer' \subseteq timer \cup {c},
         c \in Async /\ sent'[c] = "core" /\ sub'[c] = "open" => to = "wait",
         c \in Sync /\ sent'[c] = "core" => c \notin timer',
         \/ /\ reports' = reports
            /\ to = "done" => phase[c] # "failed" /\ c \notin timer'
            /\ to \notin {"done", "failed"} =>
                 phase[c] # "failed" /\ (c \in timer' => phase[c] = "idle" \/ c \in timer)
            /\ to = "failed" =>
                 phase[c] # "failed" \/ (c \in timer' => c \in timer)
         \/ /\ to = "failed" /\ phase[c] # "failed"
            /\ Report(c, <<"error">>)
            /\ c \in timer' => phase[c] = "idle"
         \/ /\ to = "done" /\ phase[c] # "failed" /\ c \notin timer'
            /\ \E r : Report(c, r)
  PROVE  Inv'
<1>1. /\ Shapes /\ ReportInv(c) /\ Len(reports[c]) \in Nat
      /\ phase[c] # "failed" => Len(reports[c]) <= 1
      /\ phase[c] = "idle" => Len(reports[c]) = 0
      /\ \A i \in 1 .. Len(reports[c]) : ~Told(reports[c][i])
      /\ Len(reports[c]) <= 2
  BY LengthIsNat DEF Inv, ReportInv
<1>2. phase'[c] = to /\ \A d \in Calls : d # c => phase'[d] = phase[d]
  BY <1>1 DEF Shapes
<1>3. CASE reports' = reports
  <2>1. Shapes'
    BY <1>1, <1>3 DEF Shapes
  <2>2. ReportInv(c)'
    BY <1>1, <1>2, <1>3 DEF ReportInv, Told, Phases
  <2>3. \A d \in Calls : d # c => ReportInv(d)'
    BY <1>2, <1>3, Frame DEF Inv
  <2> QED
    BY <2>1, <2>2, <2>3 DEF Inv
<1>4. ASSUME NEW r, Report(c, r), phase[c] # "failed",
             \/ to = "done" /\ c \notin timer'
             \/ to = "failed" /\ r = <<"error">> /\ (c \in timer' => phase[c] = "idle")
      PROVE  Inv'
  <2>2. /\ reports' = [d \in Calls |-> reports'[d]]
        /\ \A d \in Calls : \E S : reports'[d] \in Seq(S)
        /\ \A d \in Calls : d # c => reports'[d] = reports[d]
        /\ Len(reports'[c]) = Len(reports[c]) + 1
        /\ \A i \in 1 .. Len(reports[c]) : reports'[c][i] = reports[c][i]
        /\ reports'[c][Len(reports[c]) + 1] = r
    BY <1>1, <1>4, ReportAppends
  <2>3. Shapes'
    BY <1>1, <2>2 DEF Shapes
  <2>4. to = "failed" => \A i \in 1 .. Len(reports'[c]) : ~Told(reports'[c][i])
    BY <1>1, <1>4, <2>2 DEF Told
  <2>5. \A i \in 1 .. Len(reports'[c]) - 1 : ~Told(reports'[c][i])
    BY <1>1, <2>2 DEF Told
  <2>6. ReportInv(c)'
    BY <1>1, <1>2, <1>4, <2>2, <2>4, <2>5 DEF ReportInv, Told
  <2>7. \A d \in Calls : d # c => ReportInv(d)'
    BY <1>2, <2>2, Frame DEF Inv
  <2> QED
    BY <2>3, <2>6, <2>7 DEF Inv
<1> QED
  BY <1>3, <1>4

\* A step of a subscription or of a timer may end them, and moves no call.
LEMMA Leaves ==
  ASSUME Inv, UNCHANGED <<phase, sent, reports>>, timer' \subseteq timer,
         sub' \in [Calls -> {"none", "open", "closed", "iterated", "message",
                             "timeout", "ended"}],
         \A c \in Calls : /\ sub[c] = "none" => sub'[c] = "none"
                          /\ sub'[c] = "open" => sub[c] = "open"
  PROVE  Inv'
<1>1. Shapes'
  BY DEF Inv, Shapes
<1>2. \A c \in Calls : phase[c] = "idle" => sub[c] = "none"
  BY DEF Inv, ReportInv
<1>3. \A c \in Calls : ReportInv(c)'
  BY <1>2, Frame DEF Inv
<1> QED
  BY <1>1, <1>3 DEF Inv

-----------------------------------------------------------------------------
(* The steps of a call *)

\* Calls and notifies are told apart.
LEMMA Apart ==
  /\ Calls = Async \cup Sync
  /\ \A c \in Async : c \notin Sync
  /\ \A n \in Notifies : n \notin Calls
BY JsClientAssumption DEF JsClientAssumption, Calls

LEMMA CallCoreInv ==
  ASSUME Inv, NEW c \in Calls, CallCore(c)
  PROVE  Inv'
<1>1. /\ Shapes /\ c \in Async /\ c \notin Sync /\ phase[c] = "idle"
      /\ sub[c] = "none" /\ sent[c] = "no"
  BY Apart DEF Inv, ReportInv, CallCore, GoTo
<1>2. /\ timer' = timer \cup {c}
      /\ sub' \in [Calls -> {"none", "open", "closed", "iterated", "message",
                             "timeout", "ended"}]
      /\ \A d \in Calls : d # c => sub'[d] = sub[d]
  BY <1>1 DEF CallCore, Shapes
<1>3. CASE CanSubscribeCore /\ IsBuffer(encodeType)
  <2>1. /\ phase' = [phase EXCEPT ![c] = "wait"]
        /\ sent' = [sent EXCEPT ![c] = "core"]
        /\ reports' = reports
    BY <1>3 DEF CallCore, GoTo
  <2>2. /\ sent' \in [Calls \cup Notifies -> {"no", "core", "stream"}]
        /\ \A d \in Calls : d # c => sent'[d] = sent[d]
    BY <1>1, <2>1 DEF Shapes
  <2> QED
    BY <1>1, <1>2, <2>1, <2>2, Moves DEF Phases
<1>4. CASE ~(CanSubscribeCore /\ IsBuffer(encodeType))
  <2>1. /\ phase' = [phase EXCEPT ![c] = "failed"]
        /\ Report(c, <<"error">>) /\ sent' = sent
    BY <1>4 DEF CallCore, GoTo
  <2> QED
    BY <1>1, <1>2, <2>1, Moves DEF Phases, Shapes
<1> QED
  BY <1>3, <1>4

LEMMA CallSyncCoreInv ==
  ASSUME Inv, NEW c \in Calls, CallSyncCore(c)
  PROVE  Inv'
<1>1. /\ Shapes /\ c \in Sync /\ c \notin Async /\ phase[c] = "idle"
      /\ c \notin timer /\ timer' = timer /\ sub' = sub
  BY Apart DEF Inv, ReportInv, CallSyncCore, GoTo, replyVars
<1>2. CASE CanSubscribeCore /\ IsBuffer(encodeType)
  <2>1. /\ phase' = [phase EXCEPT ![c] = "wait"]
        /\ sent' = [sent EXCEPT ![c] = "core"]
        /\ reports' = reports
    BY <1>2 DEF CallSyncCore, GoTo
  <2>2. /\ sent' \in [Calls \cup Notifies -> {"no", "core", "stream"}]
        /\ \A d \in Calls : d # c => sent'[d] = sent[d]
    BY <1>1, <2>1 DEF Shapes
  <2> QED
    BY <1>1, <2>1, <2>2, Moves DEF Phases, Shapes
<1>3. CASE ~(CanSubscribeCore /\ IsBuffer(encodeType))
  <2>1. /\ phase' = [phase EXCEPT ![c] = "failed"]
        /\ Report(c, <<"error">>) /\ sent' = sent
    BY <1>3 DEF CallSyncCore, GoTo
  <2> QED
    BY <1>1, <2>1, Moves DEF Phases, Shapes
<1> QED
  BY <1>2, <1>3

\* The subscription of a call of core NATS is open only while the call waits.
LEMMA OnMessageInv ==
  ASSUME Inv, NEW c \in Calls, OnMessage(c)
  PROVE  Inv'
<1>1. /\ Shapes /\ c \in Async /\ c \notin Sync /\ phase[c] = "wait"
      /\ phase' = [phase EXCEPT ![c] = "done"]
      /\ sub' = [sub EXCEPT ![c] = "closed"]
      /\ timer' = timer \ {c} /\ sent' = sent
  BY Apart DEF Inv, ReportInv, OnMessage, clearTimeout, messageVars
<1>2. reports' = reports \/ \E r : Report(c, r)
  BY DEF OnMessage, Deliver
<1>3. /\ sub' \in [Calls -> {"none", "open", "closed", "iterated", "message",
                             "timeout", "ended"}]
      /\ sub'[c] = "closed" /\ \A d \in Calls : d # c => sub'[d] = sub[d]
  BY <1>1 DEF Shapes
<1> QED
  BY <1>1, <1>2, <1>3, Moves DEF Phases, Shapes

\* The answer to a request ends a call that has no timer.
LEMMA ResolveInv ==
  ASSUME Inv, NEW c \in Calls, Resolve(c) \/ Reject(c)
  PROVE  Inv'
<1>1. /\ Shapes /\ c \in Sync /\ c \notin Async /\ phase[c] = "wait"
      /\ c \notin timer /\ timer' = timer /\ sub' = sub /\ sent' = sent
  BY Apart DEF Inv, ReportInv, Resolve, Reject, GoTo, replyVars, messageVars
<1>2. CASE Resolve(c)
  <2>1. phase' = [phase EXCEPT ![c] = "done"] /\ \E r : Report(c, r)
    BY <1>2 DEF Resolve, GoTo
  <2> QED
    BY <1>1, <2>1, Moves DEF Phases, Shapes
<1>3. CASE Reject(c)
  <2>1. phase' = [phase EXCEPT ![c] = "failed"] /\ Report(c, <<"error">>)
    BY <1>3 DEF Reject, GoTo
  <2> QED
    BY <1>1, <2>1, Moves DEF Phases, Shapes
<1> QED
  BY <1>2, <1>3

LEMMA CallStreamInv ==
  ASSUME Inv, NEW c \in Calls, CallStream(c) \/ \E r \in {"found", "missing"} : checkRequestOpt(c, r)
  PROVE  Inv'
<1>1. Shapes /\ sub' = sub /\ sent' = sent /\ reports' = reports
  BY DEF Inv, CallStream, checkRequestOpt, messageVars, resultVars, replyVars
<1>2. CASE CallStream(c)
  <2>1. /\ phase[c] = "idle" /\ phase' = [phase EXCEPT ![c] = "lookup"]
        /\ timer' = timer \cup {c} /\ sent[c] = "no"
    BY <1>2 DEF CallStream, GoTo, Inv, ReportInv
  <2> QED
    BY <1>1, <2>1, Moves DEF Phases, Shapes
<1>3. ASSUME NEW r \in {"found", "missing"}, checkRequestOpt(c, r)
      PROVE  Inv'
  <2>1. /\ phase[c] = "lookup" /\ phase' = [phase EXCEPT ![c] = r]
        /\ timer' = timer /\ ReportInv(c)
    BY <1>3 DEF checkRequestOpt, GoTo, replyVars, Inv
  <2> QED
    BY <1>1, <2>1, Moves DEF Phases, Shapes, ReportInv
<1> QED
  BY <1>2, <1>3

\* A call that fails while it waits for something that is not core NATS: its
\* timer is cleared, and the promise of callSync rejected.
LEMMA FailInv ==
  ASSUME Inv, NEW c \in Calls, Fail(c), phase[c] \notin {"idle", "done", "failed"},
         phase' = [phase EXCEPT ![c] = "failed"],
         sub' = sub, sent' = sent,
         c \in Async /\ sent[c] = "core" => sub[c] # "open"
  PROVE  Inv'
<1>1. Shapes /\ timer' = timer \ {c}
  BY DEF Inv, Fail, clearTimeout
<1>2. reports' = reports \/ Report(c, <<"error">>)
  BY DEF Fail
<1> QED
  BY <1>1, <1>2, Moves DEF Phases, Shapes

LEMMA RequestInv ==
  ASSUME Inv, NEW c \in Calls, _request(c) \/ _requestThrows(c)
  PROVE  Inv'
<1>1. /\ Shapes /\ ReportInv(c) /\ phase[c] \in {"found", "missing"}
      /\ c \in Async /\ sent[c] = "core" => sub[c] # "open"
  BY DEF Inv, ReportInv, _request, _requestThrows, Requesting, GoTo
<1>2. CASE _request(c)
  <2>1. /\ phase' = [phase EXCEPT ![c] = "publish"]
        /\ sub' = [sub EXCEPT ![c] = "iterated"]
        /\ sent' = sent \/ sent' = [sent EXCEPT ![c] = "stream"]
        /\ timer' = timer /\ reports' = reports
    BY <1>2 DEF _request, Requesting, GoTo, resultVars
  <2>2. /\ sub' \in [Calls -> {"none", "open", "closed", "iterated", "message",
                               "timeout", "ended"}]
        /\ sub'[c] = "iterated" /\ \A d \in Calls : d # c => sub'[d] = sub[d]
    BY <1>1, <2>1 DEF Shapes
  <2>3. /\ sent' \in [Calls \cup Notifies -> {"no", "core", "stream"}]
        /\ sent'[c] = sent[c] \/ sent'[c] = "stream"
        /\ \A d \in Calls : d # c => sent'[d] = sent[d]
    BY <1>1, <2>1 DEF Shapes
  <2>4. c \in Sync /\ sent'[c] = "core" => c \notin timer'
    BY <1>1, <2>1, <2>3 DEF ReportInv
  <2> QED
    BY <1>1, <2>1, <2>2, <2>3, <2>4, Moves DEF Phases
<1>3. CASE _requestThrows(c)
  <2>1. /\ phase' = [phase EXCEPT ![c] = "failed"] /\ Fail(c)
        /\ sub' = sub /\ sent' = sent
    BY <1>3 DEF _requestThrows, Requesting, GoTo, messageVars
  <2> QED
    BY <1>1, <2>1, FailInv
<1> QED
  BY <1>2, <1>3

LEMMA PubAckInv ==
  ASSUME Inv, NEW c \in Calls, PubAck(c) \/ PublishFails(c)
  PROVE  Inv'
<1>1. /\ Shapes /\ ReportInv(c) /\ phase[c] = "publish" /\ sub' = sub /\ sent' = sent
      /\ c \in Async /\ sent[c] = "core" => sub[c] # "open"
  BY DEF Inv, ReportInv, PubAck, PublishFails, GoTo, messageVars, replyVars
<1>2. CASE PubAck(c)
  <2>1. /\ phase' = [phase EXCEPT ![c] = "wait"]
        /\ timer' = timer /\ reports' = reports
    BY <1>2 DEF PubAck, GoTo, replyVars, resultVars
  <2> QED
    BY <1>1, <2>1, Moves DEF Phases, Shapes, ReportInv
<1>3. CASE PublishFails(c)
  <2>1. phase' = [phase EXCEPT ![c] = "failed"] /\ Fail(c)
    BY <1>3 DEF PublishFails, GoTo
  <2> QED
    BY <1>1, <2>1, FailInv
<1> QED
  BY <1>2, <1>3

LEMMA ReceiveInv ==
  ASSUME Inv, NEW c \in Calls, Receive(c) \/ ReceiveFails(c)
  PROVE  Inv'
<1>1. /\ Shapes /\ phase[c] = "wait" /\ sub' = sub /\ sent' = sent
      /\ sub[c] # "open" /\ timer' = timer \ {c}
  BY DEF Inv, Receive, ReceiveFails, Fail, clearTimeout, GoTo, messageVars
<1>2. CASE Receive(c)
  <2>1. phase' = [phase EXCEPT ![c] = "done"] /\ \E r : Report(c, r)
    BY <1>2 DEF Receive, GoTo
  <2> QED
    BY <1>1, <2>1, Moves DEF Phases, Shapes
<1>3. CASE ReceiveFails(c)
  <2>1. phase' = [phase EXCEPT ![c] = "failed"] /\ Fail(c)
    BY <1>3 DEF ReceiveFails, GoTo
  <2> QED
    BY <1>1, <2>1, FailInv
<1> QED
  BY <1>2, <1>3

\* A timer expires once, before the call that set it is done.
LEMMA TimeoutInv ==
  ASSUME Inv, NEW c \in Calls, Timeout(c)
  PROVE  Inv'
<1>1. /\ Shapes /\ ReportInv(c) /\ c \in timer /\ timer' = timer \ {c}
      /\ UNCHANGED <<phase, sub, sent>>
  BY DEF Inv, Timeout, clearTimeout, messageVars
<1>2. CASE reports' = reports
  BY <1>1, <1>2, Leaves DEF Shapes
<1>3. CASE Report(c, <<"timeout">>)
  <2>1. /\ reports' = [d \in Calls |-> reports'[d]]
        /\ \A d \in Calls : \E S : reports'[d] \in Seq(S)
        /\ \A d \in Calls : d # c => reports'[d] = reports[d]
        /\ Len(reports[c]) \in Nat
        /\ Len(reports'[c]) = Len(reports[c]) + 1
        /\ \A i \in 1 .. Len(reports[c]) : reports'[c][i] = reports[c][i]
        /\ reports'[c][Len(reports[c]) + 1] = <<"timeout">>
    BY <1>1, <1>3, ReportAppends
  <2>2. Shapes'
    BY <1>1, <2>1 DEF Shapes
  <2>3. phase[c] \notin {"idle", "done"}
    BY <1>1 DEF ReportInv
  <2>4. \A i \in 1 .. Len(reports'[c]) : ~Told(reports'[c][i])
    <3>1. \A i \in 1 .. Len(reports[c]) : ~Told(reports[c][i])
      BY <1>1, <2>3 DEF ReportInv
    <3> QED
      BY <2>1, <3>1 DEF Told
  <2>5. ReportInv(c)'
    BY <1>1, <2>1, <2>3, <2>4 DEF ReportInv
  <2>6. \A d \in Calls : d # c => ReportInv(d)'
    BY <1>1, <2>1, Frame DEF Inv
  <2> QED
    BY <2>2, <2>5, <2>6 DEF Inv
<1> QED
  BY <1>2, <1>3 DEF Timeout

-----------------------------------------------------------------------------
(* The steps of the environment, and the theorem *)

\* A notify is no call: it leaves them alone.
LEMMA NotifyInv ==
  ASSUME Inv, NEW n \in Notifies, Notify(n)
  PROVE  Inv'
<1>1. \A c \in Calls : c # n
  BY Apart
<1>2. /\ Shapes /\ UNCHANGED <<timer, sub, reports>>
      /\ phase' = [phase EXCEPT ![n] = "done"] \/ phase' = [phase EXCEPT ![n] = "failed"]
      /\ sent' = [sent EXCEPT ![n] = "core"] \/ sent' = sent
  BY DEF Inv, Notify, GoTo, replyVars, resultVars
<1>3. Shapes'
  BY <1>2 DEF Shapes, Phases
<1>4. \A c \in Calls : phase'[c] = phase[c] /\ sent'[c] = sent[c]
  BY <1>1, <1>2 DEF Shapes
<1>5. \A c \in Calls : ReportInv(c)'
  BY <1>2, <1>4, Frame DEF Inv
<1> QED
  BY <1>3, <1>5 DEF Inv

LEMMA SubscriptionInv ==
  ASSUME Inv, NEW c \in Calls, Arrives(c) \/ SubTimeout(c) \/ SubscriptionTimeout(c)
  PROVE  Inv'
<1>1. /\ Shapes /\ UNCHANGED <<phase, sent, reports>> /\ timer' \subseteq timer
      /\ sub[c] # "none"
      /\ \E to \in {"message", "timeout", "closed"} : sub' = [sub EXCEPT ![c] = to]
  BY DEF Inv, Arrives, SubTimeout, SubscriptionTimeout, clearTimeout, messageVars, resultVars
<1>2. /\ sub' \in [Calls -> {"none", "open", "closed", "iterated", "message",
                             "timeout", "ended"}]
      /\ sub'[c] # "open" /\ \A d \in Calls : d # c => sub'[d] = sub[d]
  BY <1>1 DEF Shapes
<1> QED
  BY <1>1, <1>2, Leaves

LEMMA ConnectionInv ==
  ASSUME Inv, Connection
  PROVE  Inv'
<1>1. Shapes /\ UNCHANGED <<phase, sent, reports, timer>>
  BY DEF Inv, Connection, messageVars, resultVars
<1>2. CASE sub' = sub
  BY <1>1, <1>2, Leaves DEF Shapes
<1>3. CASE sub' = [c \in Calls |->
                     CASE sub[c] = "open" -> "closed"
                       [] sub[c] = "iterated" -> "ended"
                       [] OTHER -> sub[c]]
  <2>1. /\ sub' \in [Calls -> {"none", "open", "closed", "iterated", "message",
                               "timeout", "ended"}]
        /\ \A c \in Calls : /\ sub[c] = "none" => sub'[c] = "none"
                            /\ sub'[c] # "open"
    BY <1>1, <1>3 DEF Shapes
  <2> QED
    BY <1>1, <2>1, Leaves
<1> QED
  BY <1>2, <1>3 DEF Connection

LEMMA InvInit == Init => Inv
<1> SUFFICES ASSUME Init PROVE Inv
  OBVIOUS
<1>1. \A c \in Calls : reports[c] = <<>> /\ <<>> \in Seq({})
  BY DEF Init
<1>2. Shapes
  BY <1>1 DEF Init, Shapes, Phases
<1>3. \A c \in Calls : Len(reports[c]) = 0
  BY <1>1
<1> QED
  BY <1>1, <1>2, <1>3 DEF Init, Inv, ReportInv

LEMMA InvStep == Inv /\ [Next]_vars => Inv'
<1> SUFFICES ASSUME Inv, [Next]_vars PROVE Inv'
  OBVIOUS
<1>1. CASE UNCHANGED vars
  BY <1>1, Leaves DEF Inv, Shapes, vars, replyVars, messageVars, resultVars
<1>2. ASSUME NEW c \in Calls, CallCore(c) \/ CallSyncCore(c) \/ CallStream(c)
      PROVE  Inv'
  BY <1>2, CallCoreInv, CallSyncCoreInv, CallStreamInv
<1>3. ASSUME NEW c \in Calls, Step(c) PROVE Inv'
  BY <1>3, CallStreamInv, RequestInv, PubAckInv, ReceiveInv, ResolveInv,
     SubscriptionInv, TimeoutInv DEF Step
<1>4. ASSUME NEW c \in Calls, OnMessage(c) \/ Resolve(c) \/ Arrives(c) PROVE Inv'
  BY <1>4, OnMessageInv, ResolveInv, SubscriptionInv
<1>5. ASSUME NEW c \in Calls, Store(c) \/ Serve(c) PROVE Inv'
  BY <1>5, Leaves DEF Store, Serve, Inv, Shapes, replyVars, resultVars
<1>6. ASSUME NEW n \in Notifies, Notify(n) PROVE Inv'
  BY <1>6, NotifyInv
<1>7. CASE Connection
  BY <1>7, ConnectionInv
<1> QED
  BY <1>1, <1>2, <1>3, <1>4, <1>5, <1>6, <1>7 DEF Next

\* What an answer decodes to is the last thing a caller is told, with any
\* number of calls and executions, and with any encodings
\* (js/nrpc/nrpc_client.js call, callSync, _request).
THEOREM AnswerEndsTheCall == Spec => []ResponseIsLast
<1>1. Inv => ResponseIsLast
  <2> SUFFICES ASSUME Inv, NEW c \in Calls
               PROVE  /\ \A i \in 1 .. Len(reports[c]) - 1 : ~Told(reports[c][i])
                      /\ Len(reports[c]) <= 2
    BY DEF ResponseIsLast
  <2>1. Len(reports[c]) \in Nat /\ ReportInv(c) /\ phase[c] \in Phases
    BY LengthIsNat DEF Inv, Shapes
  <2> QED
    BY <2>1 DEF ReportInv, Phases
<1> QED
  BY <1>1, InvInit, InvStep, PTL DEF Spec

-----------------------------------------------------------------------------
(* The Qos of a RequestOpt *)

\* An object made for a stream has lost its Qos in a failed lookup only.
LostByLookup(o) == qos[o] = 0 /\ QosOf[o] # 0 => "missing" \in lookups[o]

QosInv ==
  /\ qos \in [Opts -> 0 .. 2]
  /\ lookups \in [Opts -> SUBSET {"found", "missing"}]
  /\ sent \in [Calls \cup Notifies -> {"no", "core", "stream"}]
  /\ \A o \in Opts : LostByLookup(o)
  /\ DowngradeByLookup

\* A step that sends through core NATS only what was made or left at Qos0.
LEMMA SendsCore ==
  ASSUME QosInv, UNCHANGED optVars,
         sent' \in [Calls \cup Notifies -> {"no", "core", "stream"}],
         \A c \in Calls : sent'[c] = "core" => sent[c] = "core" \/ Qos(c) = 0
  PROVE  QosInv'
<1>1. qos' = qos /\ lookups' = lookups
  BY DEF optVars
<1>2. \A o \in Opts : LostByLookup(o)'
  BY <1>1 DEF QosInv, LostByLookup
<1>3. DowngradeByLookup'
  <2> SUFFICES ASSUME NEW c \in Calls, sent'[c] = "core", QosOf[OptsOf[c]] # 0
               PROVE  "missing" \in lookups[OptsOf[c]]
    BY <1>1 DEF DowngradeByLookup
  <2>1. OptsOf[c] \in Opts
    BY JsClientAssumption DEF JsClientAssumption
  <2>2. CASE sent[c] = "core"
    BY <2>2 DEF QosInv, DowngradeByLookup
  <2>3. CASE Qos(c) = 0
    BY <2>1, <2>3 DEF QosInv, LostByLookup, Qos
  <2> QED
    BY <2>2, <2>3
<1> QED
  BY <1>1, <1>2, <1>3 DEF QosInv

LEMMA checkRequestOptQos ==
  ASSUME QosInv, NEW c \in Calls, NEW r \in {"found", "missing"}, checkRequestOpt(c, r)
  PROVE  QosInv'
<1> DEFINE o == OptsOf[c]
<1>1. /\ o \in Opts
      /\ qos' = [qos EXCEPT ![o] = CorrectedQos(o, r)]
      /\ lookups' = [lookups EXCEPT ![o] = @ \cup {r}]
      /\ sent' = sent
  BY JsClientAssumption DEF JsClientAssumption, checkRequestOpt, messageVars
<1>2. CorrectedQos(o, r) \in 0 .. 2 /\ (CorrectedQos(o, r) = 0 => r = "missing")
  BY DEF CorrectedQos
<1>3. /\ qos' \in [Opts -> 0 .. 2]
      /\ lookups' \in [Opts -> SUBSET {"found", "missing"}]
      /\ \A p \in Opts : lookups[p] \subseteq lookups'[p]
      /\ qos'[o] = CorrectedQos(o, r) /\ r \in lookups'[o]
      /\ \A p \in Opts : p # o => qos'[p] = qos[p]
  BY <1>1, <1>2 DEF QosInv
<1>4. \A p \in Opts : LostByLookup(p)'
  BY <1>2, <1>3 DEF QosInv, LostByLookup
<1>5. DowngradeByLookup'
  BY <1>1, <1>3, JsClientAssumption DEF QosInv, DowngradeByLookup, JsClientAssumption
<1> QED
  BY <1>1, <1>3, <1>4, <1>5 DEF QosInv

LEMMA QosInit == Init => QosInv
BY JsClientAssumption DEF Init, QosInv, LostByLookup, DowngradeByLookup, JsClientAssumption

LEMMA QosStep == QosInv /\ [Next]_vars => QosInv'
<1> SUFFICES ASSUME QosInv, [Next]_vars PROVE QosInv'
  OBVIOUS
<1>1. CASE UNCHANGED vars
  BY <1>1, SendsCore DEF QosInv, vars, messageVars
<1>2. ASSUME NEW c \in Calls, CallCore(c) \/ CallSyncCore(c) PROVE QosInv'
  <2>1. /\ Qos(c) = 0 /\ UNCHANGED optVars
        /\ sent' = sent \/ sent' = [sent EXCEPT ![c] = "core"]
    BY <1>2 DEF CallCore, CallSyncCore
  <2>2. /\ sent' \in [Calls \cup Notifies -> {"no", "core", "stream"}]
        /\ \A d \in Calls : sent'[d] = "core" => sent[d] = "core" \/ Qos(d) = 0
    BY <2>1 DEF QosInv
  <2> QED
    BY <2>1, <2>2, SendsCore
<1>3. ASSUME NEW c \in Calls, _request(c) PROVE QosInv'
  <2>1. UNCHANGED optVars /\ (sent' = sent \/ sent' = [sent EXCEPT ![c] = "stream"])
    BY <1>3 DEF _request
  <2>2. /\ sent' \in [Calls \cup Notifies -> {"no", "core", "stream"}]
        /\ \A d \in Calls : sent'[d] = "core" => sent[d] = "core"
    BY <2>1 DEF QosInv
  <2> QED
    BY <2>1, <2>2, SendsCore
<1>4. ASSUME NEW c \in Calls, NEW r \in {"found", "missing"}, checkRequestOpt(c, r)
      PROVE  QosInv'
  BY <1>4, checkRequestOptQos
<1>5. ASSUME NEW n \in Notifies, Notify(n) PROVE QosInv'
  <2>1. UNCHANGED optVars /\ (sent' = sent \/ sent' = [sent EXCEPT ![n] = "core"])
    BY <1>5 DEF Notify
  <2>2. /\ sent' \in [Calls \cup Notifies -> {"no", "core", "stream"}]
        /\ \A d \in Calls : sent'[d] = sent[d]
    BY <2>1, Apart DEF QosInv
  <2> QED
    BY <2>1, <2>2, SendsCore
<1>6. ASSUME NEW c \in Calls,
             \/ CallStream(c) \/ OnMessage(c) \/ Resolve(c) \/ Arrives(c)
             \/ _requestThrows(c) \/ PubAck(c) \/ PublishFails(c) \/ SubTimeout(c)
             \/ Receive(c) \/ ReceiveFails(c) \/ Reject(c) \/ SubscriptionTimeout(c)
             \/ Timeout(c) \/ Store(c) \/ Serve(c)
      PROVE  QosInv'
  <2>1. UNCHANGED optVars /\ sent' = sent
    BY <1>6 DEF CallStream, OnMessage, Resolve, Arrives, _requestThrows, PubAck,
       PublishFails, SubTimeout, Receive, ReceiveFails, Reject, SubscriptionTimeout,
       Timeout, Store, Serve, messageVars
  <2> QED
    BY <2>1, SendsCore DEF QosInv
<1>7. CASE Connection
  BY <1>7, SendsCore DEF QosInv, Connection, messageVars
<1> QED
  BY <1>1, <1>2, <1>3, <1>4, <1>5, <1>6, <1>7 DEF Next, Step

\* A call made for a stream goes without one only after a failed lookup with
\* the same RequestOpt (js/nrpc/nrpc_client.js _checkRequestOpt).
THEOREM DowngradeNeedsLookup == Spec => []DowngradeByLookup
<1>1. QosInv => DowngradeByLookup
  BY DEF QosInv
<1> QED
  BY <1>1, QosInit, QosStep, PTL DEF Spec

-----------------------------------------------------------------------------
(* What the encodings make of an answer *)

Encoded ==
  /\ <<encodeType, peerType>> \in Encodings
  /\ encodeType \in EncodeTypes
  /\ peerType \in EncodeTypes

\* A client of Protobuf is not handled by a server of JSON.
Understood == encodeType = "protobuf" => peerType # "json"

\* The answer a handler returned throws, or is what the caller makes of it.
LEMMA AnswerMeans ==
  ASSUME Encoded, Understood, NEW c \in Calls, NEW r \in ResultsOf[c],
         NEW v \in decode(encodeType, ResponseFields, Payload(r)), v # Throws
  PROVE  v \in Means(r)
<1>1. CASE encodeType = "string"
  BY <1>1 DEF Means, decode
<1>2. CASE encodeType = "json"
  BY <1>2 DEF Means, decode, encode, Payload, Encoded, EncodeTypes
<1>3. CASE encodeType = "protobuf" /\ peerType = "protobuf"
  BY <1>3, ResultsAssumption DEF Means, Payload
<1>4. CASE encodeType = "protobuf" /\ peerType = "string"
  BY <1>4 DEF decode, encode, Payload
<1> QED
  BY <1>1, <1>2, <1>3, <1>4 DEF Encoded, EncodeTypes, Understood

LEMMA MeansKind ==
  ASSUME Encoded, NEW r, NEW v \in Means(r)
  PROVE  v[1] \in Kinds
BY DEF Means, Kinds, Encoded, EncodeTypes

\* A status without data decodes to a Response that owns no field.
LEMMA NoDataDecodes == decode("protobuf", ResponseFields, NoData) = {<<"message", NoFields>>}
<1>1. decodeFields(ResponseFields, <<>>) = NoFields
  <2>1. DOMAIN <<>> = {}
    OBVIOUS
  <2> QED
    BY <2>1 DEF decodeFields, FoldLeft, MapThenFoldSet
<1> QED
  BY <1>1 DEF decode, NoData

LEMMA PubAckDecodes == decode("protobuf", ResponseFields, PubAckData) = {Throws, <<"garbage">>}
BY DEF decode, PubAckData

\* The server of a client of Protobuf that understands its request is no
\* server of JSON.
LEMMA ServedUnderstood ==
  ASSUME Encoded, decode(peerType, RequestFields, RequestData) # {Throws}
  PROVE  Understood
<1> SUFFICES ASSUME encodeType = "protobuf", peerType = "json" PROVE FALSE
  BY DEF Understood
<1> QED
  BY DEF decode, encode, RequestData

-----------------------------------------------------------------------------
(* The executions and the answers *)

Served ==
  /\ served = [c \in Calls |-> served[c]]
  /\ \A c \in Calls : served[c] \in Seq(ResultsOf[c]) /\ Len(served[c]) <= MaxServed
  /\ \A c \in Calls : served[c] # <<>> => Understood

Core ==
  \A c \in Calls : sent[c] = "core" =>
    phase[c] \in {"wait", "done", "failed"} /\ encodeType = "protobuf"

AnswerFor(c, v) ==
  \/ \E r \in Range(served[c]) : v \in Means(r)
  \/ sent[c] = "core" /\ v = <<"garbage">>
  \/ sent[c] = "core" /\ c \in Async /\ v = <<"message", NoFields>>

Reported ==
  \A c \in Calls : \A i \in 1 .. Len(reports[c]) :
    reports[c][i][1] \in Kinds /\ (Told(reports[c][i]) => AnswerFor(c, reports[c][i]))

AnswerInv == Encoded /\ Served /\ Core /\ Reported

LEMMA ConfigStays == [Next]_vars => UNCHANGED configVars
BY DEF Next, Step, vars, envVars, CallCore, CallSyncCore, CallStream, OnMessage, Resolve,
   Arrives, Store, Serve, Notify, Connection, checkRequestOpt, _request, _requestThrows,
   PubAck, PublishFails, SubTimeout, Receive, ReceiveFails, Reject, SubscriptionTimeout,
   Timeout

\* The handler of a call is executed, or no handler is.
LEMMA ServedMoves ==
  [Next]_vars =>
    \/ served' = served
    \/ \E c \in Calls : Serve(c)
BY DEF Next, Step, vars, messageVars, CallCore, CallSyncCore, CallStream, OnMessage,
   Resolve, Arrives, Store, Notify, Connection, checkRequestOpt, _request,
   _requestThrows, PubAck, PublishFails, SubTimeout, Receive, ReceiveFails, Reject,
   SubscriptionTimeout, Timeout

LEMMA ServedStep ==
  ASSUME Encoded, Served, [Next]_vars
  PROVE  /\ Served'
         /\ \A c \in Calls : Range(served[c]) \subseteq Range(served'[c])
<1>1. encodeType' = encodeType /\ peerType' = peerType
  BY ConfigStays DEF configVars
<1>2. Understood' <=> Understood
  BY <1>1 DEF Understood
<1>3. CASE served' = served
  BY <1>2, <1>3 DEF Served
<1>4. ASSUME NEW c \in Calls, Serve(c)
      PROVE  /\ Served'
             /\ \A d \in Calls : Range(served[d]) \subseteq Range(served'[d])
  <2>1. PICK r \in ResultsOf[c] : served' = [served EXCEPT ![c] = Append(@, r)]
    BY <1>4 DEF Serve
  <2>2. /\ Len(served[c]) < MaxServed /\ Understood
        /\ served[c] \in Seq(ResultsOf[c]) /\ served = [d \in Calls |-> served[d]]
    BY <1>4, ServedUnderstood DEF Serve, Served
  <2>3. /\ served' = [d \in Calls |-> served'[d]]
        /\ served'[c] = Append(served[c], r)
        /\ \A d \in Calls : d # c => served'[d] = served[d]
    BY <2>1, <2>2
  <2>4. /\ Append(served[c], r) \in Seq(ResultsOf[c])
        /\ Len(Append(served[c], r)) = Len(served[c]) + 1 /\ Len(served[c]) \in Nat
        /\ \A i \in 1 .. Len(served[c]) : Append(served[c], r)[i] = served[c][i]
    BY <2>2, AppendProperties, LenProperties
  <2>5. Range(served[c]) \subseteq Range(Append(served[c], r))
    <3>1. /\ Range(served[c]) = {served[c][i] : i \in 1 .. Len(served[c])}
          /\ Range(Append(served[c], r)) =
               {Append(served[c], r)[i] : i \in 1 .. Len(Append(served[c], r))}
      BY <2>2, <2>4, RangeEquality
    <3> QED
      BY <2>4, <3>1
  <2>6. Len(served'[c]) <= MaxServed
    BY <2>2, <2>3, <2>4, JsClientAssumption DEF JsClientAssumption
  <2>7. Served'
    BY <1>2, <2>2, <2>3, <2>4, <2>6 DEF Served
  <2> QED
    BY <2>3, <2>5, <2>7
<1> QED
  BY <1>3, <1>4, ServedMoves

LEMMA CoreStep ==
  ASSUME Encoded, Inv, Core, [Next]_vars
  PROVE  Core' /\ \A c \in Calls : sent[c] = "core" => sent'[c] = "core"
<1>1. /\ encodeType' = encodeType
      /\ phase \in [Calls \cup Notifies -> Phases]
      /\ sent \in [Calls \cup Notifies -> {"no", "core", "stream"}]
      /\ \A c \in Calls : phase[c] = "idle" => sent[c] = "no"
  BY ConfigStays DEF configVars, Inv, Shapes, ReportInv
<1> DEFINE Goal == Core' /\ \A c \in Calls : sent[c] = "core" => sent'[c] = "core"
<1>2. ASSUME NEW c \in Calls, NEW from \in Phases, NEW to \in Phases, GoTo(c, from, to),
             sent' = sent,
             from \notin {"wait", "done", "failed"} \/ to \in {"wait", "done", "failed"}
      PROVE  Goal
  <2>1. phase[c] = from /\ phase'[c] = to /\ \A d \in Calls : d # c => phase'[d] = phase[d]
    BY <1>1, <1>2 DEF GoTo
  <2> QED
    BY <1>1, <1>2, <2>1 DEF Core
<1>3. CASE UNCHANGED <<phase, sent>>
  BY <1>1, <1>3 DEF Core
<1>4. ASSUME NEW c \in Calls, CallCore(c) \/ CallSyncCore(c)
      PROVE  Goal
  <2>1. CASE sent' = sent
    BY <1>2, <1>4, <2>1 DEF CallCore, CallSyncCore, Phases, GoTo
  <2>2. CASE GoTo(c, "idle", "wait") /\ IsBuffer(encodeType) /\ sent' = [sent EXCEPT ![c] = "core"]
    <3>1. /\ phase'[c] = "wait" /\ sent'[c] = "core" /\ encodeType = "protobuf"
          /\ \A d \in Calls : d # c => phase'[d] = phase[d] /\ sent'[d] = sent[d]
      BY <1>1, <2>2 DEF GoTo, IsBuffer
    <3> QED
      BY <1>1, <3>1 DEF Core
  <2> QED
    BY <1>4, <2>1, <2>2 DEF CallCore, CallSyncCore
<1>5. ASSUME NEW c \in Calls, OnMessage(c)
      PROVE  Goal
  <2>1. phase' = [phase EXCEPT ![c] = "done"] /\ sent' = sent
    BY <1>5 DEF OnMessage, messageVars
  <2> QED
    BY <1>1, <2>1 DEF Core
<1>6. ASSUME NEW c \in Calls, _request(c)
      PROVE  Goal
  <2>1. /\ phase[c] \in {"found", "missing"} /\ phase' = [phase EXCEPT ![c] = "publish"]
        /\ sent' = sent \/ sent' = [sent EXCEPT ![c] = "stream"]
    BY <1>6 DEF _request, Requesting, GoTo
  <2>2. sent[c] # "core"
    BY <2>1 DEF Core
  <2> QED
    BY <1>1, <2>1, <2>2 DEF Core
<1>7. ASSUME NEW n \in Notifies, Notify(n)
      PROVE  Goal
  <2>1. \A d \in Calls : phase'[d] = phase[d] /\ sent'[d] = sent[d]
    BY <1>1, <1>7, Apart DEF Notify, GoTo
  <2> QED
    BY <1>1, <2>1 DEF Core
<1>8. ASSUME NEW c \in Calls,
             \/ CallStream(c) \/ Resolve(c) \/ _requestThrows(c) \/ PubAck(c)
             \/ PublishFails(c) \/ Receive(c) \/ ReceiveFails(c) \/ Reject(c)
             \/ \E r \in {"found", "missing"} : checkRequestOpt(c, r)
      PROVE  Goal
  <2>1. sent' = sent
    BY <1>8 DEF CallStream, Resolve, _requestThrows, PubAck, PublishFails, Receive,
       ReceiveFails, Reject, checkRequestOpt, messageVars
  <2>2. \E from \in Phases, to \in Phases :
          /\ GoTo(c, from, to)
          /\ from \notin {"wait", "done", "failed"} \/ to \in {"wait", "done", "failed"}
    BY <1>8 DEF CallStream, Resolve, _requestThrows, PubAck, PublishFails, Receive,
       ReceiveFails, Reject, checkRequestOpt, Requesting, Phases
  <2> QED
    BY <1>2, <2>1, <2>2
<1>9. ASSUME NEW c \in Calls,
             \/ Arrives(c) \/ SubTimeout(c) \/ SubscriptionTimeout(c)
             \/ Timeout(c) \/ Store(c) \/ Serve(c)
      PROVE  UNCHANGED <<phase, sent>>
  BY <1>9 DEF Arrives, SubTimeout, SubscriptionTimeout, Timeout, Store, Serve, messageVars
<1>10. UNCHANGED vars \/ Connection => UNCHANGED <<phase, sent>>
  BY DEF Connection, vars, messageVars
<1> QED
  BY <1>3, <1>4, <1>5, <1>6, <1>7, <1>8, <1>9, <1>10 DEF Next, Step

\* What was an answer stays one: executions are added, and core stays core.
LEMMA AnswerStays ==
  ASSUME NEW c, NEW v, AnswerFor(c, v), UNCHANGED configVars,
         Range(served[c]) \subseteq Range(served'[c]),
         sent[c] = "core" => sent'[c] = "core"
  PROVE  \/ \E r \in Range(served'[c]) : v \in Means(r)
         \/ sent'[c] = "core" /\ v = <<"garbage">>
         \/ sent'[c] = "core" /\ c \in Async /\ v = <<"message", NoFields>>
BY DEF AnswerFor

\* What a step reports: nothing, a timeout or an error, or an answer.
Speaks ==
  \/ reports' = reports
  \/ \E c \in Calls, v \in {<<"timeout">>, <<"error">>} : Report(c, v)
  \/ \E c \in Calls : \E v :
       /\ Report(c, v) /\ served' = served /\ sent' = sent
       /\ v[1] \in Kinds /\ AnswerFor(c, v)

\* What comes over core NATS is the answer of a handler, the garbage of a
\* PubAck or, for call, the Response a status decodes to.
LEMMA CoreAnswers ==
  ASSUME Encoded, Served, Core, NEW c \in Calls, sent[c] = "core",
         NEW payload \in {Payload(r) : r \in Range(served[c])} \cup {NoData, PubAckData},
         payload = NoData => c \in Async,
         NEW v \in decode(encodeType, ResponseFields, payload), v # Throws
  PROVE  v[1] \in Kinds /\ AnswerFor(c, v)
<1>1. encodeType = "protobuf"
  BY DEF Core
<1>2. ASSUME NEW r \in Range(served[c]), payload = Payload(r)
      PROVE  v \in Means(r)
  <2>1. r \in ResultsOf[c] /\ served[c] # <<>>
    BY RangeOfSeq DEF Served, Range
  <2> QED
    BY <1>2, <2>1, AnswerMeans DEF Served
<1>3. CASE payload = NoData
  BY <1>1, <1>3, NoDataDecodes DEF AnswerFor, Kinds
<1>4. CASE payload = PubAckData
  BY <1>1, <1>4, PubAckDecodes DEF AnswerFor, Kinds
<1> QED
  BY <1>2, <1>3, <1>4, MeansKind DEF AnswerFor

LEMMA StreamAnswers ==
  ASSUME Encoded, Served, NEW c \in Calls, NEW r \in Range(served[c]),
         NEW v \in decode(encodeType, ResponseFields, Payload(r)), v # Throws
  PROVE  v[1] \in Kinds /\ AnswerFor(c, v)
<1>1. r \in ResultsOf[c] /\ served[c] # <<>>
  BY RangeOfSeq DEF Served, Range
<1>2. v \in Means(r)
  BY <1>1, AnswerMeans DEF Served
<1> QED
  BY <1>2, MeansKind DEF AnswerFor

LEMMA NextSpeaks ==
  ASSUME Encoded, Served, Core, [Next]_vars
  PROVE  Speaks
<1>1. ASSUME NEW c \in Calls, CallCore(c) \/ CallSyncCore(c) \/ Reject(c)
      PROVE  Speaks
  BY <1>1 DEF CallCore, CallSyncCore, Reject, Speaks
<1>2. ASSUME NEW c \in Calls, OnMessage(c)
      PROVE  Speaks
  <2>1. PICK payload \in {Payload(r) : r \in Range(served[c])} \cup {NoData, PubAckData} :
          Deliver(c, payload)
    BY <1>2 DEF OnMessage
  <2>2. CASE reports' = reports
    BY <2>2 DEF Speaks
  <2>3. ASSUME NEW v \in decode(encodeType, ResponseFields, payload), v # Throws, Report(c, v)
        PROVE  Speaks
    <3>1. sent[c] = "core" /\ c \in Async /\ served' = served /\ sent' = sent
      BY <1>2 DEF OnMessage, messageVars
    <3>2. v[1] \in Kinds /\ AnswerFor(c, v)
      BY <2>3, <3>1, CoreAnswers
    <3> QED
      BY <2>3, <3>1, <3>2 DEF Speaks
  <2> QED
    BY <2>1, <2>2, <2>3 DEF Deliver
<1>3. ASSUME NEW c \in Calls, Resolve(c)
      PROVE  Speaks
  <2>1. PICK payload \in {Payload(r) : r \in Range(served[c])} \cup {PubAckData} :
          \E v \in decode(encodeType, ResponseFields, payload) \ {Throws} : Report(c, v)
    BY <1>3 DEF Resolve
  <2>2. PICK v \in decode(encodeType, ResponseFields, payload) \ {Throws} : Report(c, v)
    BY <2>1
  <2>3. sent[c] = "core" /\ served' = served /\ sent' = sent
    BY <1>3 DEF Resolve, messageVars
  <2>4. CASE payload = NoData /\ c \notin Async
    <3>1. PICK r \in Range(served[c]) : payload = Payload(r)
      BY <2>1, <2>4 DEF NoData, PubAckData
    <3>2. v[1] \in Kinds /\ AnswerFor(c, v)
      BY <2>2, <3>1, StreamAnswers
    <3> QED
      BY <2>2, <2>3, <3>2 DEF Speaks
  <2>5. CASE payload = NoData => c \in Async
    <3>1. v[1] \in Kinds /\ AnswerFor(c, v)
      BY <2>2, <2>3, <2>5, CoreAnswers
    <3> QED
      BY <2>2, <2>3, <3>1 DEF Speaks
  <2> QED
    BY <2>4, <2>5
<1>4. ASSUME NEW c \in Calls, Receive(c)
      PROVE  Speaks
  <2>1. PICK r \in Range(served[c]) :
          \E v \in decode(encodeType, ResponseFields, Payload(r)) \ {Throws} : Report(c, v)
    BY <1>4 DEF Receive
  <2>2. PICK v \in decode(encodeType, ResponseFields, Payload(r)) \ {Throws} : Report(c, v)
    BY <2>1
  <2>3. v[1] \in Kinds /\ AnswerFor(c, v) /\ served' = served /\ sent' = sent
    BY <1>4, <2>2, StreamAnswers DEF Receive, messageVars
  <2> QED
    BY <2>2, <2>3 DEF Speaks
<1>5. ASSUME NEW c \in Calls,
             _requestThrows(c) \/ PublishFails(c) \/ ReceiveFails(c) \/ Timeout(c)
      PROVE  Speaks
  BY <1>5 DEF _requestThrows, PublishFails, ReceiveFails, Timeout, Fail, Speaks
<1>6. ASSUME NEW c \in Calls,
             \/ CallStream(c) \/ _request(c) \/ PubAck(c) \/ Arrives(c)
             \/ SubTimeout(c) \/ SubscriptionTimeout(c) \/ Store(c) \/ Serve(c)
             \/ \E r \in {"found", "missing"} : checkRequestOpt(c, r)
      PROVE  reports' = reports
  BY <1>6 DEF CallStream, _request, PubAck, Arrives, SubTimeout, SubscriptionTimeout,
     Store, Serve, checkRequestOpt, resultVars
<1>7. ASSUME NEW n \in Notifies, Notify(n)
      PROVE  reports' = reports
  BY <1>7 DEF Notify, resultVars
<1>8. UNCHANGED vars \/ Connection => reports' = reports
  BY DEF Connection, vars, resultVars
<1>9. reports' = reports => Speaks
  BY DEF Speaks
<1> QED
  BY <1>1, <1>2, <1>3, <1>4, <1>5, <1>6, <1>7, <1>8, <1>9 DEF Next, Step

LEMMA ReportedStep ==
  ASSUME Encoded, Inv, Served, Core, Reported, [Next]_vars
  PROVE  Reported'
<1>1. /\ UNCHANGED configVars
      /\ \A c \in Calls : Range(served[c]) \subseteq Range(served'[c])
      /\ \A c \in Calls : sent[c] = "core" => sent'[c] = "core"
  BY ConfigStays, ServedStep, CoreStep
<1> DEFINE Fine(c, v) ==
      /\ v[1] \in Kinds
      /\ Told(v) => \/ \E r \in Range(served'[c]) : v \in Means(r)
                    \/ sent'[c] = "core" /\ v = <<"garbage">>
                    \/ sent'[c] = "core" /\ c \in Async /\ v = <<"message", NoFields>>
<1>2. \A r : Means(r)' = Means(r)
  BY <1>1 DEF configVars, Means, Payload
<1>3. (\A c \in Calls : \A i \in 1 .. Len(reports'[c]) : Fine(c, reports'[c][i])) => Reported'
  BY <1>2 DEF Reported, AnswerFor, Told
<1>4. ASSUME NEW c \in Calls, NEW i \in 1 .. Len(reports[c])
      PROVE  Fine(c, reports[c][i])
  BY <1>1, AnswerStays DEF Reported
<1>5. CASE reports' = reports
  BY <1>3, <1>4, <1>5
<1>6. ASSUME NEW c \in Calls, NEW v, Report(c, v), Fine(c, v)
      PROVE  Reported'
  <2>1. /\ \A d \in Calls : d # c => reports'[d] = reports[d]
        /\ Len(reports[c]) \in Nat
        /\ Len(reports'[c]) = Len(reports[c]) + 1
        /\ \A i \in 1 .. Len(reports[c]) : reports'[c][i] = reports[c][i]
        /\ reports'[c][Len(reports[c]) + 1] = v
    BY <1>6, ReportAppends DEF Inv
  <2> HIDE DEF Fine
  <2>2. ASSUME NEW i \in 1 .. Len(reports'[c])
        PROVE  Fine(c, reports'[c][i])
    <3>1. i \in 1 .. Len(reports[c]) \/ i = Len(reports[c]) + 1
      BY <2>1
    <3> QED
      BY <1>4, <1>6, <2>1, <3>1
  <2>3. \A d \in Calls : \A i \in 1 .. Len(reports'[d]) : Fine(d, reports'[d][i])
    BY <1>4, <2>1, <2>2
  <2> QED
    BY <1>3, <2>3
<1>7. ASSUME NEW c \in Calls, NEW v \in {<<"timeout">>, <<"error">>}, Report(c, v)
      PROVE  Reported'
  <2>1. Fine(c, v)
    BY DEF Told, Kinds
  <2> QED
    BY <1>6, <1>7, <2>1
<1>8. ASSUME NEW c \in Calls, NEW v, Report(c, v), served' = served, sent' = sent,
             v[1] \in Kinds, AnswerFor(c, v)
      PROVE  Reported'
  <2>1. Fine(c, v)
    BY <1>1, <1>8, AnswerStays
  <2> QED
    BY <1>6, <1>8, <2>1
<1> QED
  BY <1>5, <1>7, <1>8, NextSpeaks DEF Speaks

LEMMA AnswerInit == Init => AnswerInv
<1> SUFFICES ASSUME Init PROVE AnswerInv
  OBVIOUS
<1>1. Encoded
  <2>1. PICK pair \in Encodings : encodeType = pair[1] /\ peerType = pair[2]
    BY DEF Init
  <2>2. pair \in EncodeTypes \X EncodeTypes
    BY JsClientAssumption DEF JsClientAssumption
  <2> QED
    BY <2>1, <2>2 DEF Encoded
<1>2. Served
  <2>1. \A c \in Calls : served[c] = <<>>
    BY DEF Init
  <2>2. \A c \in Calls : <<>> \in Seq(ResultsOf[c]) /\ Len(<<>>) <= MaxServed
    BY EmptySeq, JsClientAssumption DEF JsClientAssumption
  <2> QED
    BY <2>1, <2>2 DEF Init, Served
<1>3. Core
  BY DEF Init, Core
<1>4. Reported
  <2>1. \A c \in Calls : Len(reports[c]) = 0
    BY DEF Init
  <2> QED
    BY <2>1 DEF Reported
<1> QED
  BY <1>1, <1>2, <1>3, <1>4 DEF AnswerInv

LEMMA AnswerStep == Inv /\ AnswerInv /\ [Next]_vars => AnswerInv'
<1> SUFFICES ASSUME Inv, AnswerInv, [Next]_vars PROVE AnswerInv'
  OBVIOUS
<1>1. Encoded'
  BY ConfigStays DEF AnswerInv, Encoded, configVars
<1> QED
  BY <1>1, ServedStep, CoreStep, ReportedStep DEF AnswerInv

\* With any pair of encodings, any executions and any reply in any order, a
\* call through a stream is told what a handler returned for its own message; a
\* call of core NATS may be told a Response out of an empty status, or the
\* garbage of a PubAck (js/nrpc/nrpc_client.js call, callSync, _request).
THEOREM AnswersAreHandlers == Spec => []AnswerIsHandlers
<1>1. Inv /\ AnswerInv => AnswerIsHandlers
  <2> SUFFICES ASSUME Inv, AnswerInv, NEW c \in Calls, NEW i \in DOMAIN reports[c],
                      Told(reports[c][i])
               PROVE  AnswerFor(c, reports[c][i])
    BY DEF AnswerIsHandlers, AnswerFor
  <2>1. PICK S : reports[c] \in Seq(S)
    BY DEF Inv, Shapes
  <2>2. i \in 1 .. Len(reports[c])
    BY <2>1, LenProperties
  <2> QED
    BY <2>2 DEF AnswerInv, Reported
<1> QED
  BY <1>1, InvInit, InvStep, AnswerInit, AnswerStep, PTL DEF Spec

-----------------------------------------------------------------------------
(* Types *)

OfCalls ==
  /\ timer \subseteq Calls
  /\ msgId \subseteq Calls
  /\ stored \subseteq Calls
  /\ unhandled \subseteq Calls

LEMMA OfCallsStep ==
  ASSUME OfCalls, [Next]_vars
  PROVE  OfCalls'
<1>1. ASSUME NEW c \in Calls, timer' \subseteq timer \cup {c},
             msgId' \subseteq msgId \cup {c}, stored' \subseteq stored \cup {c},
             unhandled' \subseteq unhandled \cup {c}
      PROVE  OfCalls'
  BY <1>1 DEF OfCalls
<1>2. CASE UNCHANGED <<timer, msgId, stored, unhandled>>
  BY <1>2 DEF OfCalls
<1>3. ASSUME NEW c \in Calls,
             \/ CallCore(c) \/ CallSyncCore(c) \/ CallStream(c) \/ OnMessage(c)
             \/ Resolve(c) \/ Arrives(c) \/ Store(c) \/ Serve(c)
      PROVE  OfCalls'
  BY <1>1, <1>3 DEF CallCore, CallSyncCore, CallStream, OnMessage, Resolve, Arrives,
     Store, Serve, Deliver, clearTimeout, replyVars, messageVars, resultVars
<1>4. ASSUME NEW c \in Calls, Step(c)
      PROVE  OfCalls'
  BY <1>1, <1>4 DEF Step, checkRequestOpt, _request, _requestThrows, PubAck, PublishFails,
     SubTimeout, Receive, ReceiveFails, Reject, SubscriptionTimeout, Timeout, Fail,
     clearTimeout, replyVars, messageVars, resultVars
<1>5. ASSUME NEW n \in Notifies, Notify(n)
      PROVE  OfCalls'
  BY <1>2, <1>5 DEF Notify, replyVars, resultVars
<1>6. UNCHANGED vars \/ Connection => OfCalls'
  BY <1>2 DEF vars, Connection, replyVars, messageVars, resultVars
<1> QED
  BY <1>3, <1>4, <1>5, <1>6 DEF Next

LEMMA NatsTypesStep ==
  ASSUME JsNatsClientTypeOK, [Next]_vars
  PROVE  JsNatsClientTypeOK'
<1>1. CASE UNCHANGED natsVars
  BY <1>1 DEF JsNatsClientTypeOK, natsVars
<1>2. CASE Connection
  BY <1>2 DEF Connection, ConnectStep, connect, connectFails, jetstreamManager,
     jetstreamManagerFails, Disconnect, Reconnect, disconnect, Closed, JsNatsClientTypeOK
<1>3. [Next]_vars => UNCHANGED natsVars \/ Connection
  BY DEF Next, Step, vars, envVars, CallCore, CallSyncCore, CallStream, OnMessage, Resolve,
     Arrives, Store, Serve, Notify, checkRequestOpt, _request, _requestThrows, PubAck,
     PublishFails, SubTimeout, Receive, ReceiveFails, Reject, SubscriptionTimeout, Timeout
<1> QED
  BY <1>1, <1>2, <1>3

\* In every step of a call, of the connection and of the broker the variables
\* keep their types (js/nrpc/nrpc_client.js).
THEOREM TypesAreKept == Spec => []TypeOK
<1> DEFINE Typed == Inv /\ AnswerInv /\ QosInv /\ OfCalls /\ JsNatsClientTypeOK
<1>1. Init => Typed
  <2> SUFFICES ASSUME Init PROVE Typed
    OBVIOUS
  <2>1. OfCalls
    BY DEF Init, OfCalls
  <2>2. JsNatsClientTypeOK
    BY DEF Init, JsNatsClientInit, JsNatsClientTypeOK
  <2> QED
    BY <2>1, <2>2, InvInit, AnswerInit, QosInit
<1>2. Typed /\ [Next]_vars => Typed'
  BY InvStep, AnswerStep, QosStep, OfCallsStep, NatsTypesStep
<1>3. Typed => TypeOK
  <2> SUFFICES ASSUME Typed PROVE TypeOK
    OBVIOUS
  <2>1. ASSUME NEW c \in Calls
        PROVE  /\ Len(served[c]) <= MaxServed /\ Range(served[c]) \subseteq ResultsOf[c]
               /\ \A i \in DOMAIN reports[c] : reports[c][i][1] \in Kinds
    <3>1. served[c] \in Seq(ResultsOf[c]) /\ Len(served[c]) <= MaxServed
      BY DEF AnswerInv, Served
    <3>2. PICK S : reports[c] \in Seq(S)
      BY DEF Inv, Shapes
    <3>3. DOMAIN reports[c] = 1 .. Len(reports[c])
      BY <3>2, LenProperties
    <3> QED
      BY <3>1, <3>3, RangeOfSeq DEF AnswerInv, Reported
  <2>2. <<encodeType, peerType>> \in Encodings
    BY DEF AnswerInv, Encoded
  <2>3. /\ phase \in [Calls \cup Notifies ->
             {"idle", "lookup", "found", "missing", "publish", "wait", "done", "failed"}]
        /\ sub \in [Calls ->
             {"none", "open", "closed", "iterated", "message", "timeout", "ended"}]
        /\ sent \in [Calls \cup Notifies -> {"no", "core", "stream"}]
        /\ qos \in [Opts -> 0 .. 2]
        /\ lookups \in [Opts -> SUBSET {"found", "missing"}]
    BY DEF Inv, Shapes, QosInv, Phases
  <2> QED
    BY <2>1, <2>2, <2>3 DEF OfCalls, TypeOK
<1> QED
  BY <1>1, <1>2, <1>3, PTL DEF Spec

=============================================================================
