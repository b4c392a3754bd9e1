------------------------------ MODULE WorkMsg ------------------------------
(***************************************************************************)
(* The Go service side of a stream, go/nrpc/nrpc_server.go: Register,      *)
(* UnRegister and WorkMsg.Process for one service.                         *)
(*                                                                         *)
(* The service names no work queue: Process runs in the goroutine of the   *)
(* subscription, so a subscription has one message in Process at a time,   *)
(* and inbox is what it still holds.  UnRegister does not wait for that    *)
(* goroutine: after the next Register two of them may be in Process.       *)
(* A message can be delivered again while an earlier delivery waits, hence *)
(* a bag; its order is left out, no property here depends on it.           *)
(***************************************************************************)
EXTENDS Naturals, Messages

CONSTANTS
  Subs,        \* subscriptions whose goroutines may be alive together
  NoSub,       \* the service is not registered
  NoMsg,       \* a subscription is not in Process
  Unencodable  \* messages whose Response does not Marshal

ASSUME WorkMsgAssumption == NoMsg \notin Msgs /\ NoSub \notin Subs

VARIABLES
  up,       \* the process of the service runs
  sub,      \* the subscription in serviceSubs
  owner,    \* this subscription created the durable consumer
  inbox,    \* deliveries waiting for Process
  current,  \* the message a subscription has in Process
  step,     \* where that Process stands
  execs     \* times the handler has run for a message

workVars == <<up, sub, owner, inbox, current, step, execs>>

Steps == {"idle", "handler", "respond", "reply"}

WorkMsgTypeOK ==
  /\ up \in BOOLEAN
  /\ sub \in Subs \cup {NoSub}
  /\ owner \in BOOLEAN
  /\ inbox \in [Msgs -> Nat]
  /\ current \in [Subs -> Msgs \cup {NoMsg}]
  /\ step \in [Subs -> Steps]
  /\ execs \in [Msgs -> Nat]
  /\ \A s \in Subs : current[s] = NoMsg <=> step[s] = "idle"

NoDeliveries == [m \in Msgs |-> 0]

NoProcess == [s \in Subs |-> NoMsg]
AllIdle == [s \in Subs |-> "idle"]

WorkMsgInit ==
  /\ up = FALSE
  /\ sub = NoSub
  /\ owner = FALSE
  /\ inbox = NoDeliveries
  /\ current = NoProcess
  /\ step = AllIdle
  /\ execs = [m \in Msgs |-> 0]

-----------------------------------------------------------------------------

Start ==
  /\ ~up
  /\ up' = TRUE
  /\ UNCHANGED <<sub, owner, inbox, current, step, execs>>

\* The process dies: a panic of a handler or of ParseRequest, or a kill.
Crash ==
  /\ up
  /\ up' = FALSE
  /\ sub' = NoSub
  /\ owner' = FALSE
  /\ inbox' = NoDeliveries
  /\ current' = NoProcess
  /\ step' = AllIdle
  /\ UNCHANGED execs

\* Register subscribes with BindStream and Durable: the consumer is created
\* unless it is there.
Subscribed(s, exists) ==
  /\ up
  /\ sub = NoSub
  /\ step[s] = "idle"
  /\ sub' = s
  /\ owner' = ~exists
  /\ UNCHANGED <<up, inbox, current, step, execs>>

\* UnRegister: Unsubscribe discards what the subscription still holds; a
\* message that is in Process goes on.
Unsubscribed ==
  /\ sub # NoSub
  /\ sub' = NoSub
  /\ owner' = FALSE
  /\ inbox' = NoDeliveries
  /\ UNCHANGED <<up, current, step, execs>>

Arrives(m) ==
  /\ sub # NoSub
  /\ inbox' = [inbox EXCEPT ![m] = @ + 1]
  /\ UNCHANGED <<up, sub, owner, current, step, execs>>

-----------------------------------------------------------------------------
(* Process, in the goroutine of subscription s *)

GoOn(s, p) == step' = [step EXCEPT ![s] = p]

\* Mutant: the message of the last Process stays behind.
EndProcessKeepsMsg(s) == GoOn(s, "idle") /\ UNCHANGED current

EndProcess(s) ==
  /\ current' = [current EXCEPT ![s] = NoMsg]
  /\ GoOn(s, "idle")

\* Mutants: the delivery stays in the inbox; the handler is not called.
BeginKeepsDelivery(s, m) ==
  /\ sub = s
  /\ step[s] = "idle"
  /\ inbox[m] > 0
  /\ current' = [current EXCEPT ![s] = m]
  /\ GoOn(s, "handler")
  /\ UNCHANGED <<up, sub, owner, inbox, execs>>

BeginSkipsHandler(s, m) ==
  /\ sub = s
  /\ step[s] = "idle"
  /\ inbox[m] > 0
  /\ inbox' = [inbox EXCEPT ![m] = @ - 1]
  /\ current' = [current EXCEPT ![s] = m]
  /\ GoOn(s, "respond")
  /\ UNCHANGED <<up, sub, owner, execs>>

Begin(s, m) ==
  /\ sub = s
  /\ step[s] = "idle"
  /\ inbox[m] > 0
  /\ inbox' = [inbox EXCEPT ![m] = @ - 1]
  /\ current' = [current EXCEPT ![s] = m]
  /\ GoOn(s, "handler")
  /\ UNCHANGED <<up, sub, owner, execs>>

Handle(s) ==
  /\ step[s] = "handler"
  /\ execs' = [execs EXCEPT ![current[s]] = @ + 1]
  /\ GoOn(s, "respond")
  /\ UNCHANGED <<up, sub, owner, inbox, current>>

\* Mutant: the ExpectedStream header is not looked at.
RejectedUnencodable(s, expected) == current[s] \in Unencodable

\* The handler has run before Process looks at what it was handed: a response
\* that does not encode, or a message that was not published for this stream,
\* is terminated.
Rejected(s, expected) == current[s] \in Unencodable \/ ~expected

Terminate(s, expected) ==
  /\ step[s] = "respond"
  /\ Rejected(s, expected)
  /\ EndProcess(s)
  /\ UNCHANGED <<up, sub, owner, inbox, execs>>

Acknowledge(s, expected) ==
  /\ step[s] = "respond"
  /\ ~Rejected(s, expected)
  /\ GoOn(s, "reply")
  /\ UNCHANGED <<up, sub, owner, inbox, current, execs>>

Reply(s) ==
  /\ step[s] = "reply"
  /\ EndProcess(s)
  /\ UNCHANGED <<up, sub, owner, inbox, execs>>

=============================================================================
