----------------------------- MODULE WorkQueue -----------------------------
(***************************************************************************)
(* The work queue of the Go service, go/nrpc/nrpc_server.go: services that *)
(* name the same work queue share it, so that their messages are processed *)
(* one after the other.  The goroutine of each subscription hands what it  *)
(* receives to AddMsg, one dispatcher goroutine processes, and Stop may be *)
(* called, several times, by other goroutines.                             *)
(*                                                                         *)
(* Process is one step from "taken" to "finished": WorkMsg says what it    *)
(* does.  But a handler may call a service of its own queue and wait for   *)
(* the answer, or the timeout of the call.                                 *)
(*                                                                         *)
(* Times are Go Durations, 64-bit integers scaled down so that a second is *)
(* Second and the integers are -Half .. Half - 1.                          *)
(***************************************************************************)
EXTENDS Integers, Sequences, Functions

CONSTANTS
  Services,  \* subscriptions that share the queue
  Incoming,  \* the messages each of them receives, in order
  Nested,    \* messages a handler sends to a service of the queue
  CallerOf,  \* the message whose handler sends each of them
  CalledOf,  \* the service it is sent to
  Capacity,  \* maxMsg of NewWorkQueue
  Stoppers,  \* goroutines that call Stop, once each
  OptionOf,  \* the WorkQueueStopOption each of them passes
  NoMsg,
  Second,
  Half,
  Lifetime   \* bound: no timer longer than this elapses while the program runs

Received == UNION {Range(Incoming[p]) : p \in Services}

Msgs == Received \cup Nested

Dispatcher == "dispatcher"

\* Each delivery is a message of its own: a redelivery is another one.
ASSUME WorkQueueAssumption ==
  /\ Capacity \in Nat \ {0}
  /\ Incoming \in [Services -> Seq(Msgs)]
  /\ \A p, q \in Services :
       \A i \in 1 .. Len(Incoming[p]), j \in 1 .. Len(Incoming[q]) :
         Incoming[p][i] = Incoming[q][j] => p = q /\ i = j
  /\ Nested \cap Received = {}
  /\ CallerOf \in [Nested -> Received]
  /\ CalledOf \in [Nested -> Services]
  /\ OptionOf \in [Stoppers -> [safe : BOOLEAN, time : Nat]]
  /\ NoMsg \notin Msgs
  /\ Dispatcher \notin Stoppers
  /\ {Second, Half, Lifetime} \subseteq Nat \ {0}

VARIABLES
  todo,         \* messages a subscription has still to handle
  adding,       \* the message a subscription is adding, blocked or not
  workMsgChan,
  closeChan,    \* "open" or "closed"
  dispatcher,   \* "none", "select", "process", "stopped"
  stopper,      \* "idle", "select", "process", "returned"
  processing,   \* the message the dispatcher or a stopper has in Process
  calls,        \* what became of the call of a handler
  panicked,     \* close of a closed channel: the program is gone
  accepted,     \* history: messages AddMsg has put into the channel
  started,      \* history: messages taken from the channel to be processed
  finished      \* messages whose Process has returned

vars == <<todo, adding, workMsgChan, closeChan, dispatcher, stopper,
          processing, calls, panicked, accepted, started, finished>>

Workers == Stoppers \cup {Dispatcher}

TypeOK ==
  /\ todo \in [Services -> Seq(Msgs)]
  /\ adding \in [Services -> Msgs \cup {NoMsg}]
  /\ workMsgChan \in Seq(Msgs)
  /\ Len(workMsgChan) <= Capacity
  /\ closeChan \in {"open", "closed"}
  /\ dispatcher \in {"none", "select", "process", "stopped"}
  /\ stopper \in [Stoppers -> {"idle", "select", "process", "returned"}]
  /\ processing \in [Workers -> Msgs \cup {NoMsg}]
  /\ calls \in [Nested -> {"none", "waiting", "answered", "timeout"}]
  /\ panicked \in BOOLEAN
  /\ accepted \in Seq(Msgs)
  /\ started \in Seq(Msgs)
  /\ finished \subseteq Msgs
  /\ dispatcher = "process" <=> processing[Dispatcher] # NoMsg
  /\ \A s \in Stoppers : stopper[s] = "process" <=> processing[s] # NoMsg

Init ==
  /\ todo = Incoming
  /\ adding = [p \in Services |-> NoMsg]
  /\ workMsgChan = <<>>
  /\ closeChan = "open"
  /\ dispatcher = "none"
  /\ stopper = [s \in Stoppers |-> "idle"]
  /\ processing = [w \in Workers |-> NoMsg]
  /\ calls = [n \in Nested |-> "none"]
  /\ panicked = FALSE
  /\ accepted = <<>>
  /\ started = <<>>
  /\ finished = {}

-----------------------------------------------------------------------------
(* The handler Register subscribes with *)

\* Mutant: each message has a goroutine of its own that adds it.
ReceiveAny(p) ==
  /\ ~panicked
  /\ adding[p] = NoMsg
  /\ \E i \in 1 .. Len(todo[p]) :
       /\ adding' = [adding EXCEPT ![p] = todo[p][i]]
       /\ todo' = [todo EXCEPT
            ![p] = SubSeq(@, 1, i - 1) \o SubSeq(@, i + 1, Len(@))]
  /\ dispatcher' = IF dispatcher = "none" THEN "select" ELSE dispatcher
  /\ UNCHANGED <<calls, workMsgChan, closeChan, stopper, processing, panicked,
                 accepted, started, finished>>

\* workQueue(name): the first message creates the queue and its dispatcher,
\* under workLock.
Receive(p) ==
  /\ ~panicked
  /\ adding[p] = NoMsg
  /\ todo[p] # <<>>
  /\ adding' = [adding EXCEPT ![p] = Head(todo[p])]
  /\ todo' = [todo EXCEPT ![p] = Tail(@)]
  /\ dispatcher' = IF dispatcher = "none" THEN "select" ELSE dispatcher
  /\ UNCHANGED <<calls, workMsgChan, closeChan, stopper, processing, panicked,
                 accepted, started, finished>>

\* Mutants: the channel grows; a message that finds it full is dropped.
AddMsgGrows(p) ==
  /\ ~panicked
  /\ adding[p] # NoMsg
  /\ workMsgChan' = Append(workMsgChan, adding[p])
  /\ accepted' = Append(accepted, adding[p])
  /\ adding' = [adding EXCEPT ![p] = NoMsg]
  /\ UNCHANGED <<calls, todo, closeChan, dispatcher, stopper, processing, panicked,
                 started, finished>>

AddMsgDrops(p) ==
  /\ ~panicked
  /\ adding[p] # NoMsg
  /\ workMsgChan' = IF Len(workMsgChan) < Capacity
                    THEN Append(workMsgChan, adding[p])
                    ELSE workMsgChan
  /\ accepted' = Append(accepted, adding[p])
  /\ adding' = [adding EXCEPT ![p] = NoMsg]
  /\ UNCHANGED <<calls, todo, closeChan, dispatcher, stopper, processing, panicked,
                 started, finished>>

\* The send blocks while the channel is full.
AddMsg(p) ==
  /\ ~panicked
  /\ adding[p] # NoMsg
  /\ Len(workMsgChan) < Capacity
  /\ workMsgChan' = Append(workMsgChan, adding[p])
  /\ accepted' = Append(accepted, adding[p])
  /\ adding' = [adding EXCEPT ![p] = NoMsg]
  /\ UNCHANGED <<calls, todo, closeChan, dispatcher, stopper, processing, panicked,
                 started, finished>>

-----------------------------------------------------------------------------
(* Dispatch and Stop receive from the same channel *)

\* Mutant: the message is read and left in the channel.
TakePeeks(w) ==
  /\ ~panicked
  /\ workMsgChan # <<>>
  /\ processing' = [processing EXCEPT ![w] = Head(workMsgChan)]
  /\ started' = Append(started, Head(workMsgChan))
  /\ UNCHANGED <<calls, todo, adding, workMsgChan, closeChan, panicked, accepted,
                 finished>>

Take(w) ==
  /\ ~panicked
  /\ workMsgChan # <<>>
  /\ processing' = [processing EXCEPT ![w] = Head(workMsgChan)]
  /\ started' = Append(started, Head(workMsgChan))
  /\ workMsgChan' = Tail(workMsgChan)
  /\ UNCHANGED <<calls, todo, adding, closeChan, panicked, accepted, finished>>

\* Process returns when its handler has; the handler waits for its call.
Processed(w) ==
  /\ ~panicked
  /\ \A n \in Nested : CallerOf[n] = processing[w] => calls[n] # "waiting"
  /\ finished' = finished \cup {processing[w]}
  /\ processing' = [processing EXCEPT ![w] = NoMsg]
  /\ UNCHANGED <<calls, todo, adding, workMsgChan, closeChan, panicked, accepted,
                 started>>

\* Mutant: each message is processed in a goroutine of its own.
DispatchTakesOn ==
  /\ dispatcher # "none"
  /\ Take(Dispatcher)
  /\ dispatcher' = "process"
  /\ UNCHANGED stopper

DispatchTake ==
  /\ dispatcher = "select"
  /\ Take(Dispatcher)
  /\ dispatcher' = "process"
  /\ UNCHANGED stopper

\* Mutant: the dispatcher processes one message, without its loop.
DispatchProcessedOnce ==
  /\ dispatcher = "process"
  /\ Processed(Dispatcher)
  /\ dispatcher' = "stopped"
  /\ UNCHANGED stopper

DispatchProcessed ==
  /\ dispatcher = "process"
  /\ Processed(Dispatcher)
  /\ dispatcher' = "select"
  /\ UNCHANGED stopper

\* Of two ready cases select takes either, so the dispatcher may go on for a
\* while after the close.
DispatchClosed ==
  /\ ~panicked
  /\ dispatcher = "select"
  /\ closeChan = "closed"
  /\ dispatcher' = "stopped"
  /\ UNCHANGED <<calls, todo, adding, workMsgChan, closeChan, stopper, processing,
                 panicked, accepted, started, finished>>

-----------------------------------------------------------------------------
(* Calls of handlers *)

Calling(n, from, to) ==
  /\ ~panicked
  /\ calls[n] = from
  /\ calls' = [calls EXCEPT ![n] = to]
  /\ UNCHANGED <<adding, workMsgChan, closeChan, dispatcher, stopper, processing,
                 panicked, accepted, started, finished>>

\* The message comes back to a subscription of the queue the handler runs in.
Call(w, n) ==
  /\ processing[w] = CallerOf[n]
  /\ Calling(n, "none", "waiting")
  /\ todo' = [todo EXCEPT ![CalledOf[n]] = Append(@, n)]

CallAnswered(n) ==
  /\ n \in finished
  /\ Calling(n, "waiting", "answered")
  /\ UNCHANGED todo

\* Mutant: the call has no timeout.
CallWaits(n) == FALSE /\ UNCHANGED vars

CallTimeout(n) ==
  /\ Calling(n, "waiting", "timeout")
  /\ UNCHANGED todo

CallReturns(n) == CallAnswered(n) \/ CallTimeout(n)

-----------------------------------------------------------------------------

WorkQueueStopDefaultOption == [safe |-> TRUE, time |-> 3 * Second]

\* Two's complement of the width of a Duration.
Int64(n) == ((n + Half) % (2 * Half)) - Half

\* opts.time * time.Second, where opts.time is a Duration already.
StopWait(s) == Int64(OptionOf[s].time * Second)

\* Stop finds a queue to stop.
StopSafe(s) ==
  /\ ~panicked
  /\ dispatcher # "none"
  /\ stopper[s] = "idle"
  /\ OptionOf[s].safe
  /\ stopper' = [stopper EXCEPT ![s] = "select"]
  /\ UNCHANGED <<calls, todo, adding, workMsgChan, closeChan, dispatcher, processing,
                 panicked, accepted, started, finished>>

\* Mutant: a safe Stop closes the channel as well.
StopAlwaysCloses(s) ==
  /\ ~panicked
  /\ dispatcher # "none"
  /\ stopper[s] = "idle"
  /\ closeChan' = "closed"
  /\ panicked' = (closeChan = "closed")
  /\ stopper' = [stopper EXCEPT ![s] = "returned"]
  /\ UNCHANGED <<calls, todo, adding, workMsgChan, dispatcher, processing, accepted,
                 started, finished>>

StopClose(s) ==
  /\ ~panicked
  /\ dispatcher # "none"
  /\ stopper[s] = "idle"
  /\ ~OptionOf[s].safe
  /\ closeChan' = "closed"
  /\ panicked' = (closeChan = "closed")
  /\ stopper' = [stopper EXCEPT ![s] = "returned"]
  /\ UNCHANGED <<calls, todo, adding, workMsgChan, dispatcher, processing, accepted,
                 started, finished>>

StopTake(s) ==
  /\ stopper[s] = "select"
  /\ Take(s)
  /\ stopper' = [stopper EXCEPT ![s] = "process"]
  /\ UNCHANGED dispatcher

StopProcessed(s) ==
  /\ stopper[s] = "process"
  /\ Processed(s)
  /\ stopper' = [stopper EXCEPT ![s] = "select"]
  /\ UNCHANGED dispatcher

\* A wait that is not positive is over at once; a positive one starts again
\* with each select and ends only when nothing came.
WaitOver(s) ==
  \/ StopWait(s) <= 0
  \/ StopWait(s) <= Lifetime /\ workMsgChan = <<>>

StopTimeout(s) ==
  /\ ~panicked
  /\ stopper[s] = "select"
  /\ WaitOver(s)
  /\ stopper' = [stopper EXCEPT ![s] = "returned"]
  /\ UNCHANGED <<calls, todo, adding, workMsgChan, closeChan, dispatcher, processing,
                 panicked, accepted, started, finished>>

Subscription(p) == Receive(p) \/ AddMsg(p)

Dispatch == DispatchTake \/ DispatchProcessed \/ DispatchClosed

Stop(s) ==
  \/ StopSafe(s)
  \/ StopClose(s)
  \/ StopTake(s)
  \/ StopProcessed(s)
  \/ StopTimeout(s)

Next ==
  \/ \E p \in Services : Subscription(p)
  \/ Dispatch
  \/ \E s \in Stoppers : Stop(s)
  \/ \E n \in Nested : CallReturns(n) \/ \E w \in Workers : Call(w, n)

Spec == Init /\ [][Next]_vars

\* Goroutines are scheduled, a handler returns and its call does.  Nobody has
\* to call Stop; a goroutine in the safe loop goes on with it.
StopGoesOn(s) == StopTake(s) \/ StopProcessed(s) \/ StopTimeout(s)

Fairness ==
  /\ \A p \in Services : WF_vars(Receive(p)) /\ SF_vars(AddMsg(p))
  /\ WF_vars(Dispatch)
  /\ \A s \in Stoppers : WF_vars(StopGoesOn(s))
  /\ \A n \in Nested : WF_vars(CallReturns(n))

FairSpec == Spec /\ Fairness

-----------------------------------------------------------------------------
(* Properties *)

\* Dispatch and any number of concurrent Stops take from the channel what
\* AddMsg put there: every message once, in the order it was accepted.
Fifo == accepted = started \o workMsgChan

\* Messages of one service start in the order it received them.
ServiceOrder ==
  \A p \in Services : \A i, j \in 1 .. Len(Incoming[p]) :
    \A k \in 1 .. Len(started) :
      i < j /\ started[k] = Incoming[p][j] =>
        \E l \in 1 .. k : started[l] = Incoming[p][i]

\* Nothing is forgotten: a message that was taken is in Process of somebody
\* until it is finished, and is finished by one worker only.
InProcess ==
  /\ \A w, v \in Workers : w # v /\ processing[w] # NoMsg =>
       processing[w] # processing[v]
  /\ Range(started) = finished \cup ({processing[w] : w \in Workers} \ {NoMsg})
  /\ \A w \in Workers : processing[w] \notin finished

\* Only a second unsafe Stop panics (close of closeChan).
PanicOnSecondClose ==
  panicked =>
    \E s, t \in Stoppers :
      /\ s # t
      /\ \A u \in {s, t} : stopper[u] = "returned" /\ ~OptionOf[u].safe

\* A handler that calls a service of its own queue holds up the dispatcher, the
\* only one to process the call: it is answered only when a safe Stop works
\* beside the dispatcher, and times out otherwise.
NestedCallNeedsStop ==
  \A n \in Nested : calls[n] = "answered" =>
    \E s \in Stoppers : OptionOf[s].safe /\ stopper[s] # "idle"

\* A subscription waits in AddMsg for ever only behind a closed queue.
AddMsgReturns ==
  \A p \in Services :
    adding[p] # NoMsg ~> adding[p] = NoMsg \/ closeChan = "closed"

\* A message that was received is processed unless the queue is closed: a
\* safe Stop, even one that has returned, takes nothing away, and a handler that
\* waits for its own queue does not wait for ever.
MessagesProcessed ==
  \A m \in Msgs :
    m \in Range(accepted) ~> m \in finished \/ closeChan = "closed"

-----------------------------------------------------------------------------
(* What a comment says of the program and the code does not keep *)

\* A safe Stop returns after the time of its option.
StopReturns ==
  \A s \in Stoppers : stopper[s] = "select" ~> stopper[s] = "returned"

=============================================================================
