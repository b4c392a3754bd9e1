---------------------------- MODULE JsWorkQueue ----------------------------
(***************************************************************************)
(* The work queue of the JavaScript service, js/nrpc/nrpc_server.js: an    *)
(* array and an interval timer that takes one message from it each time it *)
(* expires.  JavaScript runs one callback at a time, so a callback is an   *)
(* action, and what is interleaved is their order.                         *)
(*                                                                         *)
(* Process of a message is part of the callback that took it: processed    *)
(* remembers it.  A message of Faulty makes it throw (an answer that is no *)
(* Response, a request that does not decode), which nobody catches.  What  *)
(* it sends on a closed connection, or late in draining, throws or is a    *)
(* rejection nobody has.                                                   *)
(***************************************************************************)
EXTENDS Naturals, Sequences, FiniteSets, Functions, JsNatsClient

CONSTANTS
  WorkMsgs,  \* messages that may be added
  Faulty,    \* those whose process throws
  MaxTimers, \* bound: timers that may be started, numbered from 1
  MaxStops   \* bound: safe stops of the queue

ASSUME JsWorkQueueAssumption ==
  /\ Faulty \subseteq WorkMsgs
  /\ MaxTimers \in Nat
  /\ MaxStops \in Nat

Timers == 1 .. MaxTimers
NoTimer == 0

VARIABLES
  queue,      \* this.queue
  interval,   \* this.interval
  timers,     \* timers that run: every setInterval not yet cleared
  started,    \* timers ever started
  listening,  \* the dispatch event has a listener
  crashed,    \* an exception reached the top of a callback
  added,      \* history: messages in the order they were added
  processed,  \* history: messages in the order they were processed
  cleared,    \* history: messages clearMsg threw away
  stops       \* history: safe stops

queueVars == <<queue, interval, timers, started, listening, crashed, added,
               processed, cleared, stops>>

JsWorkQueueTypeOK ==
  /\ queue \in Seq(WorkMsgs)
  /\ interval \in 0 .. started
  /\ timers \subseteq 1 .. started
  /\ started \in 0 .. MaxTimers
  /\ listening \in BOOLEAN
  /\ crashed \in BOOLEAN
  /\ added \in Seq(WorkMsgs)
  /\ processed \in Seq(WorkMsgs)
  /\ cleared \subseteq WorkMsgs
  /\ stops \in 0 .. MaxStops

JsWorkQueueInit ==
  /\ queue = <<>>
  /\ interval = NoTimer
  /\ timers = {}
  /\ started = 0
  /\ listening = TRUE
  /\ crashed = FALSE
  /\ added = <<>>
  /\ processed = <<>>
  /\ cleared = {}
  /\ stops = 0

-----------------------------------------------------------------------------

\* setInterval, unless this.interval is set.
dispatch ==
  IF interval # NoTimer
  THEN UNCHANGED <<interval, timers, started>>
  ELSE /\ started < MaxTimers
       /\ started' = started + 1
       /\ interval' = started'
       /\ timers' = timers \cup {started'}

\* emit calls the listener before it returns; destroy removes it.
addMsg(m) ==
  /\ ~crashed
  /\ queue' = Append(queue, m)
  /\ added' = Append(added, m)
  /\ IF listening THEN dispatch ELSE UNCHANGED <<interval, timers, started>>
  /\ UNCHANGED <<listening, crashed, processed, cleared, stops>>

\* What the process of a message may end with.
MayReturn(m) == m \notin Faulty
MayThrow(m) == m \in Faulty \/ conn \in {"draining", "closed"}

Process(m) ==
  /\ processed' = Append(processed, m)
  /\ \/ MayReturn(m) /\ crashed' = FALSE
     \/ MayThrow(m) /\ crashed' = TRUE

\* Mutants: the message stays in the array; the last one is taken.
ExpirePeeks(t) ==
  /\ ~crashed
  /\ t \in timers
  /\ queue # <<>>
  /\ Process(Head(queue))
  /\ UNCHANGED <<queue, interval, timers, started, listening, added, cleared, stops>>

ExpirePops(t) ==
  /\ ~crashed
  /\ t \in timers
  /\ queue # <<>>
  /\ Process(queue[Len(queue)])
  /\ queue' = SubSeq(queue, 1, Len(queue) - 1)
  /\ UNCHANGED <<interval, timers, started, listening, added, cleared, stops>>

Expire(t) ==
  /\ ~crashed
  /\ t \in timers
  /\ queue # <<>>
  /\ Process(Head(queue))
  /\ queue' = Tail(queue)
  /\ UNCHANGED <<interval, timers, started, listening, added, cleared, stops>>

\* Mutant: the timer is cleared, but not forgotten.
ExpireEmptyKeepsInterval(t) ==
  /\ ~crashed
  /\ t \in timers
  /\ queue = <<>>
  /\ timers' = timers \ {t}
  /\ UNCHANGED <<queue, interval, started, listening, crashed, added, processed,
                 cleared, stops>>

\* An empty array: clearInterval(this.interval) runs in a function of its
\* own, whose this is the timer and has no interval.  The timer runs on.
ExpireEmpty(t) ==
  /\ ~crashed
  /\ t \in timers
  /\ queue = <<>>
  /\ interval' = NoTimer
  /\ UNCHANGED <<queue, timers, started, listening, crashed, added, processed,
                 cleared, stops>>

clearMsg ==
  /\ ~crashed
  /\ queue' = <<>>
  /\ cleared' = cleared \cup Range(queue)
  /\ UNCHANGED <<interval, timers, started, listening, crashed, added, processed,
                 stops>>

ClearInterval ==
  /\ timers' = timers \ {interval}
  /\ interval' = NoTimer

\* A safe stop processes every message, up to one whose process throws, and
\* leaves it in the array.  Its time limit is set by a timer, which cannot
\* expire before forEach is done.
ForEach ==
  \E n \in 0 .. Len(queue) :
    /\ \A i \in 1 .. n - 1 : MayReturn(queue[i])
    /\ processed' = processed \o SubSeq(queue, 1, n)
    /\ \/ n = Len(queue) /\ (n > 0 => MayReturn(queue[n])) /\ crashed' = FALSE
       \/ n > 0 /\ MayThrow(queue[n]) /\ crashed' = TRUE

stopSafe ==
  /\ ~crashed
  /\ stops < MaxStops
  /\ ClearInterval
  /\ ForEach
  /\ stops' = stops + 1
  /\ UNCHANGED <<queue, started, listening, added, cleared>>

stopUnsafe ==
  /\ ~crashed
  /\ ClearInterval
  /\ UNCHANGED <<queue, started, listening, crashed, added, processed, cleared, stops>>

\* destroy removes the listener; stop then rejects its plain object, with an
\* exception for the caller, before it clears the interval.
destroy ==
  /\ ~crashed
  /\ listening' = FALSE
  /\ UNCHANGED <<queue, interval, timers, started, crashed, added, processed,
                 cleared, stops>>

QueueStep ==
  \/ \E t \in Timers : Expire(t) \/ ExpireEmpty(t)
  \/ clearMsg
  \/ stopSafe
  \/ stopUnsafe
  \/ destroy

=============================================================================
