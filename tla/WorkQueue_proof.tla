--------------------------- MODULE WorkQueue_proof ---------------------------
(***************************************************************************)
(* Proofs about WorkQueue, for any number of services, messages, Stops and *)
(* any capacity: types are kept, what is taken from the channel is what was *)
(* put there, in that order, and is in Process of one worker until it is    *)
(* finished; messages of a service start in the order it received them;     *)
(* only a second close panics; and a handler that calls its own queue is    *)
(* answered only beside a safe Stop.                                        *)
(***************************************************************************)
EXTENDS WorkQueue, SequenceTheorems, TLAPS

LEMMA TypeInit == Init => TypeOK
<1> SUFFICES ASSUME Init PROVE TypeOK
  OBVIOUS
<1>1. /\ workMsgChan = <<>> /\ accepted = <<>> /\ started = <<>>
      /\ <<>> \in Seq(Msgs) /\ Len(<<>>) = 0
  BY DEF Init
<1>2. Len(workMsgChan) <= Capacity
  BY <1>1, WorkQueueAssumption DEF WorkQueueAssumption
<1> QED
  BY <1>1, <1>2, WorkQueueAssumption DEF WorkQueueAssumption, Init, TypeOK, Workers

\* A subscription hands over what it received.
LEMMA SubscriptionType ==
  ASSUME TypeOK, NEW p \in Services, Subscription(p)
  PROVE  TypeOK'
<1>1. CASE Receive(p)
  <2>1. todo[p] \in Seq(Msgs) /\ todo[p] # <<>>
    BY <1>1 DEF Receive, TypeOK
  <2>2. Head(todo[p]) \in Msgs /\ Tail(todo[p]) \in Seq(Msgs)
    BY <2>1, HeadTailProperties
  <2> QED
    BY <1>1, <2>2 DEF Receive, TypeOK
<1>2. CASE AddMsg(p)
  <2>1. adding[p] \in Msgs
    BY <1>2 DEF AddMsg, TypeOK
  <2>2. workMsgChan \in Seq(Msgs) /\ accepted \in Seq(Msgs)
    BY DEF TypeOK
  <2>3. /\ workMsgChan' \in Seq(Msgs) /\ accepted' \in Seq(Msgs)
        /\ Len(workMsgChan') = Len(workMsgChan) + 1
    BY <1>2, <2>1, <2>2, AppendProperties DEF AddMsg
  <2>4. Len(workMsgChan') <= Capacity
    BY <1>2, <2>2, <2>3, LenProperties, WorkQueueAssumption
       DEF AddMsg, WorkQueueAssumption
  <2> QED
    BY <1>2, <2>3, <2>4 DEF AddMsg, TypeOK
<1> QED
  BY <1>1, <1>2 DEF Subscription

\* Taking a message and finishing it keep the types of what they touch.
LEMMA TakeType ==
  ASSUME TypeOK, NEW w \in Workers, Take(w)
  PROVE  /\ workMsgChan' \in Seq(Msgs) /\ Len(workMsgChan') <= Capacity
         /\ started' \in Seq(Msgs)
         /\ processing' \in [Workers -> Msgs \cup {NoMsg}]
<1>1. workMsgChan \in Seq(Msgs) /\ workMsgChan # <<>>
  BY DEF TypeOK, Take
<1>2. /\ Head(workMsgChan) \in Msgs /\ Tail(workMsgChan) \in Seq(Msgs)
      /\ Len(Tail(workMsgChan)) = Len(workMsgChan) - 1
  BY <1>1, HeadTailProperties
<1>3. Len(workMsgChan') <= Capacity
  BY <1>1, <1>2, LenProperties, WorkQueueAssumption
     DEF TypeOK, Take, WorkQueueAssumption
<1> QED
  BY <1>2, <1>3, AppendProperties DEF TypeOK, Take

LEMMA ProcessedType ==
  ASSUME TypeOK, NEW w \in Workers, Processed(w), processing[w] # NoMsg
  PROVE  /\ finished' \subseteq Msgs
         /\ processing' \in [Workers -> Msgs \cup {NoMsg}]
BY DEF TypeOK, Processed

LEMMA DispatchType ==
  ASSUME TypeOK, Dispatch
  PROVE  TypeOK'
<1> USE WorkQueueAssumption DEF WorkQueueAssumption, Workers
<1>1. CASE DispatchTake
  <2>1. Take(Dispatcher) /\ dispatcher' = "process" /\ stopper' = stopper
    BY <1>1 DEF DispatchTake
  <2>2. /\ processing'[Dispatcher] \in Msgs
        /\ \A s \in Stoppers : processing'[s] = processing[s]
    BY <2>1, HeadTailProperties DEF Take, TypeOK
  <2>3. \A m \in Msgs : m # NoMsg
    OBVIOUS
  <2> QED
    BY <2>1, <2>2, <2>3, TakeType DEF Take, TypeOK
<1>2. CASE DispatchProcessed
  <2>1. /\ Processed(Dispatcher) /\ dispatcher' = "select" /\ stopper' = stopper
        /\ processing[Dispatcher] # NoMsg
    BY <1>2 DEF DispatchProcessed, TypeOK
  <2>2. /\ processing'[Dispatcher] = NoMsg
        /\ \A s \in Stoppers : processing'[s] = processing[s]
    BY <2>1 DEF Processed, TypeOK
  <2> QED
    BY <2>1, <2>2, ProcessedType DEF Processed, TypeOK
<1>3. CASE DispatchClosed
  BY <1>3 DEF DispatchClosed, TypeOK
<1> QED
  BY <1>1, <1>2, <1>3 DEF Dispatch

LEMMA StopType ==
  ASSUME TypeOK, NEW s \in Stoppers, Stop(s)
  PROVE  TypeOK'
<1> USE WorkQueueAssumption DEF WorkQueueAssumption, Workers
<1>1. CASE StopSafe(s) \/ StopTimeout(s)
  BY <1>1 DEF StopSafe, StopTimeout, TypeOK
<1>2. CASE StopClose(s)
  BY <1>2 DEF StopClose, TypeOK
<1>3. CASE StopTake(s)
  <2>1. /\ Take(s) /\ dispatcher' = dispatcher
        /\ stopper' = [stopper EXCEPT ![s] = "process"]
    BY <1>3 DEF StopTake
  <2>2. /\ processing'[s] \in Msgs
        /\ \A w \in Workers : w # s => processing'[w] = processing[w]
    BY <2>1, HeadTailProperties DEF Take, TypeOK
  <2>3. \A m \in Msgs : m # NoMsg
    OBVIOUS
  <2> QED
    BY <2>1, <2>2, <2>3, TakeType DEF Take, TypeOK
<1>4. CASE StopProcessed(s)
  <2>1. /\ Processed(s) /\ dispatcher' = dispatcher /\ processing[s] # NoMsg
        /\ stopper' = [stopper EXCEPT ![s] = "select"]
    BY <1>4 DEF StopProcessed, TypeOK
  <2>2. /\ processing'[s] = NoMsg
        /\ \A w \in Workers : w # s => processing'[w] = processing[w]
    BY <2>1 DEF Processed, TypeOK
  <2> QED
    BY <2>1, <2>2, ProcessedType DEF Processed, TypeOK
<1> QED
  BY <1>1, <1>2, <1>3, <1>4 DEF Stop

LEMMA CallType ==
  ASSUME TypeOK, NEW n \in Nested, CallReturns(n) \/ \E w \in Workers : Call(w, n)
  PROVE  TypeOK'
<1>1. n \in Msgs
  BY DEF Msgs
<1>2. CASE CallReturns(n)
  BY <1>2 DEF CallReturns, CallAnswered, CallTimeout, Calling, TypeOK
<1>3. CASE \E w \in Workers : Call(w, n)
  <2>1. todo' = [todo EXCEPT ![CalledOf[n]] = Append(@, n)] /\ Calling(n, "none", "waiting")
    BY <1>3 DEF Call
  <2>2. CalledOf[n] \in Services
    BY WorkQueueAssumption DEF WorkQueueAssumption
  <2>3. Append(todo[CalledOf[n]], n) \in Seq(Msgs)
    BY <1>1, <2>2, AppendProperties DEF TypeOK
  <2>4. todo' \in [Services -> Seq(Msgs)]
    BY <2>1, <2>2, <2>3 DEF TypeOK
  <2> QED
    BY <2>1, <2>4 DEF Calling, TypeOK
<1> QED
  BY <1>2, <1>3

\* Every variable of the queue keeps its type, and a worker is in Process
\* exactly when it holds a message.
THEOREM TypeCorrect == Spec => []TypeOK
<1>1. TypeOK /\ [Next]_vars => TypeOK'
  <2> SUFFICES ASSUME TypeOK, [Next]_vars PROVE TypeOK'
    OBVIOUS
  <2>1. CASE UNCHANGED vars
    BY <2>1 DEF vars, TypeOK
  <2> QED
    BY <2>1, SubscriptionType, DispatchType, StopType, CallType DEF Next
<1> QED
  BY <1>1, TypeInit, PTL DEF Spec

-----------------------------------------------------------------------------
(* First in, first out *)

\* Putting at the end and taking from the front leave what was put equal to
\* what was taken followed by what is there.
LEMMA PutAtEnd ==
  \A s, t \in Seq(Msgs) : \A e \in Msgs : Append(s \o t, e) = s \o Append(t, e)
<1> TAKE s, t \in Seq(Msgs)
<1> TAKE e \in Msgs
<1>1. s \o t \in Seq(Msgs) /\ <<e>> \in Seq(Msgs)
  BY ConcatProperties
<1>2. Append(s \o t, e) = (s \o t) \o <<e>> /\ Append(t, e) = t \o <<e>>
  BY <1>1, AppendIsConcat
<1> QED
  BY <1>1, <1>2, ConcatAssociative

LEMMA TakeFromFront ==
  ASSUME NEW S, NEW s \in Seq(S), NEW t \in Seq(S), t # <<>>
  PROVE  Append(s, Head(t)) \o Tail(t) = s \o t
<1>1. Head(t) \in S /\ Tail(t) \in Seq(S) /\ <<Head(t)>> \in Seq(S)
  BY HeadTailProperties
<1>2. Append(s, Head(t)) = s \o <<Head(t)>>
  BY <1>1, AppendIsConcat
<1>3. <<Head(t)>> \o Tail(t) = t
  OBVIOUS
<1> QED
  BY <1>1, <1>2, <1>3, ConcatAssociative

\* Whoever takes a message takes the oldest, Dispatch or any Stop.
LEMMA TakeKeepsOrder ==
  ASSUME TypeOK, Fifo, NEW w, Take(w)
  PROVE  Fifo'
<1>1. /\ started \in Seq(Msgs) /\ workMsgChan \in Seq(Msgs) /\ workMsgChan # <<>>
  BY DEF TypeOK, Take
<1>2. Append(started, Head(workMsgChan)) \o Tail(workMsgChan) = started \o workMsgChan
  BY <1>1, TakeFromFront
<1> QED
  BY <1>2 DEF Fifo, Take

LEMMA FifoStep == TypeOK /\ Fifo /\ [Next]_vars => Fifo'
<1> SUFFICES ASSUME TypeOK, Fifo, [Next]_vars PROVE Fifo'
  OBVIOUS
<1>1. CASE \E p \in Services : AddMsg(p)
  <2>1. PICK p \in Services : AddMsg(p)
    BY <1>1
  <2>2. /\ adding[p] \in Msgs /\ started \in Seq(Msgs) /\ workMsgChan \in Seq(Msgs)
    BY <2>1 DEF AddMsg, TypeOK
  <2>3. Append(started \o workMsgChan, adding[p])
          = started \o Append(workMsgChan, adding[p])
    BY <2>2, PutAtEnd, Zenon
  <2> QED
    BY <2>1, <2>3 DEF Fifo, AddMsg
<1>2. CASE DispatchTake \/ \E s \in Stoppers : StopTake(s)
  BY <1>2, TakeKeepsOrder DEF DispatchTake, StopTake
<1>3. CASE UNCHANGED <<accepted, started, workMsgChan>>
  BY <1>3 DEF Fifo
<1> QED
  BY <1>1, <1>2, <1>3
     DEF Next, Subscription, Receive, Dispatch, DispatchProcessed,
         DispatchClosed, Stop, StopSafe, StopClose, StopProcessed, StopTimeout,
         Processed, CallReturns, CallAnswered, CallTimeout, Call, Calling, vars

\* However many Stops receive from the channel next to the dispatcher, nothing
\* is lost, taken twice or taken out of order.
THEOREM QueueIsFifo == Spec => []Fifo
<1>1. Init => Fifo
  BY ConcatEmptySeq, EmptySeq DEF Init, Fifo
<1> QED
  BY <1>1, FifoStep, TypeCorrect, PTL DEF Spec

-----------------------------------------------------------------------------
(* Stops *)

\* Only a safe Stop goes through the loop, a closed channel has been closed by
\* an unsafe Stop that has returned, and a panic needs a second one.
StopsInv ==
  /\ \A s \in Stoppers : stopper[s] \in {"select", "process"} => OptionOf[s].safe
  /\ closeChan = "closed" =>
       \E s \in Stoppers : stopper[s] = "returned" /\ ~OptionOf[s].safe
  /\ PanicOnSecondClose

LEMMA StopsInvStep == TypeOK /\ StopsInv /\ [Next]_vars => StopsInv'
<1> SUFFICES ASSUME TypeOK, StopsInv, [Next]_vars PROVE StopsInv'
  OBVIOUS
<1> USE DEF StopsInv, PanicOnSecondClose
<1>1. CASE UNCHANGED <<stopper, closeChan, panicked>>
  BY <1>1
<1>2. CASE \E s \in Stoppers : StopClose(s)
  <2>1. PICK s \in Stoppers : StopClose(s)
    BY <1>2
  <2>2. /\ ~OptionOf[s].safe /\ stopper[s] = "idle" /\ stopper'[s] = "returned"
        /\ \A t \in Stoppers : t # s => stopper'[t] = stopper[t]
    BY <2>1 DEF StopClose, TypeOK
  <2>3. ASSUME panicked'
        PROVE  \E t \in Stoppers : t # s /\ stopper[t] = "returned" /\ ~OptionOf[t].safe
    BY <2>1, <2>2, <2>3 DEF StopClose
  <2> QED
    BY <2>2, <2>3
<1>3. CASE \E s \in Stoppers : StopSafe(s) \/ StopTake(s) \/ StopProcessed(s) \/ StopTimeout(s)
  <2>1. PICK s \in Stoppers :
          StopSafe(s) \/ StopTake(s) \/ StopProcessed(s) \/ StopTimeout(s)
    BY <1>3
  <2>2. /\ OptionOf[s].safe
        /\ \A t \in Stoppers : t # s => stopper'[t] = stopper[t]
        /\ closeChan' = closeChan /\ ~panicked'
    BY <2>1 DEF StopSafe, StopTake, StopProcessed, StopTimeout, Take, Processed, TypeOK
  <2> QED
    BY <2>2
<1> QED
  BY <1>1, <1>2, <1>3
     DEF Next, Subscription, Receive, AddMsg, Dispatch, DispatchTake,
         DispatchProcessed, DispatchClosed, Stop, Take, Processed, CallReturns,
         CallAnswered, CallTimeout, Call, Calling, vars

LEMMA StopsInvariant == Spec => []StopsInv
<1>1. Init => StopsInv
  BY DEF Init, StopsInv, PanicOnSecondClose
<1> QED
  BY <1>1, StopsInvStep, TypeCorrect, PTL DEF Spec

\* Any number of safe Stops and one unsafe Stop do no harm: only the second
\* unsafe one panics, whatever the program has in its queue.
THEOREM OnlySecondClosePanics == Spec => []PanicOnSecondClose
<1>1. StopsInv => PanicOnSecondClose
  BY DEF StopsInv
<1> QED
  BY <1>1, StopsInvariant, PTL

-----------------------------------------------------------------------------
(* Calls of handlers *)

SafeStopBegan == \E s \in Stoppers : OptionOf[s].safe /\ stopper[s] # "idle"

\* A message that has not been sent is nowhere.
Unsent(n) ==
  /\ \A p \in Services : n \notin Range(todo[p]) /\ adding[p] # n
  /\ n \notin Range(workMsgChan)
  /\ \A w \in Workers : processing[w] # n
  /\ n \notin finished

\* While a handler waits and no safe Stop has begun, the dispatcher is the one
\* that waits, and nobody has processed the message.
CallInv ==
  \A n \in Nested :
    /\ calls[n] = "none" => Unsent(n)
    /\ calls[n] = "waiting" /\ ~SafeStopBegan =>
         processing[Dispatcher] = CallerOf[n] /\ n \notin finished
    /\ calls[n] = "answered" => SafeStopBegan

LEMMA RangeOfAppend ==
  ASSUME NEW S, NEW s \in Seq(S), NEW e \in S
  PROVE  Range(Append(s, e)) = Range(s) \cup {e}
<1>1. /\ DOMAIN s = 1 .. Len(s) /\ DOMAIN Append(s, e) = 1 .. (Len(s) + 1)
      /\ \A i \in 1 .. Len(s) : Append(s, e)[i] = s[i]
      /\ Append(s, e)[Len(s) + 1] = e /\ Len(s) \in Nat
  BY AppendProperties, LenProperties
<1> QED
  BY <1>1 DEF Range

LEMMA RangeOfTail ==
  ASSUME NEW S, NEW s \in Seq(S), s # <<>>
  PROVE  Range(Tail(s)) \subseteq Range(s) /\ Head(s) \in Range(s)
<1>1. /\ Len(s) \in Nat /\ Len(s) # 0 /\ DOMAIN s = 1 .. Len(s)
      /\ Head(s) = s[1]
      /\ DOMAIN Tail(s) = 1 .. (Len(s) - 1)
      /\ \A i \in 1 .. (Len(s) - 1) : Tail(s)[i] = s[i + 1]
  BY HeadTailProperties, LenProperties, EmptySeq
<1> QED
  BY <1>1 DEF Range

\* No Stop goes back to where it has not begun.
LEMMA SafeStopStays ==
  ASSUME TypeOK, [Next]_vars, SafeStopBegan
  PROVE  SafeStopBegan'
<1>1. PICK s \in Stoppers : OptionOf[s].safe /\ stopper[s] # "idle"
  BY DEF SafeStopBegan
<1>2. stopper'[s] # "idle"
  BY <1>1
     DEF Next, Subscription, Receive, AddMsg, Dispatch, DispatchTake,
         DispatchProcessed, DispatchClosed, Stop, StopSafe, StopClose, StopTake,
         StopProcessed, StopTimeout, CallReturns, CallAnswered, CallTimeout, Call,
         Calling, vars, TypeOK
<1> QED
  BY <1>1, <1>2 DEF SafeStopBegan

\* A worker that holds a message is the dispatcher, or a safe Stop has begun.
LEMMA WhoProcesses ==
  ASSUME TypeOK, StopsInv, NEW w \in Workers, processing[w] # NoMsg, ~SafeStopBegan
  PROVE  w = Dispatcher
BY DEF TypeOK, StopsInv, SafeStopBegan, Workers

\* A subscription moves a message on, and none that has not been sent.
LEMMA SubscriptionCalls ==
  ASSUME TypeOK, CallInv, NEW p \in Services, Subscription(p),
         SafeStopBegan => SafeStopBegan'
  PROVE  CallInv'
<1> SUFFICES ASSUME NEW n \in Nested, calls[n] = "none", Unsent(n)
             PROVE  Unsent(n)'
  BY DEF CallInv, Subscription, Receive, AddMsg
<1>1. CASE Receive(p)
  <2>1. /\ todo[p] \in Seq(Msgs) /\ todo[p] # <<>>
        /\ adding' = [adding EXCEPT ![p] = Head(todo[p])]
        /\ todo' = [todo EXCEPT ![p] = Tail(@)]
    BY <1>1 DEF Receive, TypeOK
  <2>2. Range(Tail(todo[p])) \subseteq Range(todo[p]) /\ Head(todo[p]) \in Range(todo[p])
    BY <2>1, RangeOfTail
  <2>3. /\ \A q \in Services : n \notin Range(todo'[q])
        /\ \A q \in Services : adding'[q] # n
    BY <2>1, <2>2 DEF Unsent, TypeOK
  <2> QED
    BY <1>1, <2>3 DEF Receive, Unsent
<1>2. CASE AddMsg(p)
  <2>1. /\ adding[p] \in Msgs /\ adding[p] # n /\ workMsgChan \in Seq(Msgs)
        /\ workMsgChan' = Append(workMsgChan, adding[p])
        /\ adding' = [adding EXCEPT ![p] = NoMsg]
    BY <1>2 DEF AddMsg, TypeOK, Unsent
  <2>2. n \notin Range(workMsgChan')
    BY <2>1, RangeOfAppend DEF Unsent
  <2>3. n # NoMsg
    BY WorkQueueAssumption DEF WorkQueueAssumption, Msgs
  <2> QED
    BY <1>2, <2>1, <2>2, <2>3 DEF AddMsg, Unsent, TypeOK
<1> QED
  BY <1>1, <1>2 DEF Subscription

\* Before a safe Stop, the dispatcher that waits takes nothing.
LEMMA TakeCalls ==
  ASSUME TypeOK, StopsInv, CallInv, NEW w \in Workers, Take(w),
         processing[w] = NoMsg, ~SafeStopBegan => w = Dispatcher,
         SafeStopBegan => SafeStopBegan', UNCHANGED calls
  PROVE  CallInv'
<1> SUFFICES ASSUME NEW n \in Nested
             PROVE  /\ calls[n] = "none" => Unsent(n)'
                    /\ calls[n] = "waiting" => SafeStopBegan
  BY DEF CallInv
<1>1. ASSUME calls[n] = "none" PROVE Unsent(n)'
  <2>1. Unsent(n) /\ workMsgChan \in Seq(Msgs) /\ workMsgChan # <<>>
    BY <1>1 DEF CallInv, Take, TypeOK
  <2>2. n \notin Range(Tail(workMsgChan)) /\ Head(workMsgChan) # n
    BY <2>1, RangeOfTail DEF Unsent
  <2> QED
    BY <2>1, <2>2 DEF Take, Unsent, TypeOK
<1>2. ASSUME calls[n] = "waiting", ~SafeStopBegan PROVE FALSE
  <2>1. processing[Dispatcher] = CallerOf[n] /\ CallerOf[n] \in Msgs
    BY <1>2, WorkQueueAssumption DEF CallInv, WorkQueueAssumption, Msgs
  <2> QED
    BY <1>2, <2>1, WorkQueueAssumption DEF WorkQueueAssumption
<1> QED
  BY <1>1, <1>2

\* Process returns only when no call of its handler waits.
LEMMA ProcessedCalls ==
  ASSUME TypeOK, StopsInv, CallInv, NEW w \in Workers, Processed(w),
         processing[w] # NoMsg, SafeStopBegan => SafeStopBegan', UNCHANGED calls
  PROVE  CallInv'
<1> SUFFICES ASSUME NEW n \in Nested
             PROVE  /\ calls[n] = "none" => Unsent(n)'
                    /\ calls[n] = "waiting" => SafeStopBegan
  BY DEF CallInv
<1>1. ASSUME calls[n] = "none" PROVE Unsent(n)'
  <2>1. Unsent(n) /\ n # NoMsg
    BY <1>1, WorkQueueAssumption DEF CallInv, WorkQueueAssumption, Msgs
  <2> QED
    BY <2>1 DEF Processed, Unsent, TypeOK
<1>2. ASSUME calls[n] = "waiting", ~SafeStopBegan PROVE FALSE
  BY <1>2, WhoProcesses DEF CallInv, Processed
<1> QED
  BY <1>1, <1>2

\* The message of a call goes to a subscription, unprocessed.
LEMMA CallCalls ==
  ASSUME TypeOK, StopsInv, CallInv, NEW m \in Nested, NEW w \in Workers, Call(w, m)
  PROVE  CallInv'
<1>0. /\ CallerOf[m] \in Received /\ CallerOf[m] # NoMsg
      /\ CalledOf[m] \in Services /\ m \in Msgs
  BY WorkQueueAssumption DEF WorkQueueAssumption, Msgs
<1>1. /\ calls[m] = "none" /\ calls' = [calls EXCEPT ![m] = "waiting"]
      /\ processing[w] = CallerOf[m]
      /\ todo' = [todo EXCEPT ![CalledOf[m]] = Append(@, m)]
      /\ UNCHANGED <<adding, workMsgChan, stopper, processing, finished>>
  BY DEF Call, Calling
<1>2. SafeStopBegan' <=> SafeStopBegan
  BY <1>1 DEF SafeStopBegan
<1>3. ~SafeStopBegan => w = Dispatcher
  BY <1>0, <1>1, WhoProcesses
<1>4. \A p \in Services : Range(todo'[p]) \subseteq Range(todo[p]) \cup {m}
  <2>1. todo[CalledOf[m]] \in Seq(Msgs)
    BY <1>0 DEF TypeOK
  <2>2. Range(Append(todo[CalledOf[m]], m)) = Range(todo[CalledOf[m]]) \cup {m}
    BY <1>0, <2>1, RangeOfAppend
  <2> QED
    BY <1>1, <2>1, <2>2 DEF TypeOK
<1>5. ASSUME NEW n \in Nested, n # m
      PROVE  /\ calls'[n] = calls[n]
             /\ Unsent(n) => Unsent(n)'
  BY <1>1, <1>4, <1>5 DEF Unsent, TypeOK
<1>6. /\ calls'[m] = "waiting" /\ m \notin finished'
      /\ ~SafeStopBegan' => processing'[Dispatcher] = CallerOf[m]
  BY <1>1, <1>2, <1>3 DEF CallInv, Unsent, TypeOK
<1> QED
  BY <1>1, <1>2, <1>5, <1>6 DEF CallInv

\* A call that is answered has been processed while its handler waited.
LEMMA CallReturnsCalls ==
  ASSUME TypeOK, CallInv, NEW m \in Nested, CallReturns(m)
  PROVE  CallInv'
<1>1. /\ calls[m] = "waiting" /\ calls'[m] \in {"answered", "timeout"}
      /\ calls'[m] = "answered" => m \in finished
      /\ \A n \in Nested : n # m => calls'[n] = calls[n]
      /\ UNCHANGED <<todo, adding, workMsgChan, stopper, processing, finished>>
  BY DEF CallReturns, CallAnswered, CallTimeout, Calling, TypeOK
<1>2. SafeStopBegan' <=> SafeStopBegan
  BY <1>1 DEF SafeStopBegan
<1>3. \A n \in Nested : Unsent(n)' <=> Unsent(n)
  BY <1>1 DEF Unsent
<1> QED
  BY <1>1, <1>2, <1>3 DEF CallInv

LEMMA CallInvStep == TypeOK /\ StopsInv /\ CallInv /\ [Next]_vars => CallInv'
<1> SUFFICES ASSUME TypeOK, StopsInv, CallInv, [Next]_vars PROVE CallInv'
  OBVIOUS
<1>1. SafeStopBegan => SafeStopBegan'
  BY SafeStopStays
<1>2. CASE \E p \in Services : Subscription(p)
  BY <1>1, <1>2, SubscriptionCalls
<1>3. CASE DispatchTake
  <2>1. /\ Take(Dispatcher) /\ processing[Dispatcher] = NoMsg /\ calls' = calls
        /\ Dispatcher \in Workers
    BY <1>3 DEF DispatchTake, Take, TypeOK, Workers
  <2> QED
    BY <1>1, <2>1, TakeCalls
<1>4. CASE \E s \in Stoppers : StopTake(s)
  <2>1. PICK s \in Stoppers : StopTake(s)
    BY <1>4
  <2>2. /\ Take(s) /\ processing[s] = NoMsg /\ calls' = calls /\ s \in Workers
        /\ SafeStopBegan
    BY <2>1 DEF StopTake, Take, TypeOK, Workers, StopsInv, SafeStopBegan
  <2> QED
    BY <1>1, <2>2, TakeCalls
<1>5. CASE DispatchProcessed \/ \E s \in Stoppers : StopProcessed(s)
  <2>1. PICK w \in Workers : Processed(w) /\ processing[w] # NoMsg /\ calls' = calls
    BY <1>5 DEF DispatchProcessed, StopProcessed, Processed, TypeOK, Workers
  <2> QED
    BY <1>1, <2>1, ProcessedCalls
<1>6. CASE \E n \in Nested : CallReturns(n)
  BY <1>6, CallReturnsCalls
<1>7. CASE \E n \in Nested : \E w \in Workers : Call(w, n)
  BY <1>7, CallCalls
<1>8. CASE UNCHANGED <<todo, adding, workMsgChan, processing, finished, calls>>
  <2>1. \A n \in Nested : Unsent(n)' <=> Unsent(n)
    BY <1>8 DEF Unsent
  <2> QED
    BY <1>1, <1>8, <2>1 DEF CallInv
<1> QED
  BY <1>2, <1>3, <1>4, <1>5, <1>6, <1>7, <1>8
     DEF Next, Dispatch, DispatchClosed, Stop, StopSafe, StopClose, StopTimeout, vars

\* A handler that calls a service of its own work queue is answered only when a
\* safe Stop processes beside the dispatcher; it waits for its timeout otherwise.
THEOREM NestedCallNeedsAStop == Spec => []NestedCallNeedsStop
<1>1. Init => CallInv
  <2> SUFFICES ASSUME Init, NEW n \in Nested PROVE Unsent(n)
    BY DEF Init, CallInv
  <2>1. n \notin Received /\ n # NoMsg
    BY WorkQueueAssumption DEF WorkQueueAssumption, Msgs
  <2>2. Range(<<>>) = {}
    BY DEF Range
  <2> QED
    BY <2>1, <2>2 DEF Init, Unsent, Received
<1>2. CallInv => NestedCallNeedsStop
  BY DEF CallInv, NestedCallNeedsStop, SafeStopBegan
<1> QED
  BY <1>1, <1>2, CallInvStep, StopsInvariant, TypeCorrect, PTL DEF Spec

-----------------------------------------------------------------------------
(* The order of a service *)

\* Only the subscription of a service adds the messages the service receives,
\* and each waits behind those received before it: in the queue, in AddMsg or
\* in the subscription.
ComesTo(p, m) == \A q \in Services : \A i \in 1 .. Len(Incoming[q]) : m = Incoming[q][i] => p = q

IsAccepted(m) == \E k \in 1 .. Len(accepted) : accepted[k] = m

Behind(p, i, j) ==
  /\ \A k \in 1 .. Len(accepted) : accepted[k] = Incoming[p][j] =>
       \E l \in 1 .. k : accepted[l] = Incoming[p][i]
  /\ adding[p] = Incoming[p][j] => IsAccepted(Incoming[p][i])
  /\ \A k \in 1 .. Len(todo[p]) : todo[p][k] = Incoming[p][j] =>
       \/ IsAccepted(Incoming[p][i])
       \/ adding[p] = Incoming[p][i]
       \/ \E l \in 1 .. k - 1 : todo[p][l] = Incoming[p][i]

OrderInv ==
  /\ \A p \in Services :
       /\ ComesTo(p, adding[p])
       /\ \A k \in 1 .. Len(todo[p]) : ComesTo(p, todo[p][k])
  /\ \A p \in Services : \A i, j \in 1 .. Len(Incoming[p]) : i < j => Behind(p, i, j)

\* What the three steps do that move a message towards the queue.
LEMMA ReceiveMoves ==
  ASSUME TypeOK, NEW p \in Services, Receive(p)
  PROVE  /\ adding[p] = NoMsg /\ Len(todo[p]) \in Nat /\ Len(todo[p]) > 0
         /\ adding'[p] = todo[p][1] /\ Len(todo'[p]) = Len(todo[p]) - 1
         /\ \A k \in 1 .. Len(todo'[p]) : todo'[p][k] = todo[p][k + 1]
         /\ \A q \in Services : q # p => todo'[q] = todo[q] /\ adding'[q] = adding[q]
         /\ UNCHANGED <<accepted, calls>>
<1>1. todo[p] \in Seq(Msgs) /\ todo[p] # <<>>
  BY DEF Receive, TypeOK
<1>2. /\ Len(todo[p]) \in Nat /\ Len(todo[p]) > 0 /\ Head(todo[p]) = todo[p][1]
      /\ Len(Tail(todo[p])) = Len(todo[p]) - 1
      /\ \A k \in 1 .. Len(Tail(todo[p])) : Tail(todo[p])[k] = todo[p][k + 1]
  BY <1>1, HeadTailProperties, LenProperties, EmptySeq
<1> QED
  BY <1>2 DEF Receive, TypeOK

LEMMA AddMsgMoves ==
  ASSUME TypeOK, NEW p \in Services, AddMsg(p)
  PROVE  /\ adding[p] \in Msgs /\ adding' = [adding EXCEPT ![p] = NoMsg]
         /\ Len(accepted) \in Nat /\ Len(accepted') = Len(accepted) + 1
         /\ \A k \in 1 .. Len(accepted) : accepted'[k] = accepted[k]
         /\ accepted'[Len(accepted) + 1] = adding[p]
         /\ UNCHANGED <<todo, calls>>
<1>1. adding[p] \in Msgs /\ accepted \in Seq(Msgs)
  BY DEF AddMsg, TypeOK
<1> QED
  BY <1>1, AppendProperties, LenProperties DEF AddMsg

LEMMA CallMoves ==
  ASSUME TypeOK, NEW n \in Nested, NEW w \in Workers, Call(w, n)
  PROVE  LET p == CalledOf[n]
         IN  /\ p \in Services /\ calls[n] = "none"
             /\ Len(todo[p]) \in Nat /\ Len(todo'[p]) = Len(todo[p]) + 1
             /\ \A k \in 1 .. Len(todo[p]) : todo'[p][k] = todo[p][k]
             /\ todo'[p][Len(todo[p]) + 1] = n
             /\ \A q \in Services : q # p => todo'[q] = todo[q]
             /\ calls' = [calls EXCEPT ![n] = "waiting"]
             /\ UNCHANGED <<accepted, adding>>
<1>1. CalledOf[n] \in Services /\ n \in Msgs
  BY WorkQueueAssumption DEF WorkQueueAssumption, Msgs
<1>2. todo[CalledOf[n]] \in Seq(Msgs)
  BY <1>1 DEF TypeOK
<1> QED
  BY <1>1, <1>2, AppendProperties, LenProperties DEF Call, Calling, TypeOK

\* Everything else leaves them where they are.
LEMMA OthersMoveNothing ==
  ASSUME TypeOK, [Next]_vars, ~\E p \in Services : Subscription(p),
         ~\E n \in Nested : \E w \in Workers : Call(w, n)
  PROVE  /\ UNCHANGED <<todo, adding, accepted>>
         /\ \A n \in Nested : calls'[n] = "none" => calls[n] = "none"
BY DEF TypeOK, Next, Dispatch, DispatchTake, DispatchProcessed, DispatchClosed, Stop,
       StopSafe, StopClose, StopTake, StopProcessed, StopTimeout, Take, Processed,
       CallReturns, CallAnswered, CallTimeout, Calling, vars

\* A message a subscription has received is behind those received before it.
LEMMA ReceiveKeepsBehind ==
  ASSUME TypeOK, NEW p \in Services, Receive(p),
         NEW q \in Services, NEW i \in 1 .. Len(Incoming[q]), NEW j, Behind(q, i, j)
  PROVE  Behind(q, i, j)'
<1>1. CASE q # p
  <2>1. todo'[q] = todo[q] /\ adding'[q] = adding[q] /\ accepted' = accepted
    BY <1>1, ReceiveMoves
  <2> QED
    BY <2>1 DEF Behind, IsAccepted
<1>2. CASE q = p
  <2>m. /\ adding[q] = NoMsg /\ Len(todo[q]) \in Nat /\ Len(todo[q]) > 0
        /\ adding'[q] = todo[q][1] /\ Len(todo'[q]) = Len(todo[q]) - 1
        /\ \A k \in 1 .. Len(todo'[q]) : todo'[q][k] = todo[q][k + 1]
        /\ accepted' = accepted
    BY <1>2, ReceiveMoves
  <2>n. Incoming[q][i] # NoMsg
    BY WorkQueueAssumption DEF WorkQueueAssumption
  <2>1. adding'[q] = Incoming[q][j] => IsAccepted(Incoming[q][i])
    <3>1. 1 \in 1 .. Len(todo[q]) /\ 1 .. 1 - 1 = {}
      BY <2>m
    <3> QED
      BY <2>m, <2>n, <3>1 DEF Behind
  <2>2. ASSUME NEW k \in 1 .. Len(todo'[q]), todo'[q][k] = Incoming[q][j]
        PROVE  \/ IsAccepted(Incoming[q][i])
               \/ adding'[q] = Incoming[q][i]
               \/ \E l \in 1 .. k - 1 : todo'[q][l] = Incoming[q][i]
    <3>1. k + 1 \in 1 .. Len(todo[q]) /\ todo[q][k + 1] = Incoming[q][j]
      BY <2>m, <2>2
    <3>2. CASE \E l \in 1 .. k : todo[q][l] = Incoming[q][i]
      <4>1. PICK l \in 1 .. k : todo[q][l] = Incoming[q][i]
        BY <3>2
      <4>2. CASE l = 1
        BY <2>m, <4>1, <4>2
      <4>3. CASE l # 1
        <5>1. l - 1 \in 1 .. k - 1 /\ l - 1 \in 1 .. Len(todo'[q]) /\ (l - 1) + 1 = l
          BY <2>m, <4>3
        <5>2. todo'[q][l - 1] = Incoming[q][i]
          BY <2>m, <4>1, <5>1
        <5> QED
          BY <5>1, <5>2
      <4> QED
        BY <4>2, <4>3
    <3> QED
      BY <2>m, <2>n, <3>1, <3>2 DEF Behind
  <2> QED
    BY <2>m, <2>1, <2>2 DEF Behind, IsAccepted
<1> QED
  BY <1>1, <1>2

LEMMA ReceiveKeepsOrder ==
  ASSUME TypeOK, OrderInv, NEW p \in Services, Receive(p)
  PROVE  OrderInv'
<1>1. ASSUME NEW q \in Services
      PROVE  /\ ComesTo(q, adding'[q])
             /\ \A k \in 1 .. Len(todo'[q]) : ComesTo(q, todo'[q][k])
  <2>1. CASE q = p
    BY <2>1, ReceiveMoves DEF OrderInv
  <2>2. CASE q # p
    BY <2>2, ReceiveMoves DEF OrderInv
  <2> QED
    BY <2>1, <2>2
<1>2. ASSUME NEW q \in Services, NEW i \in 1 .. Len(Incoming[q]),
             NEW j \in 1 .. Len(Incoming[q]), i < j
      PROVE  Behind(q, i, j)'
  BY <1>2, ReceiveKeepsBehind DEF OrderInv
<1> QED
  BY <1>1, <1>2 DEF OrderInv, ComesTo

LEMMA AddMsgKeepsOrder ==
  ASSUME TypeOK, OrderInv, NEW p \in Services, AddMsg(p)
  PROVE  OrderInv'
<1>m. /\ adding[p] \in Msgs /\ adding' = [adding EXCEPT ![p] = NoMsg]
      /\ adding \in [Services -> Msgs \cup {NoMsg}]
      /\ Len(accepted) \in Nat /\ Len(accepted') = Len(accepted) + 1
      /\ \A k \in 1 .. Len(accepted) : accepted'[k] = accepted[k]
      /\ accepted'[Len(accepted) + 1] = adding[p]
      /\ todo' = todo
  BY AddMsgMoves DEF TypeOK
<1>n. \A q \in Services : \A i \in 1 .. Len(Incoming[q]) : Incoming[q][i] # NoMsg
  BY WorkQueueAssumption DEF WorkQueueAssumption
<1>a. \A m : IsAccepted(m) \/ m = adding[p] => IsAccepted(m)'
  <2>1. Len(accepted) + 1 \in 1 .. Len(accepted')
    BY <1>m
  <2>2. ASSUME NEW m, IsAccepted(m) PROVE IsAccepted(m)'
    <3>1. PICK k \in 1 .. Len(accepted) : accepted[k] = m
      BY <2>2 DEF IsAccepted
    <3>2. k \in 1 .. Len(accepted') /\ accepted'[k] = m
      BY <1>m, <3>1
    <3> QED
      BY <3>2 DEF IsAccepted
  <2>3. ASSUME NEW m, m = adding[p] PROVE IsAccepted(m)'
    BY <1>m, <2>1, <2>3 DEF IsAccepted
  <2> QED
    BY <2>2, <2>3
<1>1. \A q \in Services :
        /\ ComesTo(q, adding'[q])
        /\ \A k \in 1 .. Len(todo[q]) : ComesTo(q, todo[q][k])
  BY <1>m, <1>n DEF OrderInv, ComesTo
<1>2. ASSUME NEW q \in Services, NEW i \in 1 .. Len(Incoming[q]),
             NEW j \in 1 .. Len(Incoming[q]), i < j
      PROVE  Behind(q, i, j)'
  <2>1. Behind(q, i, j)
    BY <1>2 DEF OrderInv
  <2>2. ASSUME NEW k \in 1 .. Len(accepted'), accepted'[k] = Incoming[q][j]
        PROVE  \E l \in 1 .. k : accepted'[l] = Incoming[q][i]
    <3>1. CASE k \in 1 .. Len(accepted)
      <4>1. PICK l \in 1 .. k : accepted[l] = Incoming[q][i]
        BY <1>m, <2>1, <2>2, <3>1 DEF Behind
      <4> QED
        BY <1>m, <3>1, <4>1
    <3>2. CASE k = Len(accepted) + 1
      <4>1. q = p /\ adding[p] = Incoming[q][j]
        BY <1>m, <2>2, <3>2 DEF OrderInv, ComesTo
      <4>2. PICK l \in 1 .. Len(accepted) : accepted[l] = Incoming[q][i]
        BY <2>1, <4>1 DEF Behind, IsAccepted
      <4> QED
        BY <1>m, <3>2, <4>2
    <3> QED
      BY <1>m, <3>1, <3>2
  <2>3. adding'[q] = Incoming[q][j] => IsAccepted(Incoming[q][i])'
    BY <1>m, <1>n, <1>a, <2>1 DEF Behind
  <2>4. ASSUME NEW k \in 1 .. Len(todo[q]), todo[q][k] = Incoming[q][j]
        PROVE  \/ IsAccepted(Incoming[q][i])'
               \/ adding'[q] = Incoming[q][i]
               \/ \E l \in 1 .. k - 1 : todo[q][l] = Incoming[q][i]
    <3>1. CASE IsAccepted(Incoming[q][i])
      BY <1>a, <3>1
    <3>2. CASE adding[q] = Incoming[q][i]
      <4>1. q = p \/ adding'[q] = adding[q]
        BY <1>m
      <4> QED
        BY <1>a, <3>2, <4>1
    <3> QED
      BY <2>1, <2>4, <3>1, <3>2 DEF Behind
  <2> QED
    BY <1>m, <2>2, <2>3, <2>4 DEF Behind
<1> QED
  BY <1>m, <1>1, <1>2 DEF OrderInv, ComesTo

LEMMA CallKeepsOrder ==
  ASSUME TypeOK, OrderInv, NEW n \in Nested, NEW w \in Workers, Call(w, n)
  PROVE  OrderInv'
<1> DEFINE p == CalledOf[n]
<1>m. /\ p \in Services
      /\ Len(todo[p]) \in Nat /\ Len(todo'[p]) = Len(todo[p]) + 1
      /\ \A k \in 1 .. Len(todo[p]) : todo'[p][k] = todo[p][k]
      /\ todo'[p][Len(todo[p]) + 1] = n
      /\ \A q \in Services : q # p => todo'[q] = todo[q]
      /\ UNCHANGED <<accepted, adding>>
  BY CallMoves
<1>n. \A q \in Services : \A i \in 1 .. Len(Incoming[q]) : Incoming[q][i] # n
  <2>1. ASSUME NEW q \in Services, NEW i \in 1 .. Len(Incoming[q])
        PROVE  Incoming[q][i] \in Received
    <3>1. Incoming[q] \in Seq(Msgs)
      BY WorkQueueAssumption DEF WorkQueueAssumption
    <3>2. Incoming[q][i] \in Range(Incoming[q])
      BY <3>1, LenProperties DEF Range
    <3> QED
      BY <3>2 DEF Received
  <2> QED
    BY <2>1, WorkQueueAssumption DEF WorkQueueAssumption
<1>1. /\ ComesTo(p, n)
      /\ \A k \in 1 .. Len(todo'[p]) : k \in 1 .. Len(todo[p]) \/ todo'[p][k] = n
  BY <1>m, <1>n DEF ComesTo
<1>2. \A q \in Services :
        /\ ComesTo(q, adding[q])
        /\ \A k \in 1 .. Len(todo'[q]) : ComesTo(q, todo'[q][k])
  BY <1>m, <1>1 DEF OrderInv
<1>3. ASSUME NEW q \in Services, NEW i \in 1 .. Len(Incoming[q]),
             NEW j \in 1 .. Len(Incoming[q]), i < j
      PROVE  Behind(q, i, j)'
  <2>1. Behind(q, i, j)
    BY <1>3 DEF OrderInv
  <2>2. ASSUME NEW k \in 1 .. Len(todo'[q]), todo'[q][k] = Incoming[q][j]
        PROVE  /\ k \in 1 .. Len(todo[q]) /\ todo[q][k] = Incoming[q][j]
               /\ \A l \in 1 .. k - 1 : todo'[q][l] = todo[q][l]
    <3>1. k \in 1 .. Len(todo[q])
      BY <1>m, <1>n, <1>1, <2>2
    <3>2. Len(todo[q]) \in Nat
      BY LenProperties DEF TypeOK
    <3>3. \A l \in 1 .. Len(todo[q]) : todo'[q][l] = todo[q][l]
      BY <1>m
    <3> QED
      BY <2>2, <3>1, <3>2, <3>3
  <2>3. ASSUME NEW k \in 1 .. Len(todo'[q]), todo'[q][k] = Incoming[q][j]
        PROVE  \/ IsAccepted(Incoming[q][i])
               \/ adding[q] = Incoming[q][i]
               \/ \E l \in 1 .. k - 1 : todo'[q][l] = Incoming[q][i]
    BY <2>1, <2>2, <2>3 DEF Behind
  <2> QED
    BY <1>m, <2>1, <2>3 DEF Behind, IsAccepted
<1> QED
  BY <1>m, <1>2, <1>3 DEF OrderInv, ComesTo

LEMMA OrderInvariant == Spec => []OrderInv
<1>1. Init => OrderInv
  <2> SUFFICES ASSUME Init PROVE OrderInv
    OBVIOUS
  <2>1. \A p \in Services : ComesTo(p, NoMsg)
    BY WorkQueueAssumption DEF WorkQueueAssumption, ComesTo
  <2>2. \A p \in Services : \A k \in 1 .. Len(Incoming[p]) : ComesTo(p, Incoming[p][k])
    BY WorkQueueAssumption DEF WorkQueueAssumption, ComesTo
  <2>3. ASSUME NEW p \in Services, NEW i \in 1 .. Len(Incoming[p]),
               NEW j \in 1 .. Len(Incoming[p]), i < j
        PROVE  Behind(p, i, j)
    <3>1. \A k \in 1 .. Len(Incoming[p]) : Incoming[p][k] = Incoming[p][j] => k = j
      BY WorkQueueAssumption DEF WorkQueueAssumption
    <3>2. i \in 1 .. j - 1 /\ Incoming[p][j] # NoMsg
      BY <2>3, WorkQueueAssumption DEF WorkQueueAssumption
    <3>3. accepted = <<>> /\ todo = Incoming /\ adding[p] = NoMsg
      BY DEF Init
    <3> QED
      BY <3>1, <3>2, <3>3 DEF Behind
  <2> QED
    BY <2>1, <2>2, <2>3 DEF Init, OrderInv
<1>2. TypeOK /\ OrderInv /\ [Next]_vars => OrderInv'
  <2> SUFFICES ASSUME TypeOK, OrderInv, [Next]_vars PROVE OrderInv'
    OBVIOUS
  <2>1. CASE UNCHANGED <<todo, adding, accepted>>
    BY <2>1 DEF OrderInv, ComesTo, Behind, IsAccepted
  <2> QED
    BY <2>1, ReceiveKeepsOrder, AddMsgKeepsOrder, CallKeepsOrder, OthersMoveNothing
       DEF Subscription
<1> QED
  BY <1>1, <1>2, TypeCorrect, PTL DEF Spec

\* Messages of one service start in the order it received them, also when the
\* dispatcher and any number of Stops take from the queue, a subscription waits
\* in AddMsg, and calls of handlers come in between.
THEOREM ServicesKeepOrder == Spec => []ServiceOrder
<1>1. TypeOK /\ Fifo /\ OrderInv => ServiceOrder
  <2> SUFFICES ASSUME TypeOK, Fifo, OrderInv, NEW p \in Services,
                      NEW i \in 1 .. Len(Incoming[p]), NEW j \in 1 .. Len(Incoming[p]),
                      NEW k \in 1 .. Len(started), i < j, started[k] = Incoming[p][j]
               PROVE  \E l \in 1 .. k : started[l] = Incoming[p][i]
    BY DEF ServiceOrder
  <2>1. /\ Len(started) \in Nat /\ Len(accepted) \in Nat /\ Len(started) <= Len(accepted)
        /\ \A l \in 1 .. Len(started) : accepted[l] = started[l]
    <3>1. started \in Seq(Msgs) /\ workMsgChan \in Seq(Msgs)
      BY DEF TypeOK
    <3> QED
      BY <3>1, ConcatProperties, LenProperties DEF Fifo
  <2>2. PICK l \in 1 .. k : accepted[l] = Incoming[p][i]
    BY <2>1 DEF OrderInv, Behind
  <2> QED
    BY <2>1, <2>2
<1> QED
  BY <1>1, OrderInvariant, QueueIsFifo, TypeCorrect, PTL

-----------------------------------------------------------------------------
(* Nothing is accepted twice *)

SentTo(p, m) == m \in Range(Incoming[p]) \/ (m \in Nested /\ CalledOf[m] = p)

\* A message is in one place on its way into the queue, and only once there.
PlacedOnce(p) ==
  /\ adding[p] # NoMsg => SentTo(p, adding[p]) /\ ~IsAccepted(adding[p])
  /\ \A i \in 1 .. Len(todo[p]) :
       /\ SentTo(p, todo[p][i])
       /\ todo[p][i] # adding[p]
       /\ ~IsAccepted(todo[p][i])
       /\ \A j \in 1 .. Len(todo[p]) : todo[p][i] = todo[p][j] => i = j

AcceptedOnce == \A k, l \in 1 .. Len(accepted) : accepted[k] = accepted[l] => k = l

UnsentNowhere ==
  \A n \in Nested : calls[n] = "none" =>
    /\ ~IsAccepted(n)
    /\ \A p \in Services :
         /\ adding[p] # n
         /\ \A i \in 1 .. Len(todo[p]) : todo[p][i] # n

OnceInv == (\A p \in Services : PlacedOnce(p)) /\ AcceptedOnce /\ UnsentNowhere

LEMMA SentToOne ==
  ASSUME NEW p \in Services, NEW q \in Services, NEW m, SentTo(p, m), SentTo(q, m)
  PROVE  p = q
<1>1. \A s \in Services : DOMAIN Incoming[s] = 1 .. Len(Incoming[s])
  BY WorkQueueAssumption, LenProperties DEF WorkQueueAssumption
<1>2. CASE m \in Nested
  <2>1. m \notin Received
    BY <1>2, WorkQueueAssumption DEF WorkQueueAssumption
  <2>2. \A s \in Services : m \notin Range(Incoming[s])
    BY <2>1 DEF Received
  <2> QED
    BY <2>2 DEF SentTo
<1>3. CASE m \notin Nested
  <2>1. /\ \E i \in 1 .. Len(Incoming[p]) : Incoming[p][i] = m
        /\ \E i \in 1 .. Len(Incoming[q]) : Incoming[q][i] = m
    BY <1>1, <1>3 DEF SentTo, Range
  <2> QED
    BY <2>1, WorkQueueAssumption DEF WorkQueueAssumption
<1> QED
  BY <1>2, <1>3

LEMMA ReceiveKeepsOnce ==
  ASSUME TypeOK, OnceInv, NEW p \in Services, Receive(p)
  PROVE  OnceInv'
<1>1. ASSUME NEW q \in Services PROVE PlacedOnce(q)'
  <2>1. PlacedOnce(q)
    BY DEF OnceInv
  <2>2. CASE q # p
    <3>1. todo'[q] = todo[q] /\ adding'[q] = adding[q] /\ accepted' = accepted
      BY <2>2, ReceiveMoves
    <3> QED
      BY <2>1, <3>1 DEF PlacedOnce, IsAccepted
  <2>3. CASE q = p
    <3>1. /\ Len(todo[q]) \in Nat /\ Len(todo[q]) > 0
          /\ adding'[q] = todo[q][1] /\ Len(todo'[q]) = Len(todo[q]) - 1
          /\ \A k \in 1 .. Len(todo'[q]) : todo'[q][k] = todo[q][k + 1]
          /\ accepted' = accepted
      BY <2>3, ReceiveMoves
    <3>2. /\ 1 \in 1 .. Len(todo[q])
          /\ \A k \in 1 .. Len(todo'[q]) : k + 1 \in 1 .. Len(todo[q]) /\ k + 1 # 1
      BY <3>1
    <3>3. SentTo(q, adding'[q]) /\ ~IsAccepted(adding'[q])
      BY <2>1, <3>1, <3>2 DEF PlacedOnce
    <3>4. ASSUME NEW i \in 1 .. Len(todo'[q])
          PROVE  /\ SentTo(q, todo'[q][i])
                 /\ todo'[q][i] # adding'[q]
                 /\ ~IsAccepted(todo'[q][i])
                 /\ \A j \in 1 .. Len(todo'[q]) : todo'[q][i] = todo'[q][j] => i = j
      BY <2>1, <3>1, <3>2 DEF PlacedOnce
    <3> QED
      BY <3>1, <3>3, <3>4 DEF PlacedOnce, IsAccepted
  <2> QED
    BY <2>2, <2>3
<1>2. AcceptedOnce'
  BY ReceiveMoves DEF OnceInv, AcceptedOnce
<1>3. ASSUME NEW n \in Nested, calls'[n] = "none", NEW q \in Services
      PROVE  /\ ~IsAccepted(n)
             /\ adding'[q] # n
             /\ \A i \in 1 .. Len(todo'[q]) : todo'[q][i] # n
  <2>1. /\ ~IsAccepted(n) /\ adding[q] # n
        /\ \A i \in 1 .. Len(todo[q]) : todo[q][i] # n
    BY <1>3, ReceiveMoves DEF OnceInv, UnsentNowhere
  <2>2. CASE q # p
    BY <2>1, <2>2, ReceiveMoves
  <2>3. CASE q = p
    BY <2>1, <2>3, ReceiveMoves
  <2> QED
    BY <2>1, <2>2, <2>3
<1>4. UnsentNowhere'
  BY <1>3, ReceiveMoves DEF OnceInv, UnsentNowhere, IsAccepted
<1> QED
  BY <1>1, <1>2, <1>4 DEF OnceInv

LEMMA AddMsgKeepsOnce ==
  ASSUME TypeOK, OnceInv, NEW p \in Services, AddMsg(p)
  PROVE  OnceInv'
<1>m. /\ adding[p] \in Msgs /\ adding' = [adding EXCEPT ![p] = NoMsg]
      /\ adding \in [Services -> Msgs \cup {NoMsg}] /\ NoMsg \notin Msgs
      /\ Len(accepted) \in Nat /\ Len(accepted') = Len(accepted) + 1
      /\ \A k \in 1 .. Len(accepted) : accepted'[k] = accepted[k]
      /\ accepted'[Len(accepted) + 1] = adding[p]
      /\ UNCHANGED <<todo, calls>>
  BY AddMsgMoves, WorkQueueAssumption DEF TypeOK, WorkQueueAssumption
<1>p. SentTo(p, adding[p]) /\ ~IsAccepted(adding[p]) /\ PlacedOnce(p)
  BY <1>m DEF OnceInv, PlacedOnce
<1>a. ASSUME NEW m, m # adding[p], ~IsAccepted(m)
      PROVE  ~IsAccepted(m)'
  BY <1>m, <1>a DEF IsAccepted
<1>1. ASSUME NEW q \in Services PROVE PlacedOnce(q)'
  <2>1. PlacedOnce(q) /\ todo[q] \in Seq(Msgs)
    BY DEF OnceInv, TypeOK
  <2>2. \A i \in 1 .. Len(todo[q]) : todo[q][i] # NoMsg /\ todo[q][i] # adding[p]
    <3>1. ASSUME NEW i \in 1 .. Len(todo[q]) PROVE todo[q][i] # NoMsg
      BY <1>m, <2>1, ElementOfSeq
    <3>2. ASSUME NEW i \in 1 .. Len(todo[q]), todo[q][i] = adding[p] PROVE FALSE
      <4>1. SentTo(q, adding[p])
        BY <2>1, <3>2 DEF PlacedOnce
      <4>2. q = p
        BY <1>p, <4>1, SentToOne
      <4> QED
        BY <1>p, <3>2, <4>2 DEF PlacedOnce
    <3> QED
      BY <3>1, <3>2
  <2>3. \A i \in 1 .. Len(todo[q]) : ~IsAccepted(todo[q][i])'
    BY <1>a, <1>m, <2>1, <2>2 DEF PlacedOnce
  <2>4. adding'[q] = NoMsg \/ (adding'[q] = adding[q] /\ q # p)
    BY <1>m
  <2>5. adding'[q] # NoMsg => SentTo(q, adding'[q]) /\ ~IsAccepted(adding[q])'
    <3>1. CASE adding'[q] # NoMsg
      <4>1. adding'[q] = adding[q] /\ q # p
        BY <2>4, <3>1
      <4>2. SentTo(q, adding[q]) /\ ~IsAccepted(adding[q])
        BY <2>1, <3>1, <4>1 DEF PlacedOnce
      <4>3. adding[q] # adding[p]
        BY <1>p, <4>1, <4>2, SentToOne
      <4>4. \A k \in 1 .. Len(accepted') : accepted'[k] # adding[q]
        BY <1>m, <4>2, <4>3 DEF IsAccepted
      <4> QED
        BY <4>1, <4>2, <4>4 DEF IsAccepted
    <3> QED
      BY <3>1
  <2> QED
    BY <1>m, <2>1, <2>2, <2>3, <2>4, <2>5 DEF PlacedOnce, IsAccepted
<1>2. AcceptedOnce'
  <2>1. \A k \in 1 .. Len(accepted) : accepted[k] # adding[p]
    BY <1>p DEF IsAccepted
  <2> QED
    BY <1>m, <2>1 DEF OnceInv, AcceptedOnce
<1>3. ASSUME NEW n \in Nested, calls'[n] = "none"
      PROVE  /\ ~IsAccepted(n)'
             /\ \A q \in Services :
                  /\ adding'[q] # n
                  /\ \A i \in 1 .. Len(todo[q]) : todo[q][i] # n
  <2>1. n # NoMsg
    BY <1>m DEF Msgs
  <2>2. /\ ~IsAccepted(n)
        /\ \A q \in Services :
             adding[q] # n /\ \A i \in 1 .. Len(todo[q]) : todo[q][i] # n
    BY <1>m, <1>3 DEF OnceInv, UnsentNowhere
  <2> QED
    BY <1>m, <1>a, <2>1, <2>2
<1>4. UnsentNowhere'
  BY <1>m, <1>3 DEF UnsentNowhere
<1> QED
  BY <1>1, <1>2, <1>4 DEF OnceInv

LEMMA CallKeepsOnce ==
  ASSUME TypeOK, OnceInv, NEW n \in Nested, NEW w \in Workers, Call(w, n)
  PROVE  OnceInv'
<1> DEFINE p == CalledOf[n]
<1>m. /\ p \in Services /\ calls[n] = "none"
      /\ Len(todo[p]) \in Nat /\ Len(todo'[p]) = Len(todo[p]) + 1
      /\ \A k \in 1 .. Len(todo[p]) : todo'[p][k] = todo[p][k]
      /\ todo'[p][Len(todo[p]) + 1] = n
      /\ \A q \in Services : q # p => todo'[q] = todo[q]
      /\ calls' = [calls EXCEPT ![n] = "waiting"]
      /\ UNCHANGED <<accepted, adding>>
  BY CallMoves
<1>n. /\ ~IsAccepted(n)
      /\ \A q \in Services :
           adding[q] # n /\ \A i \in 1 .. Len(todo[q]) : todo[q][i] # n
  BY <1>m DEF OnceInv, UnsentNowhere
<1>1. ASSUME NEW q \in Services PROVE PlacedOnce(q)'
  <2>1. PlacedOnce(q)
    BY DEF OnceInv
  <2>2. CASE q # p
    <3>1. todo'[q] = todo[q] /\ adding'[q] = adding[q] /\ accepted' = accepted
      BY <1>m, <2>2
    <3> QED
      BY <2>1, <3>1 DEF PlacedOnce, IsAccepted
  <2>3. CASE q = p
    <3>1. /\ Len(todo[q]) \in Nat /\ Len(todo'[q]) = Len(todo[q]) + 1
          /\ \A k \in 1 .. Len(todo[q]) : todo'[q][k] = todo[q][k]
          /\ todo'[q][Len(todo[q]) + 1] = n
          /\ adding'[q] = adding[q] /\ accepted' = accepted
          /\ SentTo(q, n)
      BY <1>m, <2>3 DEF SentTo
    <3>2. ASSUME NEW i \in 1 .. Len(todo'[q])
          PROVE  /\ SentTo(q, todo'[q][i])
                 /\ todo'[q][i] # adding[q]
                 /\ ~IsAccepted(todo'[q][i])
      BY <1>n, <2>1, <3>1 DEF PlacedOnce
    <3>3. ASSUME NEW i \in 1 .. Len(todo'[q]), NEW j \in 1 .. Len(todo'[q]),
                 todo'[q][i] = todo'[q][j]
          PROVE  i = j
      <4>1. CASE i \in 1 .. Len(todo[q]) /\ j \in 1 .. Len(todo[q])
        BY <2>1, <3>1, <3>3, <4>1 DEF PlacedOnce
      <4>2. CASE i = Len(todo[q]) + 1 \/ j = Len(todo[q]) + 1
        BY <1>n, <3>1, <3>3, <4>2
      <4> QED
        BY <3>1, <4>1, <4>2
    <3> QED
      BY <2>1, <3>1, <3>2, <3>3 DEF PlacedOnce, IsAccepted
  <2> QED
    BY <2>2, <2>3
<1>2. AcceptedOnce'
  BY <1>m DEF OnceInv, AcceptedOnce
<1>3. ASSUME NEW o \in Nested, calls'[o] = "none", NEW q \in Services
      PROVE  /\ ~IsAccepted(o)
             /\ adding[q] # o
             /\ \A i \in 1 .. Len(todo'[q]) : todo'[q][i] # o
  <2>1. o # n /\ calls[o] = "none"
    BY <1>m, <1>3 DEF TypeOK
  <2>2. /\ ~IsAccepted(o) /\ adding[q] # o
        /\ \A i \in 1 .. Len(todo[q]) : todo[q][i] # o
    BY <2>1 DEF OnceInv, UnsentNowhere
  <2>3. CASE q # p
    BY <1>m, <2>2, <2>3
  <2>4. CASE q = p
    BY <1>m, <2>1, <2>2, <2>4
  <2> QED
    BY <2>2, <2>3, <2>4
<1>4. UnsentNowhere'
  BY <1>m, <1>3 DEF UnsentNowhere, IsAccepted
<1> QED
  BY <1>1, <1>2, <1>4 DEF OnceInv

LEMMA OnceInvariant == Spec => []OnceInv
<1>1. Init => OnceInv
  <2> SUFFICES ASSUME Init PROVE OnceInv
    OBVIOUS
  <2>1. accepted = <<>> /\ todo = Incoming /\ \A p \in Services : adding[p] = NoMsg
    BY DEF Init
  <2>2. \A m : ~IsAccepted(m)
    BY <2>1 DEF IsAccepted
  <2>3. ASSUME NEW p \in Services, NEW i \in 1 .. Len(Incoming[p])
        PROVE  /\ SentTo(p, Incoming[p][i]) /\ Incoming[p][i] \in Received
               /\ Incoming[p][i] # NoMsg
               /\ \A j \in 1 .. Len(Incoming[p]) : Incoming[p][i] = Incoming[p][j] => i = j
    <3>1. Incoming[p] \in Seq(Msgs)
      BY WorkQueueAssumption DEF WorkQueueAssumption
    <3>2. Incoming[p][i] \in Range(Incoming[p])
      BY <3>1, LenProperties DEF Range
    <3> QED
      BY <3>2, WorkQueueAssumption DEF WorkQueueAssumption, SentTo, Received, Msgs
  <2>4. \A p \in Services : PlacedOnce(p)
    BY <2>1, <2>2, <2>3 DEF PlacedOnce
  <2>5. UnsentNowhere
    BY <2>1, <2>2, <2>3, WorkQueueAssumption DEF WorkQueueAssumption, UnsentNowhere, Msgs
  <2> QED
    BY <2>1, <2>4, <2>5 DEF OnceInv, AcceptedOnce
<1>2. TypeOK /\ OnceInv /\ [Next]_vars => OnceInv'
  <2> SUFFICES ASSUME TypeOK, OnceInv, [Next]_vars PROVE OnceInv'
    OBVIOUS
  <2>1. CASE /\ UNCHANGED <<todo, adding, accepted>>
             /\ \A n \in Nested : calls'[n] = "none" => calls[n] = "none"
    BY <2>1 DEF OnceInv, PlacedOnce, AcceptedOnce, UnsentNowhere, IsAccepted
  <2> QED
    BY <2>1, ReceiveKeepsOnce, AddMsgKeepsOnce, CallKeepsOnce, OthersMoveNothing
       DEF Subscription
<1> QED
  BY <1>1, <1>2, TypeCorrect, PTL DEF Spec

-----------------------------------------------------------------------------
(* Nothing is forgotten *)

\* The message at the front of the channel has not been taken before.
LEMMA FrontIsNew ==
  ASSUME TypeOK, Fifo, AcceptedOnce, workMsgChan # <<>>
  PROVE  Head(workMsgChan) \in Msgs /\ Head(workMsgChan) \notin Range(started)
<1>1. /\ started \in Seq(Msgs) /\ workMsgChan \in Seq(Msgs)
      /\ DOMAIN started = 1 .. Len(started) /\ Len(started) \in Nat
      /\ Len(workMsgChan) \in Nat /\ Len(workMsgChan) > 0
      /\ Head(workMsgChan) = workMsgChan[1] /\ Head(workMsgChan) \in Msgs
  BY LenProperties, HeadTailProperties, EmptySeq DEF TypeOK
<1>2. /\ Len(accepted) = Len(started) + Len(workMsgChan)
      /\ \A k \in 1 .. Len(started) : accepted[k] = started[k]
      /\ accepted[Len(started) + 1] = workMsgChan[1]
  BY <1>1, ConcatProperties DEF Fifo
<1>3. ASSUME NEW k \in 1 .. Len(started), started[k] = Head(workMsgChan)
      PROVE  FALSE
  BY <1>1, <1>2, <1>3 DEF AcceptedOnce
<1> QED
  BY <1>1, <1>3 DEF Range

\* A message that is taken is in Process of the worker that took it, and of
\* nobody else.
LEMMA TakeKeepsProcess ==
  ASSUME TypeOK, Fifo, AcceptedOnce, InProcess,
         NEW w \in Workers, Take(w), processing[w] = NoMsg
  PROVE  InProcess'
<1> DEFINE m == Head(workMsgChan)
<1>1. /\ m \in Msgs /\ m \notin Range(started) /\ m # NoMsg
      /\ finished \subseteq Msgs /\ NoMsg \notin Msgs
  BY FrontIsNew, WorkQueueAssumption DEF Take, TypeOK, WorkQueueAssumption
<1>2. /\ processing' = [processing EXCEPT ![w] = m] /\ finished' = finished
      /\ processing \in [Workers -> Msgs \cup {NoMsg}]
      /\ Range(started') = Range(started) \cup {m}
  BY <1>1, RangeOfAppend DEF Take, TypeOK
<1>3. m \notin finished /\ \A v \in Workers : processing[v] # m
  BY <1>1 DEF InProcess
<1>4. \A v, u \in Workers : v # u /\ processing'[v] # NoMsg => processing'[v] # processing'[u]
  BY <1>1, <1>2, <1>3 DEF InProcess
<1>5. Range(started') = finished \cup ({processing'[v] : v \in Workers} \ {NoMsg})
  BY <1>1, <1>2 DEF InProcess
<1>6. \A v \in Workers : processing'[v] \notin finished
  BY <1>1, <1>2, <1>3 DEF InProcess
<1> QED
  BY <1>2, <1>4, <1>5, <1>6 DEF InProcess

LEMMA ProcessedKeepsProcess ==
  ASSUME TypeOK, InProcess, NEW w \in Workers, Processed(w), processing[w] # NoMsg
  PROVE  InProcess'
<1>1. /\ processing' = [processing EXCEPT ![w] = NoMsg]
      /\ finished' = finished \cup {processing[w]} /\ started' = started
      /\ processing \in [Workers -> Msgs \cup {NoMsg}]
      /\ finished \subseteq Msgs /\ NoMsg \notin Msgs
  BY WorkQueueAssumption DEF Processed, TypeOK, WorkQueueAssumption
<1>2. \A v, u \in Workers : v # u /\ processing'[v] # NoMsg => processing'[v] # processing'[u]
  BY <1>1 DEF InProcess
<1>3. Range(started) = finished' \cup ({processing'[v] : v \in Workers} \ {NoMsg})
  BY <1>1 DEF InProcess
<1>4. \A v \in Workers : processing'[v] \notin finished'
  BY <1>1 DEF InProcess
<1> QED
  BY <1>1, <1>2, <1>3, <1>4 DEF InProcess

\* A message taken by the dispatcher or by a Stop is in Process of that worker
\* alone until it is finished, and is finished once.
THEOREM TakenIsProcessed == Spec => []InProcess
<1>1. Init => InProcess
  <2>1. Range(<<>>) = {}
    BY DEF Range
  <2> QED
    BY <2>1 DEF Init, InProcess
<1>2. TypeOK /\ Fifo /\ OnceInv /\ InProcess /\ [Next]_vars => InProcess'
  <2> SUFFICES ASSUME TypeOK, Fifo, AcceptedOnce, InProcess, [Next]_vars
               PROVE  InProcess'
    BY DEF OnceInv
  <2>1. CASE DispatchTake \/ \E s \in Stoppers : StopTake(s)
    <3>1. PICK w \in Workers : Take(w) /\ processing[w] = NoMsg
      BY <2>1 DEF DispatchTake, StopTake, TypeOK, Workers
    <3> QED
      BY <3>1, TakeKeepsProcess
  <2>2. CASE DispatchProcessed \/ \E s \in Stoppers : StopProcessed(s)
    <3>1. PICK w \in Workers : Processed(w) /\ processing[w] # NoMsg
      BY <2>2 DEF DispatchProcessed, StopProcessed, TypeOK, Workers
    <3> QED
      BY <3>1, ProcessedKeepsProcess
  <2>3. CASE UNCHANGED <<processing, started, finished>>
    BY <2>3 DEF InProcess
  <2> QED
    BY <2>1, <2>2, <2>3
       DEF Next, Subscription, Receive, AddMsg, Dispatch, DispatchClosed, Stop,
           StopSafe, StopClose, StopTimeout, CallReturns, CallAnswered,
           CallTimeout, Call, Calling, vars
<1> QED
  BY <1>1, <1>2, OnceInvariant, QueueIsFifo, TypeCorrect, PTL DEF Spec

=============================================================================
