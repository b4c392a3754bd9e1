---------------------------- MODULE JsServer_proof ----------------------------
(***************************************************************************)
(* Proofs about JsServer, for any services, kinds and bounds: a service    *)
(* registered after its setup had succeeded, or whose check passed,        *)
(* receives unless somebody else had its consumer, although register waits *)
(* for neither; the array of the work queue keeps the order of the         *)
(* messages and repeats none but for safe stops, however many timers empty *)
(* it; and a core service is given no more messages than it registered for.*)
(***************************************************************************)
EXTENDS JsServer, TLAPS, SequenceTheorems, FiniteSetTheorems

Counts ==
  /\ checking \in [Services -> Nat]
  /\ subscribing \in [Services -> Nat]
  /\ found \in [Services -> Nat]
  /\ live \in [Services -> Nat]
  /\ prepared \subseteq Services
  /\ held \subseteq Services
  /\ contended \subseteq Services

\* The connection comes up once; who has a manager has a client.
Link ==
  /\ connecting = "connect" => conn = "none"
  /\ manager => conn # "none"

\* What was bound stays: nothing deletes a stream or a consumer.
Kept ==
  /\ binding = "update" => stream = "ours"
  /\ binding = "bound" => stream = "ours" /\ manager
  /\ adding = "bound" => stream = "ours" /\ manager /\ consumer # "none"

Bound(s) ==
  /\ OnStream(s)
  /\ stream = "ours" /\ manager /\ conn = "up"
  /\ KindOf[s] = "bound" => adding = "bound"

Ready == \A s \in prepared : Bound(s)

\* Another process that has the consumer of a stream service was noticed by those
\* registrations it may concern.
Noticed(s) ==
  KindOf[s] = "stream" /\ Pending(s) /\ s \in held =>
    live[s] > 0 \/ s \in contended \/ conn \in {"draining", "closed"}

AllNoticed == \A s \in Services : Noticed(s)

\* The service receives, or will, as its consumer is nobody else's.
Good(s) == live[s] > 0 \/ s \in contended \/ (Pending(s) /\ ~Taken(s))

Underway == \A s \in prepared : Good(s)

Inv == Counts /\ Link /\ Kept /\ Ready /\ AllNoticed /\ Underway

\* A check of a service on a stream passes only when the stream is there and is
\* ours, and never for a service with a consumer.
LEMMA CheckFinds ==
  ASSUME NEW s \in Services, OnStream(s), CheckPasses(s)
  PROVE  Bound(s) /\ KindOf[s] = "stream"
BY DEF CheckPasses, OnStream, StreamOf, checkConsumerAndStreamWithSubject,
   checkStreamWithSubject, streamNameBySubject, JetStreamAnswers, Bound

LEMMA SharedIsMutual ==
  ASSUME NEW s \in Services, NEW t \in Services, t \in SharedWith(s)
  PROVE  s \in SharedWith(t) /\ SharedWith(t) = SharedWith(s) /\ KindOf[t] = KindOf[s]
BY DEF SharedWith, BoundServices

LEMMA SharesWithItself ==
  ASSUME NEW s \in Services
  PROVE  s \in SharedWith(s) /\ SharedWith(s) \subseteq Services
BY DEF SharedWith, BoundServices

-----------------------------------------------------------------------------
(* register *)

\* A step of one service, which leaves the broker and the connection alone.
LEMMA ServiceStep ==
  ASSUME Inv, NEW s \in Services, UNCHANGED <<setupVars, natsVars, held>>, Counts',
         prepared \subseteq prepared', prepared' \subseteq prepared \cup {s},
         \A t \in Services : t # s =>
           /\ checking'[t] = checking[t] /\ subscribing'[t] = subscribing[t]
           /\ found'[t] = found[t] /\ live'[t] = live[t]
           /\ t \in contended => t \in contended'
           /\ t \in SharedWith(s) /\ Pending(t) /\ live'[s] > live[s] => t \in contended',
         s \in prepared' => Bound(s) /\ Good(s)',
         Noticed(s)'
  PROVE  Inv'
<1>1. Link' /\ Kept'
  BY DEF Inv, Link, Kept, setupVars, natsVars
<1>2. Ready'
  BY DEF Inv, Ready, Bound, OnStream, setupVars, natsVars
<1>3. AllNoticed'
  <2>1. ASSUME NEW t \in Services, t # s
        PROVE  Noticed(t)'
    <3>1. Noticed(t) /\ (Pending(t)' <=> Pending(t))
      BY <2>1 DEF Inv, AllNoticed, Pending
    <3> QED
      BY <2>1, <3>1 DEF Noticed, natsVars
  <2> QED
    BY <2>1 DEF AllNoticed
<1>4. ASSUME NEW t \in prepared, t # s
      PROVE  Good(t)'
  <2>1. t \in Services /\ Good(t) /\ (Pending(t)' <=> Pending(t))
    BY <1>4 DEF Inv, Underway, Counts, Pending
  <2>2. CASE live[t] > 0 \/ t \in contended
    BY <1>4, <2>1, <2>2 DEF Good
  <2>3. CASE Pending(t) /\ ~Taken(t)
    <3>1. ASSUME Taken(t)' PROVE t \in contended'
      <4>1. PICK u \in SharedWith(t) \ {t} : live'[u] > 0 /\ ~(live[u] > 0)
        BY <2>3, <3>1 DEF Taken, OnStream, SharedWith, BoundServices, setupVars
      <4>2. u \in Services /\ u = s
        BY <1>4, <2>1, <4>1, SharesWithItself
      <4>3. t \in SharedWith(s)
        BY <2>1, <4>1, <4>2, SharedIsMutual
      <4>4. live[s] \in Nat /\ live'[s] \in Nat
        BY DEF Inv, Counts
      <4> QED
        BY <1>4, <2>1, <2>3, <4>1, <4>2, <4>3, <4>4
    <3> QED
      BY <2>1, <2>3, <3>1 DEF Good
  <2> QED
    BY <2>1, <2>2, <2>3 DEF Good
<1>5. Underway'
  BY <1>4 DEF Underway
<1> QED
  BY <1>1, <1>2, <1>3, <1>5 DEF Inv

LEMMA RegisterInv ==
  ASSUME Inv, NEW s \in Services, register(s)
  PROVE  Inv'
<1>1. /\ checking' = [checking EXCEPT ![s] = @ + 1]
      /\ prepared' = IF SetUp(s) THEN prepared \cup {s} ELSE prepared
      /\ contended' = IF Taken(s) THEN contended \cup {s} ELSE contended \ {s}
      /\ UNCHANGED <<subscribing, found, live, setupVars, natsVars, held>>
  BY DEF register
<1>2. Counts' /\ checking'[s] > 0
  BY <1>1 DEF Inv, Counts
<1>3. SetUp(s) => Bound(s)
  BY DEF SetUp, Inv, Kept, Bound
<1>4. \A t \in Services : t # s => checking'[t] = checking[t]
  BY <1>1 DEF Inv, Counts
<1>5. Taken(s)' <=> Taken(s)
  BY <1>1 DEF Taken, OnStream, SharedWith, BoundServices, setupVars
<1>6. Good(s)'
  BY <1>1, <1>2, <1>5 DEF Good, Pending
<1>7. Noticed(s)'
  BY <1>1, SharesWithItself DEF Noticed, Taken, OnStream
<1>8. live'[s] = live[s] /\ live[s] \in Nat
  BY <1>1 DEF Inv, Counts
<1> QED
  BY <1>1, <1>2, <1>3, <1>4, <1>6, <1>7, <1>8, ServiceStep DEF Inv, Ready

\* After the check a subscription is asked for; one of core NATS does not count.
LEMMA CheckedInv ==
  ASSUME Inv, NEW s \in Services, subscribe(s) \/ subscribeThrows(s) \/ jstreamSubscribe(s)
  PROVE  Inv'
<1>1. /\ checking[s] > 0 /\ checking' = [checking EXCEPT ![s] = @ - 1]
      /\ prepared' = IF OnStream(s) /\ CheckPasses(s) THEN prepared \cup {s} ELSE prepared
      /\ UNCHANGED <<found, contended, setupVars, natsVars, held>>
  BY DEF subscribe, subscribeThrows, jstreamSubscribe, Checked
<1>2. \/ ~OnStream(s) /\ live' = [live EXCEPT ![s] = @ + 1] /\ subscribing' = subscribing
      \/ ~OnStream(s) /\ live' = live /\ subscribing' = subscribing
      \/ OnStream(s) /\ live' = live /\ subscribing' = [subscribing EXCEPT ![s] = @ + 1]
  BY DEF subscribe, subscribeThrows, jstreamSubscribe
<1>3. Counts' /\ (OnStream(s) => subscribing'[s] > 0 /\ live' = live)
  BY <1>1, <1>2 DEF Inv, Counts
<1>4. Pending(s) /\ Noticed(s)
  BY <1>1 DEF Pending, Inv, AllNoticed
<1>5. \A t \in Services : t # s =>
        checking'[t] = checking[t] /\ subscribing'[t] = subscribing[t] /\ live'[t] = live[t]
  BY <1>1, <1>2 DEF Inv, Counts
<1>6. Noticed(s)'
  BY <1>1, <1>3, <1>4 DEF Noticed, OnStream, natsVars
<1>7. ASSUME s \in prepared'
      PROVE  Bound(s) /\ Good(s)'
  <2>1. Bound(s)
    BY <1>1, <1>7, CheckFinds DEF Inv, Ready
  <2>2. Pending(s)' /\ live' = live /\ (Taken(s)' <=> Taken(s))
    BY <1>1, <1>3, <2>1 DEF Bound, Pending, Taken, OnStream, SharedWith, BoundServices, setupVars
  <2>3. CASE s \in prepared
    <3>1. Good(s)
      BY <2>3 DEF Inv, Underway
    <3> QED
      BY <1>1, <2>1, <2>2, <3>1 DEF Good
  <2>4. CASE s \notin prepared
    <3>1. KindOf[s] = "stream"
      BY <1>1, <1>7, <2>4, CheckFinds
    <3>2. Taken(s) => s \in held
      BY <3>1 DEF Taken, SharedWith
    <3>3. s \in held => live[s] > 0 \/ s \in contended
      BY <1>4, <2>1, <3>1 DEF Noticed, Bound
    <3> QED
      BY <1>1, <2>1, <2>2, <3>2, <3>3 DEF Good
  <2> QED
    BY <2>1, <2>3, <2>4
<1>8. ~OnStream(s) => \A t \in Services : t \in SharedWith(s) => t = s
  BY DEF OnStream, SharedWith
<1>9. live'[s] > live[s] => ~OnStream(s)
  BY <1>3 DEF Inv, Counts
<1> QED
  BY <1>1, <1>3, <1>5, <1>6, <1>7, <1>8, <1>9, ServiceStep

\* The library refuses a service that is ready only a consumer that has a
\* subscription.
LEMMA SubscribedInv ==
  ASSUME Inv, NEW s \in Services,
         lookedUp(s) \/ subscribeRejected(s) \/ subscribed(s) \/ subscribedLate(s)
  PROVE  Inv'
<1>1. UNCHANGED <<checking, prepared, setupVars, natsVars, held>>
  BY DEF lookedUp, subscribeRejected, subscribed, subscribedLate, Subscribing, Subscribes
<1>2. \/ /\ subscribing[s] > 0 /\ subscribing' = [subscribing EXCEPT ![s] = @ - 1]
         /\ found' = [found EXCEPT ![s] = @ + 1]
         /\ live' = live /\ contended' = contended
      \/ /\ subscribing[s] > 0 /\ subscribing' = [subscribing EXCEPT ![s] = @ - 1]
         /\ found' = found /\ live' = live /\ contended' = contended
         /\ ~Subscribable(s)
      \/ /\ found[s] > 0 /\ found' = [found EXCEPT ![s] = @ - 1]
         /\ subscribing' = subscribing
         /\ live' = [live EXCEPT ![s] = @ + 1]
         /\ contended' = (contended \cup {t \in SharedWith(s) : Pending(t)}) \ {s}
      \/ /\ found[s] > 0 /\ found' = [found EXCEPT ![s] = @ - 1]
         /\ subscribing' = subscribing /\ live' = live /\ contended' = contended
         /\ conn # "up" \/ (KindOf[s] = "stream" /\ Attached(s))
  BY DEF lookedUp, subscribeRejected, subscribed, subscribedLate, Subscribing, Subscribes
<1>3. Counts'
  BY <1>1, <1>2, SharesWithItself DEF Inv, Counts
<1>4. \A t \in Services : t # s =>
        /\ checking'[t] = checking[t] /\ subscribing'[t] = subscribing[t]
        /\ found'[t] = found[t] /\ live'[t] = live[t]
  BY <1>1, <1>2 DEF Inv, Counts
<1>5. live[s] \in Nat /\ live'[s] \in Nat /\ (live'[s] = live[s] \/ live'[s] > 0)
  BY <1>2, <1>3 DEF Inv, Counts
<1>6. live'[s] > live[s] => contended' = (contended \cup {t \in SharedWith(s) : Pending(t)}) \ {s}
  BY <1>2, <1>5
<1>7. live'[s] > 0 \/ (contended' = contended /\ live' = live)
  BY <1>2, <1>3 DEF Inv, Counts
<1>8. \A t \in Services : t # s =>
        /\ t \in contended => t \in contended'
        /\ t \in SharedWith(s) /\ Pending(t) /\ live'[s] > live[s] => t \in contended'
  BY <1>2, <1>6
<1>9. Pending(s) /\ Noticed(s)
  BY <1>2 DEF Pending, Inv, AllNoticed
<1>10. Noticed(s)'
  BY <1>1, <1>5, <1>7, <1>9 DEF Noticed, natsVars
<1>11. ASSUME s \in prepared'
       PROVE  Bound(s) /\ Good(s)'
  <2>1. Bound(s) /\ Good(s)
    BY <1>1, <1>11 DEF Inv, Ready, Underway
  <2>2. CASE live'[s] > 0
    BY <2>1, <2>2 DEF Good
  <2>3. CASE ~(live'[s] > 0)
    <3>1. contended' = contended /\ live' = live /\ ~(live[s] > 0)
      BY <1>7, <2>3
    <3>2. Taken(s)' <=> Taken(s)
      BY <1>1, <3>1 DEF Taken, OnStream, SharedWith, BoundServices, setupVars
    <3>3. Attached(s) => Taken(s)
      BY <2>1, <3>1 DEF Attached, Taken, Bound
    <3>4. ~Subscribable(s) => Attached(s)
      BY <2>1 DEF Subscribable, Bound, JetStreamAnswers, Inv, Kept
    <3>5. found'[s] > 0 \/ Taken(s)
      BY <1>2, <1>3, <2>1, <2>3, <3>3, <3>4 DEF Inv, Counts, Bound
    <3> QED
      BY <2>1, <3>1, <3>2, <3>5 DEF Good, Pending
  <2> QED
    BY <2>2, <2>3
<1> QED
  BY <1>1, <1>3, <1>4, <1>8, <1>10, <1>11, ServiceStep

\* Only core subscriptions end by themselves.
LEMMA CoreEndsInv ==
  ASSUME Inv, NEW s \in Services, ~OnStream(s),
         UNCHANGED <<checking, subscribing, found, prepared, setupVars, natsVars, held,
                     contended>>,
         live' \in [Services -> Nat],
         \A t \in Services : t # s => live'[t] = live[t]
  PROVE  Inv'
<1>1. Counts'
  BY DEF Inv, Counts
<1>2. s \notin prepared' /\ Noticed(s)'
  BY DEF Inv, Ready, Bound, Noticed, OnStream
<1>3. \A t \in Services : t # s => t \notin SharedWith(s)
  BY DEF OnStream, SharedWith
<1> QED
  BY <1>1, <1>2, <1>3, ServiceStep

LEMMA NothingInv ==
  ASSUME Inv, UNCHANGED <<checking, subscribing, found, prepared, live, held, contended,
                          setupVars, natsVars>>
  PROVE  Inv'
<1>1. Counts' /\ Link' /\ Kept' /\ Ready'
  BY DEF Inv, Counts, Link, Kept, Ready, Bound, OnStream, setupVars, natsVars
<1>2. AllNoticed'
  BY DEF Inv, AllNoticed, Noticed, Pending, natsVars
<1>3. Underway'
  BY DEF Inv, Underway, Good, Pending, Taken, OnStream, SharedWith, BoundServices, setupVars
<1> QED
  BY <1>1, <1>2, <1>3 DEF Inv

LEMMA MessageInv ==
  ASSUME Inv,
         \/ \E m \in WorkMsgs : publish(m) \/ workHandler(m)
         \/ \E s \in Services : subscriptionTimeout(s) \/ unregister(s)
         \/ WorkQueueStep
  PROVE  Inv'
<1>2. ASSUME NEW m \in WorkMsgs, publish(m), KindOf[ServiceOf[m]] = "core"
      PROVE  Inv'
  <2>1. /\ ServiceOf[m] \in Services /\ ~OnStream(ServiceOf[m])
        /\ UNCHANGED <<checking, subscribing, found, prepared, setupVars, natsVars, held,
                       contended>>
        /\ live' = [live EXCEPT ![ServiceOf[m]] = 0]
    BY <1>2, JsServerAssumption DEF JsServerAssumption, OnStream, publish
  <2>2. /\ live' \in [Services -> Nat]
        /\ \A t \in Services : t # ServiceOf[m] => live'[t] = live[t]
    BY <2>1 DEF Inv, Counts
  <2> QED
    BY <2>1, <2>2, CoreEndsInv
<1>3. ASSUME NEW s \in Services, subscriptionTimeout(s)
      PROVE  Inv'
  <2>1. /\ ~OnStream(s) /\ live[s] > 0 /\ live' = [live EXCEPT ![s] = @ - 1]
        /\ UNCHANGED <<checking, subscribing, found, prepared, setupVars, natsVars, held,
                       contended>>
    BY <1>3 DEF subscriptionTimeout, OnStream
  <2>2. live' \in [Services -> Nat] /\ \A t \in Services : t # s => live'[t] = live[t]
    BY <2>1 DEF Inv, Counts
  <2> QED
    BY <2>1, <2>2, CoreEndsInv
<1>4. CASE \/ \E m \in WorkMsgs : (publish(m) /\ KindOf[ServiceOf[m]] # "core") \/ workHandler(m)
           \/ \E s \in Services : unregister(s)
           \/ WorkQueueStep
  <2>1. UNCHANGED <<checking, subscribing, found, prepared, live, held, contended,
                    setupVars, natsVars>>
    BY <1>4 DEF publish, workHandler, unregister, WorkQueueStep, serverVars, registryVars, vars
  <2> QED
    BY <2>1, NothingInv
<1> QED
  BY <1>2, <1>3, <1>4

-----------------------------------------------------------------------------
(* Connection and setup *)

LEMMA ConnectionInv ==
  ASSUME Inv, ConnectionStep \/ drain \/ closed
  PROVE  Inv'
<1>1. UNCHANGED <<checking, subscribing, found, held, contended, setupVars>>
  BY DEF ConnectionStep, drain, closed
<1>2. \/ live' = live /\ prepared' = prepared /\ (ConnectStep \/ Reconnect)
      \/ live' = live /\ prepared' = {} /\ Disconnect
      \/ live' = Nothing /\ prepared' = {} /\ disconnect
      \/ live' = Nothing /\ prepared' = prepared /\ Closed
  BY DEF ConnectionStep, drain, closed
<1>3. Counts'
  BY <1>1, <1>2 DEF Inv, Counts, Nothing
<1>4. Link' /\ (manager => manager')
  BY <1>2 DEF Inv, Link, ConnectStep, connect, connectFails, jetstreamManager,
     jetstreamManagerFails, Reconnect, Disconnect, disconnect, Closed, Returned
<1>5. Kept'
  BY <1>1, <1>4 DEF Inv, Kept, setupVars
<1>6. /\ conn = "up" /\ prepared' # {} => conn' = "up" /\ live' = live /\ prepared' = prepared
      /\ conn # "up" => prepared = {} /\ prepared' = {}
  <2>1. conn # "up" => prepared = {}
    BY DEF Inv, Ready, Bound
  <2>2. conn # "up" => prepared' = {}
    BY <1>2, <2>1
  <2>3. conn = "up" /\ prepared' # {} => conn' = "up" /\ live' = live /\ prepared' = prepared
    BY <1>2 DEF Inv, Link, ConnectStep, connect, connectFails, jetstreamManager,
       jetstreamManagerFails, Reconnect, Closed
  <2> QED
    BY <2>1, <2>2, <2>3
<1>7. Ready'
  BY <1>1, <1>4, <1>6 DEF Inv, Ready, Bound, OnStream, setupVars
<1>8. AllNoticed'
  <2>1. \/ live' = live /\ (conn \in {"draining", "closed"} => conn' = conn)
        \/ conn' \in {"draining", "closed"}
    BY <1>2 DEF Inv, Link, ConnectStep, connect, connectFails, jetstreamManager,
       jetstreamManagerFails, Reconnect, Disconnect, disconnect, Closed
  <2> QED
    BY <1>1, <2>1 DEF Inv, AllNoticed, Noticed, Pending
<1>9. Underway'
  BY <1>1, <1>6 DEF Inv, Underway, Good, Pending, Taken, OnStream, SharedWith,
     BoundServices, setupVars
<1> QED
  BY <1>3, <1>4, <1>5, <1>7, <1>8, <1>9 DEF Inv

\* Only the services of a consumer that is given another inbox are redirected, and
\* it is given one only while it has no subscription.
LEMMA SetupInv ==
  ASSUME Inv, Setup
  PROVE  Inv'
<1>1. UNCHANGED <<checking, subscribing, prepared, held, contended, natsVars>>
  BY DEF Setup, SetupCall, SetupStep, bindStream, streamInfo, streamAdd, streamUpdate,
     OtherBindsStream, bindConsumer, consumerInfo, consumerAdd, consumerUpdate, Binding, Adding
<1>2. /\ stream = "ours" => stream' = "ours"
      /\ \/ consumer' = consumer
         \/ consumer' = "ours" /\ ~ConsumerAttached
  BY DEF Setup, SetupCall, SetupStep, bindStream, streamInfo, streamAdd, streamUpdate,
     OtherBindsStream, bindConsumer, consumerInfo, consumerAdd, consumerUpdate, Binding,
     Adding, Deliverable
<1>3. /\ binding' = "update" => binding = "update" \/ stream' = "ours"
      /\ binding' = "bound" => \/ binding = "bound"
                               \/ manager /\ (stream' = "ours" \/ binding = "update")
      /\ adding' = "bound" => adding = "bound" \/ (manager /\ stream = "ours" /\ consumer' = "ours")
      /\ adding = "bound" => adding' = "bound"
  BY DEF Setup, SetupCall, SetupStep, bindStream, streamInfo, streamAdd, streamUpdate,
     OtherBindsStream, bindConsumer, consumerInfo, consumerAdd, consumerUpdate, Binding,
     Adding, JetStreamAnswers
<1>4. Redirect(IF consumer \notin {"none", consumer'} THEN BoundServices ELSE {})
  BY DEF Setup
<1>5. Counts'
  BY <1>1, <1>4 DEF Inv, Counts, Redirect
<1>6. Link' /\ Kept' /\ Ready'
  BY <1>1, <1>2, <1>3 DEF Inv, Link, Kept, Ready, Bound, OnStream, natsVars
<1>7. ASSUME NEW s \in Services, consumer' = consumer \/ KindOf[s] # "bound"
      PROVE  found'[s] = found[s] /\ live'[s] = live[s]
  BY <1>4, <1>7 DEF Redirect, BoundServices
<1>8. AllNoticed'
  BY <1>1, <1>7 DEF Inv, AllNoticed, Noticed, Pending, natsVars
<1>9. ASSUME NEW s \in prepared
      PROVE  Good(s)'
  <2>1. s \in Services /\ Bound(s) /\ Good(s)
    BY <1>9 DEF Inv, Counts, Ready, Underway
  <2>2. CASE s \in contended
    BY <1>1, <2>2 DEF Good
  <2>3. CASE s \notin contended /\ (consumer' = consumer \/ KindOf[s] # "bound")
    <3>1. Pending(s)' <=> Pending(s)
      BY <1>1, <1>7, <2>1, <2>3 DEF Pending
    <3>2. CASE live[s] > 0
      BY <1>7, <2>1, <2>3, <3>2 DEF Good
    <3>3. CASE Pending(s) /\ ~Taken(s)
      <4>1. \A t \in SharedWith(s) \ {s} : live'[t] = live[t]
        BY <1>7, <2>1, <2>3 DEF SharedWith, BoundServices
      <4>2. ~Taken(s)'
        BY <1>1, <2>1, <2>3, <3>3, <4>1 DEF Taken, OnStream, SharedWith, BoundServices
      <4> QED
        BY <3>1, <3>3, <4>2 DEF Good
    <3> QED
      BY <2>1, <2>3, <3>2, <3>3 DEF Good
  <2>4. CASE s \notin contended /\ consumer' # consumer /\ KindOf[s] = "bound"
    <3>1. ~Attached(s) /\ consumer' = "ours"
      BY <1>2, <2>1, <2>4 DEF ConsumerAttached, BoundServices
    <3>2. ~(live[s] > 0)
      BY <2>1, <3>1, SharesWithItself DEF Attached, Bound
    <3>3. ~Taken(s)
      BY <2>1, <2>4, <3>2 DEF Good
    <3>4. consumer = "ours"
      BY <2>1, <2>4, <3>3 DEF Taken, Bound
    <3> QED
      BY <2>4, <3>1, <3>4
  <2> QED
    BY <2>2, <2>3, <2>4
<1>10. Underway'
  BY <1>1, <1>9 DEF Underway
<1> QED
  BY <1>5, <1>6, <1>8, <1>10 DEF Inv

\* What others do to a consumer without a subscription is noticed by the
\* registrations under way.
LEMMA OthersStep ==
  ASSUME Inv, NEW S \in SUBSET Services, NEW R \in SUBSET S, Redirect(R),
         \A s \in S : SharedWith(s) = S /\ ~Attached(s),
         held \subseteq held', held' \subseteq held \cup S,
         contended' = contended \cup {s \in S : Pending(s)},
         consumer' = consumer \/ (consumer' = "other" /\ S = BoundServices),
         UNCHANGED <<checking, subscribing, prepared, stream, binding, adding, natsVars>>
  PROVE  Inv'
<1>1. Counts'
  BY DEF Inv, Counts, Redirect
<1>2. Link' /\ Kept' /\ Ready'
  BY DEF Inv, Link, Kept, Ready, Bound, OnStream, natsVars
<1>3. ASSUME NEW s \in Services
      PROVE  /\ s \notin S => found'[s] = found[s] /\ live'[s] = live[s]
             /\ Pending(s)' => Pending(s)
             /\ s \notin S => (Pending(s)' <=> Pending(s))
  BY <1>3 DEF Redirect, Pending, Inv, Counts
<1>4. AllNoticed'
  <2>1. ASSUME NEW s \in Services PROVE Noticed(s)'
    <3>1. Noticed(s)
      BY DEF Inv, AllNoticed
    <3>2. CASE s \in S
      BY <1>3, <3>2 DEF Noticed
    <3>3. CASE s \notin S
      BY <1>3, <3>1, <3>3 DEF Noticed, natsVars
    <3> QED
      BY <3>2, <3>3
  <2> QED
    BY <2>1 DEF AllNoticed
<1>5. ASSUME NEW s \in prepared
      PROVE  Good(s)'
  <2>1. s \in Services /\ Bound(s) /\ Good(s)
    BY <1>5 DEF Inv, Counts, Ready, Underway
  <2>2. CASE s \in S
    <3>1. ~(live[s] > 0)
      BY <2>1, <2>2, SharesWithItself DEF Attached, Bound
    <3> QED
      BY <2>1, <2>2, <3>1 DEF Good
  <2>3. CASE s \notin S
    <3>1. \A t \in SharedWith(s) : t \notin S /\ t \in Services
      BY <2>1, <2>3, SharesWithItself, SharedIsMutual
    <3>2. consumer' = consumer \/ KindOf[s] # "bound"
      BY <2>1, <2>3 DEF BoundServices
    <3>3. ~Taken(s) => ~Taken(s)'
      BY <1>3, <2>3, <3>1, <3>2 DEF Taken, OnStream, SharedWith, BoundServices
    <3> QED
      BY <1>3, <2>1, <2>3, <3>3 DEF Good
  <2> QED
    BY <2>2, <2>3
<1>6. Underway'
  BY <1>5 DEF Underway
<1> QED
  BY <1>1, <1>2, <1>4, <1>6 DEF Inv

LEMMA OtherInv ==
  ASSUME Inv,
         \/ OtherBindsConsumer
         \/ \E s \in Services : OtherSubscribes(s) \/ OtherLeaves(s)
  PROVE  Inv'
<1>1. CASE OtherBindsConsumer
  <2>1. /\ ~ConsumerAttached /\ consumer' = "other" /\ Redirect(BoundServices)
        /\ held' = held
        /\ contended' = contended \cup {s \in BoundServices : Pending(s)}
        /\ UNCHANGED <<checking, subscribing, prepared, stream, binding, adding, natsVars>>
    BY <1>1 DEF OtherBindsConsumer, ByAnother
  <2>2. BoundServices \in SUBSET Services /\ BoundServices \in SUBSET BoundServices
    BY DEF BoundServices
  <2>3. \A s \in BoundServices : SharedWith(s) = BoundServices /\ ~Attached(s)
    BY <2>1 DEF ConsumerAttached, SharedWith, BoundServices
  <2> QED
    BY <2>1, <2>2, <2>3, OthersStep
<1>2. ASSUME NEW s \in Services, OtherSubscribes(s)
      PROVE  Inv'
  <2>1. /\ ~Attached(s)
        /\ held' = held \cup SharedWith(s)
        /\ contended' = contended \cup {t \in SharedWith(s) : Pending(t)}
        /\ consumer' = consumer
        /\ UNCHANGED <<checking, subscribing, prepared, stream, binding, adding, natsVars>>
    BY <1>2 DEF OtherSubscribes, ByAnother
  <2>2. PICK moved \in {FALSE, KindOf[s] = "stream"} : Redirect(IF moved THEN {s} ELSE {})
    BY <1>2 DEF OtherSubscribes
  <2> DEFINE R == IF moved THEN {s} ELSE {}
  <2>3. /\ SharedWith(s) \in SUBSET Services /\ R \in SUBSET SharedWith(s)
        /\ R # {} => SharedWith(s) = {s}
    BY SharesWithItself DEF SharedWith
  <2>4. ASSUME NEW t \in SharedWith(s)
        PROVE  SharedWith(t) = SharedWith(s)
    BY SharedIsMutual, SharesWithItself
  <2>5. \A t \in SharedWith(s) : ~Attached(t)
    BY <2>1, <2>4 DEF Attached
  <2>6. Redirect(R)
    BY <2>2
  <2> HIDE DEF R
  <2> QED
    BY <2>1, <2>3, <2>4, <2>5, <2>6, OthersStep
<1>3. ASSUME NEW s \in Services, OtherLeaves(s)
      PROVE  Inv'
  <2>1. /\ held' \subseteq held
        /\ UNCHANGED <<checking, subscribing, found, prepared, live, contended, setupVars,
                       natsVars>>
    BY <1>3 DEF OtherLeaves
  <2>2. Counts' /\ Link' /\ Kept' /\ Ready'
    BY <2>1 DEF Inv, Counts, Link, Kept, Ready, Bound, OnStream, setupVars, natsVars
  <2>3. AllNoticed'
    BY <2>1 DEF Inv, AllNoticed, Noticed, Pending, natsVars
  <2>4. \A s_1 \in Services : Taken(s_1)' => Taken(s_1)
    BY <2>1 DEF Taken, OnStream, SharedWith, BoundServices, setupVars
  <2>5. Underway'
    BY <2>1, <2>4 DEF Inv, Underway, Good, Pending, Counts
  <2> QED
    BY <2>2, <2>3, <2>5 DEF Inv
<1> QED
  BY <1>1, <1>2, <1>3

LEMMA InvInit == Init => Inv
<1> SUFFICES ASSUME Init PROVE Inv
  OBVIOUS
<1>1. Counts
  BY DEF Init, Nothing, Counts
<1>2. Link /\ Kept
  BY DEF Init, JsSetupInit, JsNatsClientInit, Link, Kept
<1>3. Ready /\ AllNoticed /\ Underway
  BY DEF Init, Ready, AllNoticed, Noticed, Underway
<1> QED
  BY <1>1, <1>2, <1>3 DEF Inv

LEMMA InvStep == Inv /\ [Next]_vars => Inv'
<1> SUFFICES ASSUME Inv, [Next]_vars PROVE Inv'
  OBVIOUS
<1>1. CASE UNCHANGED vars
  BY <1>1, NothingInv DEF vars, serverVars, registryVars
<1>2. CASE Next
  BY <1>2, RegisterInv, CheckedInv, SubscribedInv, MessageInv, ConnectionInv, SetupInv,
     OtherInv DEF Next
<1> QED
  BY <1>1, <1>2


\* However setup, checks, registrations and deliveries are interleaved, a
\* service that registered after its setup had succeeded, or whose check passed,
\* receives, unless another process or another service had its consumer meanwhile
\* or the connection was lost (js/nrpc/nrpc_server.js register).
THEOREM SetUpServicesReceive == Spec => []SetUpIsReceiving
<1>1. Inv => SetUpIsReceiving
  BY DEF Inv, Underway, Good, SetUpIsReceiving
<1> QED
  BY <1>1, InvInit, InvStep, PTL DEF Spec

-----------------------------------------------------------------------------
(* What a step does to the work queue *)

Adds(m) ==
  /\ queue' = Append(queue, m)
  /\ added' = Append(added, m)
  /\ UNCHANGED <<processed, cleared, stops>>

Takes ==
  /\ queue # <<>>
  /\ queue' = Tail(queue)
  /\ processed' = Append(processed, Head(queue))
  /\ UNCHANGED <<added, cleared, stops>>

Clears ==
  /\ queue' = <<>>
  /\ cleared' = cleared \cup Range(queue)
  /\ UNCHANGED <<added, processed, stops>>

StopsSafely(n) ==
  /\ stops < MaxStops
  /\ stops' = stops + 1
  /\ processed' = processed \o SubSeq(queue, 1, n)
  /\ UNCHANGED <<queue, added, cleared>>

Keeps == UNCHANGED <<queue, added, processed, cleared, stops>>

QueueMove ==
  \/ \E m \in WorkMsgs : Adds(m)
  \/ Takes
  \/ Clears
  \/ \E n \in 0 .. Len(queue) : StopsSafely(n)
  \/ Keeps

\* Whoever acts, the array and its histories move in one of five ways.
LEMMA QueueMoves == [Next]_vars => QueueMove
<1> SUFFICES ASSUME [Next]_vars PROVE QueueMove
  OBVIOUS
<1>1. CASE UNCHANGED vars
  BY <1>1 DEF vars, queueVars, QueueMove, Keeps
<1>2. ASSUME NEW s \in Services,
             \/ register(s) \/ subscribe(s) \/ subscribeThrows(s) \/ jstreamSubscribe(s)
             \/ lookedUp(s) \/ subscribeRejected(s) \/ subscribed(s) \/ subscribedLate(s)
             \/ unregister(s) \/ subscriptionTimeout(s)
             \/ OtherSubscribes(s) \/ OtherLeaves(s)
      PROVE  QueueMove
  BY <1>2 DEF register, subscribe, subscribeThrows, jstreamSubscribe, lookedUp,
     subscribeRejected, subscribed, subscribedLate, unregister, subscriptionTimeout,
     OtherSubscribes, OtherLeaves, ByAnother, Unhandled, vars, queueVars,
     QueueMove, Keeps
<1>3. ASSUME NEW m \in WorkMsgs, publish(m) \/ workHandler(m)
      PROVE  QueueMove
  BY <1>3 DEF publish, workHandler, addMsg, queueVars, QueueMove, Keeps, Adds
<1>4. CASE WorkQueueStep
  <2>1. ASSUME NEW t \in Timers, Expire(t) \/ ExpireEmpty(t)
        PROVE  Takes \/ Keeps
    BY <2>1 DEF Expire, ExpireEmpty, Process, Takes, Keeps
  <2>2. clearMsg => Clears
    BY DEF clearMsg, Clears
  <2>3. stopSafe => \E n \in 0 .. Len(queue) : StopsSafely(n)
    BY DEF stopSafe, ForEach, StopsSafely
  <2>4. stopUnsafe \/ destroy => Keeps
    BY DEF stopUnsafe, destroy, Keeps
  <2> QED
    BY <1>4, <2>1, <2>2, <2>3, <2>4 DEF WorkQueueStep, QueueStep, QueueMove
<1>5. CASE ConnectionStep \/ drain \/ closed \/ Setup \/ OtherBindsConsumer
  BY <1>5 DEF ConnectionStep, drain, closed, Setup, OtherBindsConsumer, ByAnother,
     Unhandled, queueVars, QueueMove, Keeps
<1> QED
  BY <1>1, <1>2, <1>3, <1>4, <1>5 DEF Next

-----------------------------------------------------------------------------
(* Types *)

Sequenced ==
  /\ queue \in Seq(WorkMsgs)
  /\ added \in Seq(WorkMsgs)
  /\ processed \in Seq(WorkMsgs)
  /\ cleared \subseteq WorkMsgs
  /\ stops \in 0 .. MaxStops

Timing ==
  /\ interval \in 0 .. started
  /\ timers \subseteq 1 .. started
  /\ started \in 0 .. MaxTimers
  /\ listening \in BOOLEAN
  /\ crashed \in BOOLEAN

\* Counts and Link, parts of Inv, have the other types.
Counting ==
  /\ registers \in [Services -> Nat]
  /\ serviceSubs \subseteq Services
  /\ arrived \subseteq WorkMsgs
  /\ copies \in [WorkMsgs -> Nat]
  /\ handled \in [Services -> Nat]

Typed == Sequenced /\ Timing /\ JsSetupTypeOK /\ Counting /\ Inv

LEMMA SubSeqType ==
  ASSUME NEW S, NEW s \in Seq(S), NEW n \in 0 .. Len(s)
  PROVE  /\ SubSeq(s, 1, n) \in Seq(S)
         /\ Len(SubSeq(s, 1, n)) = n
         /\ \A i \in 1 .. n : SubSeq(s, 1, n)[i] = s[i]
<1>1. n \in Nat /\ \A i \in 1 .. n : s[i] \in S
  BY LenProperties, ElementOfSeq
<1> QED
  BY <1>1, SubSeqProperties

LEMMA SequencesStep ==
  ASSUME Sequenced, QueueMove
  PROVE  Sequenced'
<1> USE JsWorkQueueAssumption DEF JsWorkQueueAssumption
<1>1. ASSUME NEW m \in WorkMsgs, Adds(m)
      PROVE  Sequenced'
  BY <1>1, AppendProperties DEF Adds, Sequenced
<1>2. CASE Takes
  BY <1>2, AppendProperties, HeadTailProperties DEF Takes, Sequenced
<1>3. CASE Clears
  BY <1>3, RangeOfSeq, EmptySeq DEF Clears, Sequenced
<1>4. ASSUME NEW n \in 0 .. Len(queue), StopsSafely(n)
      PROVE  Sequenced'
  <2>1. SubSeq(queue, 1, n) \in Seq(WorkMsgs)
    BY SubSeqType DEF Sequenced
  <2> QED
    BY <1>4, <2>1, ConcatProperties DEF StopsSafely, Sequenced
<1>5. CASE Keeps
  BY <1>5 DEF Keeps, Sequenced
<1> QED
  BY <1>1, <1>2, <1>3, <1>4, <1>5 DEF QueueMove

\* A timer is started by an empty interval, forgotten, or cleared.
LEMMA TimingStep ==
  ASSUME Timing, [Next]_vars
  PROVE  Timing'
<1> USE JsWorkQueueAssumption DEF JsWorkQueueAssumption
<1>1. CASE /\ UNCHANGED <<interval, timers, started, listening>>
           /\ crashed' \in BOOLEAN
  BY <1>1 DEF Timing
<1>2. CASE UNCHANGED vars
  BY <1>2 DEF vars, queueVars, Timing
<1>3. ASSUME NEW s \in Services,
             \/ register(s) \/ subscribe(s) \/ subscribeThrows(s) \/ jstreamSubscribe(s)
             \/ lookedUp(s) \/ subscribeRejected(s) \/ subscribed(s) \/ subscribedLate(s)
             \/ unregister(s) \/ subscriptionTimeout(s)
             \/ OtherSubscribes(s) \/ OtherLeaves(s)
      PROVE  Timing'
  BY <1>1, <1>2, <1>3 DEF register, subscribe, subscribeThrows, jstreamSubscribe, lookedUp,
     subscribeRejected, subscribed, subscribedLate, unregister, subscriptionTimeout,
     OtherSubscribes, OtherLeaves, ByAnother, Unhandled, queueVars, Timing
<1>4. ASSUME NEW m \in WorkMsgs, publish(m) \/ workHandler(m)
      PROVE  Timing'
  <2>1. CASE UNCHANGED <<interval, timers, started, listening>> /\ crashed' \in BOOLEAN
    BY <1>1, <2>1
  <2>2. CASE addMsg(m) /\ listening /\ interval = NoTimer
    <3>1. started < MaxTimers /\ started' = started + 1 /\ interval' = started'
          /\ timers' = timers \cup {started'} /\ UNCHANGED <<listening, crashed>>
      BY <2>2 DEF addMsg, dispatch
    <3> QED
      BY <3>1 DEF Timing
  <2>3. publish(m) => UNCHANGED <<interval, timers, started, listening, crashed>>
    BY DEF publish, queueVars
  <2>4. addMsg(m) =>
          \/ UNCHANGED <<interval, timers, started, listening, crashed>>
          \/ listening /\ interval = NoTimer
    BY DEF addMsg, dispatch
  <2>5. workHandler(m) =>
          \/ addMsg(m)
          \/ UNCHANGED <<interval, timers, started, listening>> /\ crashed' \in BOOLEAN
    BY DEF workHandler
  <2> QED
    BY <1>4, <2>1, <2>2, <2>3, <2>4, <2>5 DEF Timing
<1>5. CASE WorkQueueStep
  <2>1. crashed' \in BOOLEAN
    <3>1. ASSUME NEW t \in Timers, Expire(t) \/ ExpireEmpty(t)
          PROVE  crashed' = crashed \/ crashed' = TRUE \/ crashed' = FALSE
      BY <3>1 DEF Expire, ExpireEmpty, Process
    <3>2. clearMsg \/ stopSafe \/ stopUnsafe \/ destroy =>
            crashed' = crashed \/ crashed' = TRUE \/ crashed' = FALSE
      BY DEF clearMsg, stopSafe, ForEach, stopUnsafe, destroy
    <3>3. crashed' = crashed \/ crashed' = TRUE \/ crashed' = FALSE
      BY <1>5, <3>1, <3>2 DEF WorkQueueStep, QueueStep
    <3> QED
      BY <3>3 DEF Timing
  <2>2. listening' \in BOOLEAN
    <3>1. ASSUME NEW t \in Timers, Expire(t) \/ ExpireEmpty(t)
          PROVE  listening' = listening
      BY <3>1 DEF Expire, ExpireEmpty
    <3>2. clearMsg \/ stopSafe \/ stopUnsafe \/ destroy =>
            listening' = listening \/ listening' = FALSE
      BY DEF clearMsg, stopSafe, stopUnsafe, destroy
    <3>3. listening' = listening \/ listening' = FALSE
      BY <1>5, <3>1, <3>2 DEF WorkQueueStep, QueueStep
    <3> QED
      BY <3>3 DEF Timing
  <2>3. /\ interval' = interval \/ interval' = 0
        /\ timers' = timers \/ timers' = timers \ {interval}
        /\ started' = started
    <3>1. ASSUME NEW t \in Timers, Expire(t) \/ ExpireEmpty(t)
          PROVE  /\ interval' = interval \/ interval' = 0
                 /\ UNCHANGED <<timers, started>>
      BY <3>1 DEF Expire, ExpireEmpty, NoTimer
    <3>2. stopSafe \/ stopUnsafe =>
            interval' = 0 /\ timers' = timers \ {interval} /\ started' = started
      BY DEF stopSafe, stopUnsafe, ClearInterval, NoTimer
    <3>3. clearMsg \/ destroy => UNCHANGED <<interval, timers, started>>
      BY DEF clearMsg, destroy
    <3> QED
      BY <1>5, <3>1, <3>2, <3>3 DEF WorkQueueStep, QueueStep
  <2>4. interval' \in 0 .. started' /\ timers' \subseteq 1 .. started'
    <3>1. started \in Nat /\ interval \in 0 .. started /\ timers \subseteq 1 .. started
      BY DEF Timing
    <3>2. interval' \in 0 .. started /\ timers' \subseteq timers
      BY <2>3, <3>1
    <3> QED
      BY <2>3, <3>1, <3>2
  <2>5. started' \in 0 .. MaxTimers
    BY <2>3 DEF Timing
  <2> QED
    BY <2>1, <2>2, <2>4, <2>5 DEF Timing
<1>6. CASE ConnectionStep \/ drain \/ closed \/ Setup \/ OtherBindsConsumer
  BY <1>1, <1>6 DEF ConnectionStep, drain, closed, Setup, OtherBindsConsumer, ByAnother,
     Unhandled, queueVars, Timing
<1> QED
  BY <1>2, <1>3, <1>4, <1>5, <1>6 DEF Next

LEMMA SetupTypesStep ==
  ASSUME JsSetupTypeOK, [Next]_vars
  PROVE  JsSetupTypeOK'
<1>1. CASE UNCHANGED <<setupVars, natsVars>>
  BY <1>1 DEF JsSetupTypeOK, JsNatsClientTypeOK, setupVars, natsVars
<1>2. CASE ConnectionStep \/ drain \/ closed
  <2>1. UNCHANGED setupVars
    BY <1>2 DEF ConnectionStep, drain, closed
  <2>2. JsNatsClientTypeOK'
    BY <1>2 DEF JsSetupTypeOK, JsNatsClientTypeOK, ConnectionStep, drain, closed, ConnectStep,
       connect, connectFails, jetstreamManager, jetstreamManagerFails, Reconnect,
       Disconnect, disconnect, Closed
  <2> QED
    BY <2>1, <2>2 DEF JsSetupTypeOK, setupVars
<1>3. CASE Setup
  BY <1>3 DEF Setup, SetupCall, SetupStep, bindStream, streamInfo, streamAdd, streamUpdate,
     OtherBindsStream, bindConsumer, consumerInfo, consumerAdd, consumerUpdate, Binding,
     Adding, JetStreamAnswers, JsSetupTypeOK, JsNatsClientTypeOK, natsVars
<1>4. CASE UNCHANGED vars
  BY <1>1, <1>4 DEF vars
<1>5. ASSUME NEW s \in Services,
             \/ register(s) \/ subscribe(s) \/ subscribeThrows(s) \/ jstreamSubscribe(s)
             \/ lookedUp(s) \/ subscribeRejected(s) \/ subscribed(s) \/ subscribedLate(s)
             \/ unregister(s) \/ subscriptionTimeout(s)
             \/ OtherLeaves(s)
      PROVE  UNCHANGED <<setupVars, natsVars>>
  BY <1>5 DEF register, subscribe, subscribeThrows, jstreamSubscribe, Checked, lookedUp,
     subscribeRejected, Subscribing, subscribed, subscribedLate, Subscribes, unregister,
     subscriptionTimeout, OtherLeaves, vars
<1>6. ASSUME NEW m \in WorkMsgs, publish(m) \/ workHandler(m)
      PROVE  UNCHANGED <<setupVars, natsVars>>
  BY <1>6 DEF publish, workHandler
<1>7. CASE OtherBindsConsumer
  BY <1>7 DEF OtherBindsConsumer, ByAnother, JsSetupTypeOK, JsNatsClientTypeOK, natsVars
<1>8. ASSUME NEW s \in Services, OtherSubscribes(s)
      PROVE  UNCHANGED <<setupVars, natsVars>>
  <2>1. consumer' = consumer
    BY <1>8 DEF OtherSubscribes
  <2>2. UNCHANGED <<stream, binding, adding, updating, natsVars>>
    BY <1>8 DEF OtherSubscribes, ByAnother
  <2> QED
    BY <2>1, <2>2 DEF setupVars
<1> QED
  BY <1>1, <1>2, <1>3, <1>4, <1>5, <1>6, <1>7, <1>8 DEF Next, WorkQueueStep

LEMMA CountingStep ==
  ASSUME Counting, Counts, [Next]_vars
  PROVE  Counting'
<1>1. CASE UNCHANGED <<registers, serviceSubs, deliveryVars>>
  BY <1>1 DEF Counting, deliveryVars
<1>2. CASE UNCHANGED vars
  BY <1>1, <1>2 DEF vars, serverVars, registryVars
<1>3. ASSUME NEW s \in Services, register(s)
      PROVE  Counting'
  BY <1>3 DEF register, deliveryVars, Counting
<1>4. ASSUME NEW s \in Services, subscribe(s) \/ subscribeThrows(s) \/ jstreamSubscribe(s)
      PROVE  Counting'
  BY <1>4 DEF subscribe, subscribeThrows, jstreamSubscribe, Checked, deliveryVars, Counting
<1>5. ASSUME NEW s \in Services,
             \/ lookedUp(s) \/ subscribeRejected(s) \/ subscribed(s) \/ subscribedLate(s)
             \/ unregister(s) \/ subscriptionTimeout(s)
             \/ OtherSubscribes(s) \/ OtherLeaves(s)
      PROVE  UNCHANGED <<registers, serviceSubs, deliveryVars>>
  BY <1>5 DEF lookedUp, subscribeRejected, Subscribing, subscribed, subscribedLate, Subscribes,
     unregister, subscriptionTimeout, OtherSubscribes, OtherLeaves, ByAnother, vars, serverVars, registryVars
<1>6. ASSUME NEW m \in WorkMsgs, publish(m)
      PROVE  Counting'
  <2>1. live[ServiceOf[m]] \in Nat
    BY JsServerAssumption DEF JsServerAssumption, Counts
  <2> QED
    BY <1>6, <2>1 DEF publish, Counting
<1>7. ASSUME NEW m \in WorkMsgs, workHandler(m)
      PROVE  Counting'
  <2>1. /\ copies[m] > 0 /\ copies' = [copies EXCEPT ![m] = @ - 1]
        /\ handled' = [handled EXCEPT ![ServiceOf[m]] = @ + 1]
        /\ UNCHANGED <<registers, serviceSubs, arrived>>
    BY <1>7 DEF workHandler, registryVars
  <2>2. copies[m] \in Nat /\ ServiceOf[m] \in Services
    BY JsServerAssumption DEF JsServerAssumption, Counting
  <2>3. copies' \in [WorkMsgs -> Nat]
    BY <2>1, <2>2 DEF Counting
  <2>4. handled' \in [Services -> Nat]
    BY <2>1, <2>2 DEF Counting
  <2> QED
    BY <2>1, <2>3, <2>4 DEF Counting
<1>8. CASE WorkQueueStep \/ ConnectionStep \/ drain \/ Setup \/ OtherBindsConsumer
  BY <1>1, <1>8 DEF WorkQueueStep, ConnectionStep, drain, Setup, OtherBindsConsumer,
     ByAnother, serverVars, registryVars
<1>9. CASE closed
  BY <1>9 DEF closed, Counting
<1> QED
  BY <1>1, <1>2, <1>3, <1>4, <1>5, <1>6, <1>7, <1>8, <1>9 DEF Next

LEMMA TypedInit == Init => Typed
<1> SUFFICES ASSUME Init PROVE Typed
  OBVIOUS
<1> USE JsWorkQueueAssumption DEF JsWorkQueueAssumption
<1>1. Sequenced
  BY EmptySeq DEF Init, JsWorkQueueInit, Sequenced
<1>2. Timing
  <2>1. interval \in 0 .. started /\ timers \subseteq 1 .. started /\ started \in 0 .. MaxTimers
    BY DEF Init, JsWorkQueueInit, NoTimer
  <2>2. listening \in BOOLEAN /\ crashed \in BOOLEAN
    BY DEF Init, JsWorkQueueInit
  <2> QED
    BY <2>1, <2>2 DEF Timing
<1>3. JsSetupTypeOK
  BY DEF Init, JsSetupInit, JsNatsClientInit, JsSetupTypeOK, JsNatsClientTypeOK
<1>4. Counting
  BY DEF Init, Nothing, Counting
<1> QED
  BY <1>1, <1>2, <1>3, <1>4, InvInit DEF Typed

LEMMA TypedStep == Typed /\ [Next]_vars => Typed'
BY QueueMoves, SequencesStep, TimingStep, SetupTypesStep, CountingStep, InvStep
   DEF Typed, Inv

\* In every step of the work queue, the connection, the setup and the services
\* the variables keep their types (js/nrpc/nrpc_server.js).
THEOREM TypesAreKept == Spec => []TypeOK
<1>1. Sequenced /\ Timing => JsWorkQueueTypeOK
  BY DEF Sequenced, Timing, JsWorkQueueTypeOK
<1>2. Typed => TypeOK
  BY <1>1 DEF Typed, Counting, Inv, Counts, Link, TypeOK
<1> QED
  BY <1>2, TypedInit, TypedStep, PTL DEF Spec

-----------------------------------------------------------------------------
(* The order of the array *)

In(seq, x) == \E i \in 1 .. Len(seq) : seq[i] = x

LEMMA RangeIsIn ==
  ASSUME NEW S, NEW s \in Seq(S), NEW x
  PROVE  x \in Range(s) <=> In(s, x)
BY RangeEquality DEF In

LEMMA InConcat ==
  ASSUME NEW S, NEW s \in Seq(S), NEW t \in Seq(S), NEW x, In(s \o t, x)
  PROVE  In(s, x) \/ In(t, x)
<1>1. PICK i \in 1 .. Len(s \o t) : (s \o t)[i] = x
  BY DEF In
<1>2. Len(s) \in Nat /\ Len(t) \in Nat /\ Len(s \o t) = Len(s) + Len(t)
  BY LenProperties, ConcatProperties
<1>3. CASE i <= Len(s)
  BY <1>1, <1>2, <1>3, ConcatProperties DEF In
<1>4. CASE ~(i <= Len(s))
  <2>1. i - Len(s) \in 1 .. Len(t) /\ t[i - Len(s)] = x
    BY <1>1, <1>2, <1>4, ConcatProperties
  <2> QED
    BY <2>1 DEF In
<1> QED
  BY <1>3, <1>4

\* What is in a sequence stays where it is when the sequence grows.
LEMMA BeforeGrows ==
  ASSUME NEW S, NEW s \in Seq(S), NEW t \in Seq(S), NEW m, NEW n, Before(s, m, n)
  PROVE  Before(s \o t, m, n)
<1>1. PICK i \in 1 .. Len(s) : s[i] = m /\ \A j \in 1 .. i : s[j] # n
  BY DEF Before
<1>2. Len(s) \in Nat /\ Len(t) \in Nat /\ Len(s \o t) = Len(s) + Len(t)
  BY LenProperties, ConcatProperties
<1>3. \A j \in 1 .. i : (s \o t)[j] = s[j]
  BY <1>2, ConcatProperties
<1> QED
  BY <1>1, <1>2, <1>3 DEF Before

\* The first of a message that was not there is behind everything.
LEMMA BeforeNew ==
  ASSUME NEW S, NEW s \in Seq(S), NEW t \in Seq(S), NEW m, NEW n,
         ~In(s, n), Before(t, m, n)
  PROVE  Before(s \o t, m, n)
<1>1. PICK i \in 1 .. Len(t) : t[i] = m /\ \A j \in 1 .. i : t[j] # n
  BY DEF Before
<1>2. Len(s) \in Nat /\ Len(t) \in Nat /\ Len(s \o t) = Len(s) + Len(t)
  BY LenProperties, ConcatProperties
<1>3. Len(s) + i \in 1 .. Len(s \o t) /\ (s \o t)[Len(s) + i] = m
  BY <1>1, <1>2, ConcatProperties
<1>4. ASSUME NEW j \in 1 .. Len(s) + i
      PROVE  (s \o t)[j] # n
  <2>1. CASE j <= Len(s)
    BY <1>2, <2>1, ConcatProperties DEF In
  <2>2. CASE ~(j <= Len(s))
    <3>1. j - Len(s) \in 1 .. i /\ (s \o t)[j] = t[j - Len(s)]
      BY <1>1, <1>2, <2>2, ConcatProperties
    <3> QED
      BY <1>1, <3>1
  <2> QED
    BY <2>1, <2>2
<1> QED
  BY <1>3, <1>4 DEF Before

LEMMA OneElement ==
  ASSUME NEW S, NEW x \in S
  PROVE  <<x>> \in Seq(S) /\ Len(<<x>>) = 1 /\ <<x>>[1] = x
OBVIOUS

\* Whoever is before another in a sequence with one more element was before it,
\* or is that element.
LEMMA BeforeInAppend ==
  ASSUME NEW S, NEW s \in Seq(S), NEW x \in S, NEW m, NEW n,
         Before(Append(s, x), m, n)
  PROVE  Before(s, m, n) \/ (m = x /\ m # n /\ ~In(s, n))
<1>1. Len(s) \in Nat /\ Len(Append(s, x)) = Len(s) + 1
  BY LenProperties, AppendProperties
<1>2. /\ \A i \in 1 .. Len(s) : Append(s, x)[i] = s[i]
      /\ Append(s, x)[Len(s) + 1] = x
  BY AppendProperties
<1>3. PICK i \in 1 .. Len(s) + 1 :
        Append(s, x)[i] = m /\ \A j \in 1 .. i : Append(s, x)[j] # n
  BY <1>1 DEF Before
<1>4. CASE i <= Len(s)
  <2>1. i \in 1 .. Len(s) /\ s[i] = m /\ \A j \in 1 .. i : s[j] # n
    BY <1>1, <1>2, <1>3, <1>4
  <2> QED
    BY <2>1 DEF Before
<1>5. CASE i = Len(s) + 1
  <2>1. m = x /\ m # n
    BY <1>1, <1>2, <1>3, <1>5
  <2>2. \A j \in 1 .. Len(s) : s[j] # n
    BY <1>1, <1>2, <1>3, <1>5
  <2> QED
    BY <2>1, <2>2 DEF In
<1> QED
  BY <1>1, <1>4, <1>5

\* A message is before another in the first n elements, or neither is there.
LEMMA BeforeInPrefix ==
  ASSUME NEW S, NEW s \in Seq(S), NEW k \in 0 .. Len(s), NEW m, NEW n, Before(s, m, n)
  PROVE  Before(SubSeq(s, 1, k), m, n) \/ ~In(SubSeq(s, 1, k), n)
<1>1. PICK i \in 1 .. Len(s) : s[i] = m /\ \A j \in 1 .. i : s[j] # n
  BY DEF Before
<1>2. k \in Nat /\ Len(s) \in Nat
  BY LenProperties
<1>3. CASE i <= k
  <2>1. /\ i \in 1 .. Len(SubSeq(s, 1, k)) /\ SubSeq(s, 1, k)[i] = m
        /\ \A j \in 1 .. i : SubSeq(s, 1, k)[j] # n
    BY <1>1, <1>2, <1>3, SubSeqType
  <2> QED
    BY <2>1 DEF Before
<1>4. CASE ~(i <= k)
  <2>1. \A j \in 1 .. Len(SubSeq(s, 1, k)) : SubSeq(s, 1, k)[j] # n
    BY <1>1, <1>2, <1>4, SubSeqType
  <2> QED
    BY <2>1 DEF In
<1> QED
  BY <1>3, <1>4

LEMMA BeforeInTail ==
  ASSUME NEW S, NEW s \in Seq(S), s # <<>>, NEW m, NEW n, Before(s, m, n)
  PROVE  Head(s) # n /\ (Head(s) = m \/ Before(Tail(s), m, n))
<1>1. PICK i \in 1 .. Len(s) : s[i] = m /\ \A j \in 1 .. i : s[j] # n
  BY DEF Before
<1>2. /\ Len(s) \in Nat /\ Len(s) > 0 /\ Head(s) = s[1]
      /\ Len(Tail(s)) = Len(s) - 1
      /\ \A j \in 1 .. Len(s) - 1 : Tail(s)[j] = s[j + 1]
  BY LenProperties, HeadTailProperties, EmptySeq
<1>3. Head(s) # n
  BY <1>1, <1>2
<1>4. CASE i = 1
  BY <1>1, <1>2, <1>3, <1>4
<1>5. CASE i > 1
  <2>1. i - 1 \in 1 .. Len(Tail(s)) /\ Tail(s)[i - 1] = m
    BY <1>1, <1>2, <1>5
  <2>2. \A j \in 1 .. i - 1 : Tail(s)[j] # n
    BY <1>1, <1>2, <1>5
  <2> QED
    BY <1>3, <2>1, <2>2 DEF Before
<1> QED
  BY <1>4, <1>5

\* What is in the array or was processed had been added.
Traced ==
  \A x \in WorkMsgs :
    /\ In(queue, x) => In(added, x)
    /\ In(processed, x) => In(added, x)

\* Where one message was added before another and not cleared, it was processed
\* before, or is still before it in the array, and the other was not processed.
OrderKept ==
  \A m, n \in WorkMsgs :
    Before(added, m, n) /\ m \notin cleared =>
      \/ Before(processed, m, n)
      \/ ~In(processed, n) /\ Before(queue, m, n)

LEMMA InAppend ==
  ASSUME NEW S, NEW s \in Seq(S), NEW x \in S, NEW y
  PROVE  In(Append(s, x), y) <=> In(s, y) \/ y = x
<1>1. /\ Len(s) \in Nat /\ Len(Append(s, x)) = Len(s) + 1
      /\ \A i \in 1 .. Len(s) : Append(s, x)[i] = s[i]
      /\ Append(s, x)[Len(s) + 1] = x
  BY LenProperties, AppendProperties
<1>2. In(Append(s, x), y) <=> \E i \in 1 .. Len(s) + 1 : Append(s, x)[i] = y
  BY <1>1 DEF In
<1>3. In(s, y) <=> \E i \in 1 .. Len(s) : Append(s, x)[i] = y
  BY <1>1 DEF In
<1> QED
  BY <1>1, <1>2, <1>3

LEMMA InTail ==
  ASSUME NEW S, NEW s \in Seq(S), s # <<>>, NEW y
  PROVE  In(Tail(s), y) => In(s, y)
<1>1. /\ Len(s) \in Nat /\ Len(Tail(s)) = Len(s) - 1
      /\ \A j \in 1 .. Len(s) - 1 : Tail(s)[j] = s[j + 1]
  BY LenProperties, HeadTailProperties
<1>2. ASSUME NEW j \in 1 .. Len(s) - 1, Tail(s)[j] = y
      PROVE  j + 1 \in 1 .. Len(s) /\ s[j + 1] = y
  BY <1>1, <1>2
<1> QED
  BY <1>1, <1>2 DEF In

LEMMA InHead ==
  ASSUME NEW S, NEW s \in Seq(S), s # <<>>
  PROVE  Head(s) \in S /\ In(s, Head(s))
<1>1. Len(s) \in Nat /\ Len(s) > 0 /\ Head(s) = s[1] /\ Head(s) \in S
  BY LenProperties, HeadTailProperties, EmptySeq
<1> QED
  BY <1>1 DEF In

LEMMA InPrefix ==
  ASSUME NEW S, NEW s \in Seq(S), NEW k \in 0 .. Len(s), NEW y, In(SubSeq(s, 1, k), y)
  PROVE  In(s, y)
<1>1. k \in Nat /\ Len(s) \in Nat
  BY LenProperties
<1>2. PICK i \in 1 .. k : SubSeq(s, 1, k)[i] = y
  BY SubSeqType DEF In
<1>3. i \in 1 .. Len(s) /\ s[i] = y
  BY <1>1, <1>2, SubSeqType
<1> QED
  BY <1>3 DEF In

LEMMA TracedStep ==
  ASSUME Sequenced, Traced, QueueMove
  PROVE  Traced'
<1> USE DEF Sequenced
<1>1. ASSUME NEW m \in WorkMsgs, Adds(m)
      PROVE  Traced'
  BY <1>1, InAppend DEF Adds, Traced
<1>2. CASE Takes
  <2>1. ASSUME NEW x \in WorkMsgs
        PROVE  /\ In(Tail(queue), x) => In(added, x)
               /\ In(Append(processed, Head(queue)), x) => In(added, x)
    BY <1>2, InTail, InHead, InAppend DEF Takes, Traced
  <2> QED
    BY <1>2, <2>1 DEF Takes, Traced
<1>3. CASE Clears
  <2>1. \A x \in WorkMsgs : ~In(<<>>, x)
    BY DEF In
  <2> QED
    BY <1>3, <2>1 DEF Clears, Traced
<1>4. ASSUME NEW n \in 0 .. Len(queue), StopsSafely(n)
      PROVE  Traced'
  <2>1. SubSeq(queue, 1, n) \in Seq(WorkMsgs)
    BY SubSeqType
  <2>2. ASSUME NEW x \in WorkMsgs, In(processed \o SubSeq(queue, 1, n), x)
        PROVE  In(added, x)
    <3>1. In(processed, x) \/ In(SubSeq(queue, 1, n), x)
      BY <2>1, <2>2, InConcat
    <3> QED
      BY <3>1, InPrefix DEF Traced
  <2> QED
    BY <1>4, <2>2 DEF StopsSafely, Traced
<1>5. CASE Keeps
  BY <1>5 DEF Keeps, Traced
<1> QED
  BY <1>1, <1>2, <1>3, <1>4, <1>5 DEF QueueMove

LEMMA OrderStep ==
  ASSUME Sequenced, Traced, OrderKept, QueueMove
  PROVE  OrderKept'
<1> USE DEF Sequenced
<1>1. ASSUME NEW x \in WorkMsgs, Adds(x)
      PROVE  OrderKept'
  <2>1. ASSUME NEW m \in WorkMsgs, NEW n \in WorkMsgs,
               Before(Append(added, x), m, n), m \notin cleared
        PROVE  \/ Before(processed, m, n)
               \/ ~In(processed, n) /\ Before(Append(queue, x), m, n)
    <3>1. Append(queue, x) = queue \o <<x>> /\ <<x>> \in Seq(WorkMsgs)
      BY AppendIsConcat, OneElement
    <3>2. CASE Before(added, m, n)
      BY <2>1, <3>1, <3>2, BeforeGrows DEF OrderKept
    <3>3. CASE m = x /\ m # n /\ ~In(added, n)
      <4>1. ~In(processed, n) /\ ~In(queue, n)
        BY <3>3 DEF Traced
      <4>2. Before(<<x>>, m, n)
        BY <3>3, OneElement DEF Before
      <4> QED
        BY <3>1, <4>1, <4>2, BeforeNew
    <3> QED
      BY <2>1, <3>2, <3>3, BeforeInAppend
  <2> QED
    BY <1>1, <2>1 DEF Adds, OrderKept
<1>2. CASE Takes
  <2>1. Head(queue) \in WorkMsgs /\ queue # <<>>
    BY <1>2, HeadTailProperties DEF Takes
  <2>2. ASSUME NEW m \in WorkMsgs, NEW n \in WorkMsgs,
               Before(added, m, n), m \notin cleared
        PROVE  \/ Before(Append(processed, Head(queue)), m, n)
               \/ ~In(Append(processed, Head(queue)), n) /\ Before(Tail(queue), m, n)
    <3>1. /\ Append(processed, Head(queue)) = processed \o <<Head(queue)>>
          /\ <<Head(queue)>> \in Seq(WorkMsgs)
      BY <2>1, AppendIsConcat, OneElement
    <3>2. CASE Before(processed, m, n)
      BY <3>1, <3>2, BeforeGrows
    <3>3. CASE ~In(processed, n) /\ Before(queue, m, n)
      <4>1. Head(queue) # n /\ (Head(queue) = m \/ Before(Tail(queue), m, n))
        BY <2>1, <3>3, BeforeInTail
      <4>2. ~In(Append(processed, Head(queue)), n)
        BY <2>1, <3>3, <4>1, InAppend
      <4>3. CASE Head(queue) = m
        <5>1. Before(<<Head(queue)>>, m, n)
          BY <2>1, <4>1, <4>3, OneElement DEF Before
        <5> QED
          BY <3>1, <3>3, <5>1, BeforeNew
      <4> QED
        BY <4>1, <4>2, <4>3
    <3> QED
      BY <2>2, <3>2, <3>3 DEF OrderKept
  <2> QED
    BY <1>2, <2>2 DEF Takes, OrderKept
<1>3. CASE Clears
  <2>1. ASSUME NEW m \in WorkMsgs, NEW n \in WorkMsgs,
               Before(added, m, n), m \notin cleared \cup Range(queue)
        PROVE  Before(processed, m, n)
    <3>1. ~In(queue, m)
      BY <2>1, RangeIsIn
    <3>2. ~Before(queue, m, n)
      BY <3>1 DEF Before, In
    <3> QED
      BY <2>1, <3>2 DEF OrderKept
  <2> QED
    BY <1>3, <2>1 DEF Clears, OrderKept
<1>4. ASSUME NEW k \in 0 .. Len(queue), StopsSafely(k)
      PROVE  OrderKept'
  <2>1. SubSeq(queue, 1, k) \in Seq(WorkMsgs)
    BY SubSeqType
  <2>2. ASSUME NEW m \in WorkMsgs, NEW n \in WorkMsgs,
               Before(added, m, n), m \notin cleared
        PROVE  \/ Before(processed \o SubSeq(queue, 1, k), m, n)
               \/ /\ ~In(processed \o SubSeq(queue, 1, k), n)
                  /\ Before(queue, m, n)
    <3>1. CASE Before(processed, m, n)
      BY <2>1, <3>1, BeforeGrows
    <3>2. CASE ~In(processed, n) /\ Before(queue, m, n)
      <4>1. Before(SubSeq(queue, 1, k), m, n) \/ ~In(SubSeq(queue, 1, k), n)
        BY <3>2, BeforeInPrefix
      <4>2. CASE Before(SubSeq(queue, 1, k), m, n)
        BY <2>1, <3>2, <4>2, BeforeNew
      <4>3. CASE ~In(SubSeq(queue, 1, k), n)
        BY <2>1, <3>2, <4>3, InConcat
      <4> QED
        BY <4>1, <4>2, <4>3
    <3> QED
      BY <2>2, <3>1, <3>2 DEF OrderKept
  <2> QED
    BY <1>4, <2>2 DEF StopsSafely, OrderKept
<1>5. CASE Keeps
  BY <1>5 DEF Keeps, OrderKept
<1> QED
  BY <1>1, <1>2, <1>3, <1>4, <1>5 DEF QueueMove

\* However many timers empty the array, started again by every message that
\* follows an empty array and never cleared, and whoever stops or clears it,
\* messages are first processed in the order they were added.
THEOREM ArrayKeepsOrder == Spec => []ProcessedInOrder
<1> DEFINE Order == Typed /\ Traced /\ OrderKept
<1>1. Init => Order
  <2> SUFFICES ASSUME Init PROVE Order
    OBVIOUS
  <2>1. added = <<>> /\ queue = <<>> /\ processed = <<>>
    BY DEF Init, JsWorkQueueInit
  <2>2. \A m, n : ~Before(<<>>, m, n) /\ ~In(<<>>, m)
    BY DEF In, Before
  <2>3. Traced /\ OrderKept
    BY <2>1, <2>2 DEF Traced, OrderKept
  <2> QED
    BY <2>3, TypedInit
<1>2. Order /\ [Next]_vars => Order'
  BY TypedStep, TracedStep, OrderStep, QueueMoves DEF Typed
<1>3. Order => ProcessedInOrder
  <2> SUFFICES ASSUME Order, NEW m \in WorkMsgs, NEW n \in WorkMsgs,
                      Before(added, m, n), n \in Range(processed), m \notin cleared
               PROVE  Before(processed, m, n)
    BY DEF ProcessedInOrder
  <2>1. In(processed, n)
    BY RangeIsIn DEF Typed, Sequenced
  <2> QED
    BY <2>1 DEF OrderKept
<1> QED
  BY <1>1, <1>2, <1>3, PTL DEF Spec

-----------------------------------------------------------------------------
(* How often a message is processed *)

Places(seq, m) == {i \in 1 .. Len(seq) : seq[i] = m}

LEMMA TimesIsSize == \A seq, m : Times(seq, m) = Cardinality(Places(seq, m))
BY DEF Times, Places

LEMMA PlacesFinite ==
  ASSUME NEW S, NEW s \in Seq(S), NEW m
  PROVE  IsFiniteSet(Places(s, m)) /\ Times(s, m) \in Nat
<1>1. Len(s) \in Nat
  BY LenProperties
<1>2. IsFiniteSet(1 .. Len(s)) /\ Places(s, m) \in SUBSET (1 .. Len(s))
  BY <1>1, FS_Interval DEF Places
<1>3. IsFiniteSet(Places(s, m))
  BY <1>2, FS_Subset
<1> QED
  BY <1>3, FS_CardinalityType, TimesIsSize

\* A set of positions moved along is as large.
LEMMA Moved ==
  ASSUME NEW A, NEW B, IsFiniteSet(B), NEW d \in Int, A \subseteq Int, B \subseteq Int,
         \A i \in A : i + d \in B
  PROVE  IsFiniteSet(A) /\ Cardinality(A) <= Cardinality(B)
<1> DEFINE f == [i \in A |-> i + d]
<1>1. f \in [A -> B] /\ \A i, j \in A : f[i] = f[j] => i = j
  OBVIOUS
<1>2. f \in Injection(A, B)
  BY <1>1 DEF Injection, IsInjective
<1> QED
  BY <1>2, FS_Injection

LEMMA TimesOfNothing == \A m : Times(<<>>, m) = 0
<1> SUFFICES ASSUME NEW m PROVE Times(<<>>, m) = 0
  OBVIOUS
<1>1. Places(<<>>, m) = {}
  BY DEF Places
<1> QED
  BY <1>1, FS_EmptySet, TimesIsSize

LEMMA TimesConcat ==
  ASSUME NEW S, NEW s \in Seq(S), NEW t \in Seq(S), NEW m
  PROVE  Times(s \o t, m) <= Times(s, m) + Times(t, m)
<1> DEFINE A == Places(s, m)
           B == {i \in Len(s) + 1 .. Len(s) + Len(t) : t[i - Len(s)] = m}
<1>1. Len(s) \in Nat /\ Len(t) \in Nat /\ Len(s \o t) = Len(s) + Len(t)
  BY LenProperties, ConcatProperties
<1>2. IsFiniteSet(A) /\ IsFiniteSet(Places(t, m))
  BY PlacesFinite
<1>3. IsFiniteSet(B) /\ Cardinality(B) <= Cardinality(Places(t, m))
  <2>1. B \subseteq Int /\ Places(t, m) \subseteq Int /\ -Len(s) \in Int
    BY <1>1 DEF Places
  <2>2. \A i \in B : i + (-Len(s)) \in Places(t, m)
    BY <1>1 DEF Places
  <2> HIDE DEF B
  <2> QED
    BY <1>2, <2>1, <2>2, Moved
<1>4. Places(s \o t, m) \subseteq A \cup B
  <2> SUFFICES ASSUME NEW i \in Places(s \o t, m) PROVE i \in A \cup B
    OBVIOUS
  <2>1. i \in 1 .. Len(s) + Len(t) /\ (s \o t)[i] = m
    BY <1>1 DEF Places
  <2>2. CASE i <= Len(s)
    BY <1>1, <2>1, <2>2, ConcatProperties DEF Places
  <2>3. CASE ~(i <= Len(s))
    BY <1>1, <2>1, <2>3, ConcatProperties
  <2> QED
    BY <2>2, <2>3
<1> HIDE DEF A, B
<1>5. IsFiniteSet(A \cup B) /\ Cardinality(A \cup B) = Cardinality(A) + Cardinality(B) - Cardinality(A \cap B)
  BY <1>2, <1>3, FS_Union
<1>6. Cardinality(A \cap B) \in Nat /\ Cardinality(A) \in Nat /\ Cardinality(B) \in Nat
  BY <1>2, <1>3, FS_Intersection, FS_CardinalityType
<1>7. /\ IsFiniteSet(Places(s \o t, m))
      /\ Cardinality(Places(s \o t, m)) <= Cardinality(A \cup B)
  BY <1>4, <1>5, FS_Subset
<1>8. /\ Cardinality(Places(t, m)) \in Nat
      /\ Cardinality(Places(s \o t, m)) \in Nat
  BY <1>2, <1>7, FS_CardinalityType
<1>9. /\ Times(s \o t, m) = Cardinality(Places(s \o t, m))
      /\ Times(s, m) = Cardinality(A) /\ Times(t, m) = Cardinality(Places(t, m))
  BY TimesIsSize DEF A
<1> QED
  BY <1>3, <1>5, <1>6, <1>7, <1>8, <1>9

LEMMA TimesOfPrefix ==
  ASSUME NEW S, NEW s \in Seq(S), NEW k \in 0 .. Len(s), NEW m
  PROVE  Times(SubSeq(s, 1, k), m) <= Times(s, m)
<1>1. Len(s) \in Nat /\ k \in Nat
  BY LenProperties
<1>2. Places(SubSeq(s, 1, k), m) \in SUBSET Places(s, m)
  BY <1>1, SubSeqType DEF Places
<1> QED
  BY <1>2, PlacesFinite, FS_Subset, TimesIsSize

LEMMA TimesAppend ==
  ASSUME NEW S, NEW s \in Seq(S), NEW x \in S, NEW m
  PROVE  Times(Append(s, x), m) = Times(s, m) + (IF x = m THEN 1 ELSE 0)
<1>1. /\ Len(s) \in Nat /\ Len(Append(s, x)) = Len(s) + 1
      /\ \A i \in 1 .. Len(s) : Append(s, x)[i] = s[i]
      /\ Append(s, x)[Len(s) + 1] = x
  BY LenProperties, AppendProperties
<1>2. IsFiniteSet(Places(s, m)) /\ Times(s, m) \in Nat
  BY PlacesFinite
<1>3. Len(s) + 1 \notin Places(s, m)
  BY <1>1 DEF Places
<1>4. CASE x = m
  <2>1. Places(Append(s, x), m) = Places(s, m) \cup {Len(s) + 1}
    BY <1>1, <1>4 DEF Places
  <2> QED
    BY <1>2, <1>3, <1>4, <2>1, FS_AddElement, TimesIsSize
<1>5. CASE x # m
  <2>1. Places(Append(s, x), m) = Places(s, m)
    BY <1>1, <1>5 DEF Places
  <2> QED
    BY <1>5, <2>1, TimesIsSize, PlacesFinite
<1> QED
  BY <1>4, <1>5

\* What is taken from the front is there once less.
LEMMA TimesTail ==
  ASSUME NEW S, NEW s \in Seq(S), s # <<>>, NEW m
  PROVE  Times(Tail(s), m) + (IF Head(s) = m THEN 1 ELSE 0) <= Times(s, m)
<1>1. /\ Len(s) \in Nat /\ Len(s) > 0 /\ Head(s) = s[1]
      /\ Len(Tail(s)) = Len(s) - 1
      /\ \A j \in 1 .. Len(s) - 1 : Tail(s)[j] = s[j + 1]
  BY LenProperties, HeadTailProperties, EmptySeq
<1> DEFINE A == Places(Tail(s), m)
           B == Places(s, m) \ {1}
<1>2. IsFiniteSet(Places(s, m))
  BY PlacesFinite
<1>3. /\ IsFiniteSet(B)
      /\ Cardinality(B) = IF 1 \in Places(s, m) THEN Cardinality(Places(s, m)) - 1
                                                ELSE Cardinality(Places(s, m))
  BY <1>2, FS_RemoveElement
<1>4. A \subseteq Int /\ B \subseteq Int /\ \A i \in A : i + 1 \in B
  BY <1>1 DEF Places
<1>5. 1 \in Places(s, m) <=> Head(s) = m
  BY <1>1 DEF Places
<1> HIDE DEF A, B
<1>6. IsFiniteSet(A) /\ Cardinality(A) <= Cardinality(B)
  BY <1>3, <1>4, Moved, 1 \in Int
<1>7. Cardinality(A) \in Nat /\ Cardinality(B) \in Nat /\ Cardinality(Places(s, m)) \in Nat
  BY <1>2, <1>3, <1>6, FS_CardinalityType
<1>8. Times(s, m) = Cardinality(Places(s, m)) /\ Times(Tail(s), m) = Cardinality(A)
  BY TimesIsSize DEF A
<1> QED
  BY <1>3, <1>5, <1>6, <1>7, <1>8

\* A message is in the array no more often than it was added, and what was
\* processed and what may still be is covered by the additions and the stops.
RepeatInv ==
  \A m \in WorkMsgs :
    /\ Times(queue, m) <= Times(added, m)
    /\ Times(processed, m) + Times(queue, m) <= Times(added, m) * (1 + stops)

LEMMA RepeatStep ==
  ASSUME Sequenced, RepeatInv, QueueMove
  PROVE  RepeatInv'
<1> USE DEF Sequenced
<1>1. ASSUME NEW m \in WorkMsgs
      PROVE  /\ Times(queue, m) \in Nat /\ Times(added, m) \in Nat
             /\ Times(processed, m) \in Nat
             /\ stops \in Nat
             /\ Times(added, m) * (1 + stops) \in Nat
  BY PlacesFinite, JsWorkQueueAssumption DEF JsWorkQueueAssumption
<1>2. ASSUME NEW a \in Nat, NEW k \in Nat
      PROVE  /\ (a + 1) * (1 + k) = a * (1 + k) + 1 + k
             /\ a * (1 + (k + 1)) = a * (1 + k) + a
             /\ a * (1 + k) \in Nat
  BY <1>2
<1>3. ASSUME NEW x \in WorkMsgs, Adds(x)
      PROVE  RepeatInv'
  <2>1. ASSUME NEW m \in WorkMsgs
        PROVE  /\ Times(Append(queue, x), m) <= Times(Append(added, x), m)
               /\ Times(processed, m) + Times(Append(queue, x), m)
                    <= Times(Append(added, x), m) * (1 + stops)
    <3>1. /\ Times(Append(queue, x), m) = Times(queue, m) + (IF x = m THEN 1 ELSE 0)
          /\ Times(Append(added, x), m) = Times(added, m) + (IF x = m THEN 1 ELSE 0)
      BY TimesAppend
    <3>2. (Times(added, m) + 1) * (1 + stops) = Times(added, m) * (1 + stops) + 1 + stops
      BY <1>1, <1>2
    <3>3. /\ Times(queue, m) <= Times(added, m)
          /\ Times(processed, m) + Times(queue, m) <= Times(added, m) * (1 + stops)
      BY DEF RepeatInv
    <3> DEFINE most == Times(added, m) * (1 + stops)
    <3>4. most \in Nat
      BY <1>1
    <3>5. CASE x = m
      <4>1. Times(Append(added, x), m) * (1 + stops) = most + 1 + stops
        BY <3>1, <3>2, <3>5
      <4> HIDE DEF most
      <4> QED
        BY <1>1, <3>1, <3>3, <3>4, <3>5, <4>1 DEF most
    <3>6. CASE x # m
      BY <1>1, <3>1, <3>3, <3>6
    <3> QED
      BY <3>5, <3>6
  <2> QED
    BY <1>3, <2>1 DEF Adds, RepeatInv
<1>4. CASE Takes
  <2>1. ASSUME NEW m \in WorkMsgs
        PROVE  /\ Times(Tail(queue), m) <= Times(added, m)
               /\ Times(Append(processed, Head(queue)), m) + Times(Tail(queue), m)
                    <= Times(added, m) * (1 + stops)
    <3>1. Head(queue) \in WorkMsgs /\ Tail(queue) \in Seq(WorkMsgs) /\ queue # <<>>
      BY <1>4, HeadTailProperties DEF Takes
    <3>2. /\ Times(Append(processed, Head(queue)), m)
               = Times(processed, m) + (IF Head(queue) = m THEN 1 ELSE 0)
          /\ Times(Tail(queue), m) + (IF Head(queue) = m THEN 1 ELSE 0) <= Times(queue, m)
          /\ Times(Tail(queue), m) \in Nat
      <4>1. /\ Times(Append(processed, Head(queue)), m)
                 = Times(processed, m) + (IF Head(queue) = m THEN 1 ELSE 0)
        BY <3>1, TimesAppend
      <4>2. Times(Tail(queue), m) + (IF Head(queue) = m THEN 1 ELSE 0) <= Times(queue, m)
        BY <3>1, TimesTail
      <4>3. Times(Tail(queue), m) \in Nat
        BY <3>1, PlacesFinite
      <4> QED
        BY <4>1, <4>2, <4>3
    <3>3. /\ Times(queue, m) <= Times(added, m)
          /\ Times(processed, m) + Times(queue, m) <= Times(added, m) * (1 + stops)
      BY DEF RepeatInv
    <3> DEFINE most == Times(added, m) * (1 + stops)
               once == IF Head(queue) = m THEN 1 ELSE 0
    <3>4. most \in Nat /\ once \in {0, 1}
      BY <1>1
    <3>5. /\ Times(Append(processed, Head(queue)), m) = Times(processed, m) + once
          /\ Times(Tail(queue), m) + once <= Times(queue, m)
          /\ Times(processed, m) + Times(queue, m) <= most
      BY <3>2, <3>3
    <3> HIDE DEF once, most
    <3>6. /\ Times(queue, m) \in Nat /\ Times(added, m) \in Nat
          /\ Times(processed, m) \in Nat /\ Times(Tail(queue), m) \in Nat
      BY <1>1, <3>2
    <3>7. /\ Times(Tail(queue), m) <= Times(added, m)
          /\ Times(processed, m) + once + Times(Tail(queue), m) <= most
      BY <3>3, <3>4, <3>5, <3>6
    <3>8. Times(Append(processed, Head(queue)), m) + Times(Tail(queue), m) <= most
      BY <3>5, <3>7
    <3> QED
      BY <3>7, <3>8 DEF most
  <2> QED
    BY <1>4, <2>1 DEF Takes, RepeatInv
<1>5. CASE Clears
  BY <1>1, <1>5, TimesOfNothing DEF Clears, RepeatInv
<1>6. ASSUME NEW k \in 0 .. Len(queue), StopsSafely(k)
      PROVE  RepeatInv'
  <2>1. ASSUME NEW m \in WorkMsgs
        PROVE  Times(processed \o SubSeq(queue, 1, k), m) + Times(queue, m)
                 <= Times(added, m) * (1 + (stops + 1))
    <3>1. SubSeq(queue, 1, k) \in Seq(WorkMsgs)
      BY SubSeqType
    <3>2. /\ Times(processed \o SubSeq(queue, 1, k), m)
               <= Times(processed, m) + Times(SubSeq(queue, 1, k), m)
          /\ Times(SubSeq(queue, 1, k), m) <= Times(queue, m)
      BY <3>1, TimesConcat, TimesOfPrefix
    <3>3. /\ Times(processed \o SubSeq(queue, 1, k), m) \in Nat
          /\ Times(SubSeq(queue, 1, k), m) \in Nat
      BY <3>1, ConcatProperties, PlacesFinite
    <3>4. Times(added, m) * (1 + (stops + 1)) = Times(added, m) * (1 + stops) + Times(added, m)
      BY <1>1, <1>2
    <3>5. /\ Times(queue, m) <= Times(added, m)
          /\ Times(processed, m) + Times(queue, m) <= Times(added, m) * (1 + stops)
      BY DEF RepeatInv
    <3> QED
      BY <1>1, <3>2, <3>3, <3>4, <3>5
  <2> QED
    BY <1>6, <2>1 DEF StopsSafely, RepeatInv
<1>7. CASE Keeps
  BY <1>7 DEF Keeps, RepeatInv
<1> QED
  BY <1>3, <1>4, <1>5, <1>6, <1>7 DEF QueueMove

\* However many timers empty the array, a message is processed once for each
\* time it was added, and once more for each safe stop at most.
THEOREM OnlyStopsRepeat == Spec => []RepeatedByStopOnly
<1> DEFINE Repeats == Typed /\ RepeatInv
<1>1. Init => Repeats
  <2> SUFFICES ASSUME Init PROVE Repeats
    OBVIOUS
  <2>1. added = <<>> /\ queue = <<>> /\ processed = <<>> /\ stops = 0
    BY DEF Init, JsWorkQueueInit
  <2>2. RepeatInv
    BY <2>1, TimesOfNothing DEF RepeatInv
  <2> QED
    BY <2>2, TypedInit
<1>2. Repeats /\ [Next]_vars => Repeats'
  BY TypedStep, RepeatStep, QueueMoves DEF Typed
<1>3. Repeats => RepeatedByStopOnly
  <2> SUFFICES ASSUME Repeats, NEW m \in WorkMsgs
               PROVE  Times(processed, m) <= Times(added, m) * (1 + stops)
    BY DEF RepeatedByStopOnly
  <2>1. Times(processed, m) \in Nat /\ Times(queue, m) \in Nat /\ Times(added, m) \in Nat
        /\ stops \in Nat
    BY PlacesFinite, JsWorkQueueAssumption DEF JsWorkQueueAssumption, Typed, Sequenced
  <2>2. Times(processed, m) + Times(queue, m) <= Times(added, m) * (1 + stops)
    BY DEF RepeatInv
  <2>3. Times(added, m) * (1 + stops) \in Nat
    BY <2>1
  <2> QED
    BY <2>1, <2>2, <2>3
<1> QED
  BY <1>1, <1>2, <1>3, PTL DEF Spec

-----------------------------------------------------------------------------
(* What a core service is given *)

\* The copies that wait for the handlers of a service, each numbered.
CopiesFor(s) ==
  {w \in WorkMsgs \X Nat : ServiceOf[w[1]] = s /\ 1 <= w[2] /\ w[2] <= copies[w[1]]}

\* Every subscription of a core service takes one message: the copies that
\* were made, the subscriptions left, and the registrations that still wait
\* for their check are no more than the registrations.
ServedOnce ==
  /\ \A m \in WorkMsgs : m \notin arrived => copies[m] = 0
  /\ \A s \in Services : subscribing[s] > 0 \/ found[s] > 0 => OnStream(s)
  /\ \A s \in Services : KindOf[s] = "core" =>
       /\ IsFiniteSet(CopiesFor(s))
       /\ handled[s] + live[s] + checking[s] + Cardinality(CopiesFor(s)) <= registers[s]

\* A service whose numbers move without need of another registration.
LEMMA ServedMoves ==
  ASSUME Counting, Counts, Counting', Counts', ServedOnce,
         \A m \in WorkMsgs : m \notin arrived' => copies'[m] = 0,
         \A s \in Services : subscribing'[s] > 0 \/ found'[s] > 0 => OnStream(s),
         \A s \in Services : KindOf[s] = "core" =>
           /\ IsFiniteSet(CopiesFor(s)')
           /\ (handled'[s] + live'[s] + checking'[s] + Cardinality(CopiesFor(s)')) + registers[s]
                <= (handled[s] + live[s] + checking[s] + Cardinality(CopiesFor(s))) + registers'[s]
  PROVE  ServedOnce'
<1>1. ASSUME NEW s \in Services, KindOf[s] = "core"
      PROVE  handled'[s] + live'[s] + checking'[s] + Cardinality(CopiesFor(s)') <= registers'[s]
  <2>1. /\ IsFiniteSet(CopiesFor(s))
        /\ handled[s] + live[s] + checking[s] + Cardinality(CopiesFor(s)) <= registers[s]
        /\ IsFiniteSet(CopiesFor(s)')
    BY <1>1 DEF ServedOnce
  <2>2. Cardinality(CopiesFor(s)) \in Nat /\ Cardinality(CopiesFor(s)') \in Nat
    BY <2>1, FS_CardinalityType
  <2>3. /\ handled[s] \in Nat /\ live[s] \in Nat /\ checking[s] \in Nat /\ registers[s] \in Nat
        /\ handled'[s] \in Nat /\ live'[s] \in Nat /\ checking'[s] \in Nat
        /\ registers'[s] \in Nat
    BY DEF Counting, Counts
  <2> QED
    BY <1>1, <2>1, <2>2, <2>3
<1> QED
  BY <1>1 DEF ServedOnce, OnStream

LEMMA CopiesStay ==
  ASSUME NEW s, copies' = copies
  PROVE  CopiesFor(s)' = CopiesFor(s)
BY DEF CopiesFor

\* register, and what follows its check.
LEMMA ServedRegister ==
  ASSUME Counting, Counts, Counting', Counts', ServedOnce, NEW s \in Services,
         \/ register(s) \/ subscribe(s) \/ subscribeThrows(s) \/ jstreamSubscribe(s)
         \/ lookedUp(s) \/ subscribeRejected(s) \/ subscribed(s) \/ subscribedLate(s)
         \/ unregister(s) \/ subscriptionTimeout(s)
         \/ OtherLeaves(s)
  PROVE  ServedOnce'
<1>1. UNCHANGED deliveryVars
  BY DEF register, subscribe, subscribeThrows, jstreamSubscribe, Checked, lookedUp,
     subscribeRejected, Subscribing, subscribed, subscribedLate, Subscribes, unregister,
     subscriptionTimeout, OtherSubscribes, OtherLeaves, ByAnother, vars, serverVars
<1>2. \/ /\ checking' = [checking EXCEPT ![s] = @ + 1]
         /\ registers' = [registers EXCEPT ![s] = @ + 1]
         /\ UNCHANGED <<subscribing, found, live>>
      \/ /\ checking[s] > 0 /\ checking' = [checking EXCEPT ![s] = @ - 1]
         /\ live' = live \/ live' = [live EXCEPT ![s] = @ + 1]
         /\ UNCHANGED <<subscribing, found, registers>>
      \/ /\ checking[s] > 0 /\ checking' = [checking EXCEPT ![s] = @ - 1]
         /\ OnStream(s) /\ subscribing' = [subscribing EXCEPT ![s] = @ + 1]
         /\ UNCHANGED <<found, live, registers>>
      \/ /\ subscribing[s] > 0 /\ subscribing' = [subscribing EXCEPT ![s] = @ - 1]
         /\ found' = found \/ found' = [found EXCEPT ![s] = @ + 1]
         /\ UNCHANGED <<checking, registers, live>>
      \/ /\ found[s] > 0 /\ found' = [found EXCEPT ![s] = @ - 1]
         /\ live' = live \/ live' = [live EXCEPT ![s] = @ + 1]
         /\ UNCHANGED <<checking, registers, subscribing>>
      \/ UNCHANGED <<checking, registers, subscribing, found, live>>
      \/ /\ live[s] > 0 /\ live' = [live EXCEPT ![s] = @ - 1]
         /\ UNCHANGED <<checking, registers, subscribing, found>>
  BY DEF register, subscribe, subscribeThrows, jstreamSubscribe, Checked, lookedUp,
     subscribeRejected, Subscribing, subscribed, subscribedLate, Subscribes, unregister,
     subscriptionTimeout, OtherSubscribes, OtherLeaves, ByAnother, vars, serverVars,
     registryVars
<1>3. subscribing[s] > 0 \/ found[s] > 0 => KindOf[s] # "core"
  BY DEF ServedOnce, OnStream
<1>4. \A m \in WorkMsgs : m \notin arrived' => copies'[m] = 0
  BY <1>1 DEF ServedOnce, deliveryVars
<1>5. \A t \in Services : subscribing'[t] > 0 \/ found'[t] > 0 => OnStream(t)
  BY <1>2 DEF ServedOnce, Counts
<1>6. ASSUME NEW t \in Services, KindOf[t] = "core"
      PROVE  /\ IsFiniteSet(CopiesFor(t)')
             /\ (handled'[t] + live'[t] + checking'[t] + Cardinality(CopiesFor(t)')) + registers[t]
                  <= (handled[t] + live[t] + checking[t] + Cardinality(CopiesFor(t))) + registers'[t]
  <2>1. CopiesFor(t)' = CopiesFor(t) /\ handled' = handled
    BY <1>1, CopiesStay DEF deliveryVars
  <2>2. IsFiniteSet(CopiesFor(t)) /\ Cardinality(CopiesFor(t)) \in Nat
    BY <1>6, FS_CardinalityType DEF ServedOnce
  <2>3. /\ handled[t] \in Nat /\ live[t] \in Nat /\ checking[t] \in Nat /\ registers[t] \in Nat
        /\ live'[t] \in Nat /\ checking'[t] \in Nat /\ registers'[t] \in Nat
    BY DEF Counting, Counts
  <2>4. live'[t] + checking'[t] + registers[t] <= live[t] + checking[t] + registers'[t]
    <3>1. CASE t = s
      BY <1>2, <1>3, <1>6, <2>3, <3>1 DEF Counting, Counts, OnStream
    <3>2. CASE t # s
      BY <1>2, <2>3, <3>2 DEF Counting, Counts
    <3> QED
      BY <3>1, <3>2
  <2> QED
    BY <2>1, <2>2, <2>3, <2>4
<1> QED
  BY <1>4, <1>5, <1>6, ServedMoves

\* A message ends the core subscriptions it is copied for.
LEMMA ServedPublish ==
  ASSUME Counting, Counts, Counting', Counts', ServedOnce, NEW m \in WorkMsgs, publish(m)
  PROVE  ServedOnce'
<1> DEFINE s == ServiceOf[m]
<1>1. /\ s \in Services /\ m \notin arrived /\ arrived' = arrived \cup {m}
      /\ copies' = [copies EXCEPT ![m] = IF KindOf[s] = "group" THEN 1 ELSE live[s]]
      /\ live' = IF KindOf[s] = "core" THEN [live EXCEPT ![s] = 0] ELSE live
      /\ UNCHANGED <<registers, checking, subscribing, found, handled>>
  BY JsServerAssumption DEF JsServerAssumption, publish
<1>2. copies[m] = 0
  BY <1>1 DEF ServedOnce
<1>3. \A n \in WorkMsgs : n \notin arrived' => copies'[n] = 0
  BY <1>1 DEF ServedOnce, Counting
<1>4. \A t \in Services : subscribing'[t] > 0 \/ found'[t] > 0 => OnStream(t)
  BY <1>1 DEF ServedOnce
<1>5. ASSUME NEW t \in Services, KindOf[t] = "core"
      PROVE  /\ IsFiniteSet(CopiesFor(t)')
             /\ (handled'[t] + live'[t] + checking'[t] + Cardinality(CopiesFor(t)')) + registers[t]
                  <= (handled[t] + live[t] + checking[t] + Cardinality(CopiesFor(t))) + registers'[t]
  <2>1. IsFiniteSet(CopiesFor(t)) /\ Cardinality(CopiesFor(t)) \in Nat
    BY <1>5, FS_CardinalityType DEF ServedOnce
  <2>2. /\ handled[t] \in Nat /\ live[t] \in Nat /\ checking[t] \in Nat /\ registers[t] \in Nat
    BY DEF Counting, Counts
  <2>3. CASE t # s
    <3>1. CopiesFor(t)' = CopiesFor(t)
      BY <1>1, <2>3 DEF CopiesFor, Counting
    <3>2. live'[t] = live[t]
      BY <1>1, <2>3 DEF Counts
    <3> QED
      BY <1>1, <2>1, <2>2, <3>1, <3>2
  <2>4. CASE t = s
    <3>1. KindOf[s] = "core" /\ live[s] \in Nat
      BY <1>5, <2>2, <2>4
    <3>2. live'[t] = 0 /\ copies'[m] = live[s]
      BY <1>1, <2>4, <3>1 DEF Counting, Counts
    <3>3. CopiesFor(t)' = CopiesFor(t) \cup ({m} \X (1 .. live[s]))
      <4>1. ASSUME NEW n \in WorkMsgs, NEW i \in Nat
            PROVE  ServiceOf[n] = s /\ 1 <= i /\ i <= copies'[n] <=>
                     \/ ServiceOf[n] = s /\ 1 <= i /\ i <= copies[n]
                     \/ n = m /\ i \in 1 .. live[s]
        BY <1>1, <1>2, <3>1, <3>2 DEF Counting
      <4>2. live[s] \in Nat /\ 1 .. live[s] \subseteq Nat
        BY <3>1
      <4>3. ASSUME NEW w \in WorkMsgs \X Nat
            PROVE  w \in CopiesFor(t)' <=>
                     w \in CopiesFor(t) \/ w \in {m} \X (1 .. live[s])
        <5>1. PICK n \in WorkMsgs, i \in Nat : w = <<n, i>>
          OBVIOUS
        <5>2. /\ w \in CopiesFor(t)' <=> ServiceOf[n] = s /\ 1 <= i /\ i <= copies'[n]
              /\ w \in CopiesFor(t) <=> ServiceOf[n] = s /\ 1 <= i /\ i <= copies[n]
          BY <2>4, <5>1 DEF CopiesFor
        <5>3. w \in {m} \X (1 .. live[s]) <=> n = m /\ i \in 1 .. live[s]
          BY <5>1
        <5> QED
          BY <4>1, <5>2, <5>3
      <4>4. /\ CopiesFor(t)' \subseteq WorkMsgs \X Nat
            /\ CopiesFor(t) \subseteq WorkMsgs \X Nat
            /\ {m} \X (1 .. live[s]) \subseteq WorkMsgs \X Nat
        BY <4>2 DEF CopiesFor
      <4> DEFINE All == WorkMsgs \X Nat
                 New == {m} \X (1 .. live[s])
      <4> HIDE DEF All, New
      <4>5. /\ CopiesFor(t)' \subseteq All /\ CopiesFor(t) \subseteq All /\ New \subseteq All
            /\ \A w \in All : w \in CopiesFor(t)' <=> w \in CopiesFor(t) \/ w \in New
        BY <4>3, <4>4 DEF All, New
      <4>6. CopiesFor(t)' = CopiesFor(t) \cup New
        BY <4>5
      <4> QED
        BY <4>6 DEF New
    <3>4. CopiesFor(t) \cap ({m} \X (1 .. live[s])) = {}
      BY <1>2 DEF CopiesFor
    <3>5. /\ IsFiniteSet(1 .. live[s]) /\ Cardinality(1 .. live[s]) = live[s]
          /\ IsFiniteSet({m}) /\ Cardinality({m}) = 1
      <4>1. 1 \in Int /\ live[s] \in Int /\ live[s] >= 0
        BY <3>1
      <4> DEFINE n == live[s]
      <4> HIDE DEF n
      <4>2. IsFiniteSet(1 .. n) /\ Cardinality(1 .. n) = IF 1 > n THEN 0 ELSE n - 1 + 1
        BY <4>1, FS_Interval DEF n
      <4>3. IsFiniteSet(1 .. n) /\ Cardinality(1 .. n) = n
        BY <4>1, <4>2 DEF n
      <4>4. IsFiniteSet({m}) /\ Cardinality({m}) = 1
        BY FS_Singleton
      <4> QED
        BY <4>3, <4>4 DEF n
    <3>6. /\ IsFiniteSet({m} \X (1 .. live[s]))
          /\ Cardinality({m} \X (1 .. live[s])) = 1 * live[s]
      BY <3>5, FS_Product
    <3>7. /\ IsFiniteSet(CopiesFor(t)')
          /\ Cardinality(CopiesFor(t)') = Cardinality(CopiesFor(t)) + live[s]
      <4>1. Cardinality({m} \X (1 .. live[s])) = live[s]
        BY <3>1, <3>6
      <4>2. /\ IsFiniteSet(CopiesFor(t) \cup ({m} \X (1 .. live[s])))
            /\ Cardinality(CopiesFor(t) \cup ({m} \X (1 .. live[s]))) =
                 Cardinality(CopiesFor(t)) + live[s] - 0
        BY <2>1, <3>4, <3>6, <4>1, FS_Union, FS_EmptySet
      <4> QED
        BY <2>1, <3>1, <3>3, <4>2
    <3> QED
      BY <1>1, <2>1, <2>2, <2>4, <3>2, <3>7
  <2> QED
    BY <2>3, <2>4
<1> QED
  BY <1>3, <1>4, <1>5, ServedMoves

\* A copy is given to the handler.
LEMMA ServedHandler ==
  ASSUME Counting, Counts, Counting', Counts', ServedOnce, NEW m \in WorkMsgs, workHandler(m)
  PROVE  ServedOnce'
<1> DEFINE s == ServiceOf[m]
<1>1. /\ s \in Services /\ copies[m] > 0
      /\ copies' = [copies EXCEPT ![m] = @ - 1]
      /\ handled' = [handled EXCEPT ![s] = @ + 1]
      /\ UNCHANGED <<registers, checking, subscribing, found, live, arrived>>
  BY JsServerAssumption DEF JsServerAssumption, workHandler, registryVars
<1>2. \A n \in WorkMsgs : n \notin arrived' => copies'[n] = 0
  BY <1>1 DEF ServedOnce, Counting
<1>3. \A t \in Services : subscribing'[t] > 0 \/ found'[t] > 0 => OnStream(t)
  BY <1>1 DEF ServedOnce
<1>4. ASSUME NEW t \in Services, KindOf[t] = "core"
      PROVE  /\ IsFiniteSet(CopiesFor(t)')
             /\ (handled'[t] + live'[t] + checking'[t] + Cardinality(CopiesFor(t)')) + registers[t]
                  <= (handled[t] + live[t] + checking[t] + Cardinality(CopiesFor(t))) + registers'[t]
  <2>1. IsFiniteSet(CopiesFor(t)) /\ Cardinality(CopiesFor(t)) \in Nat
    BY <1>4, FS_CardinalityType DEF ServedOnce
  <2>2. /\ handled[t] \in Nat /\ live[t] \in Nat /\ checking[t] \in Nat /\ registers[t] \in Nat
    BY DEF Counting, Counts
  <2>3. CASE t # s
    <3>1. CopiesFor(t)' = CopiesFor(t)
      BY <1>1, <2>3 DEF CopiesFor, Counting
    <3>2. handled'[t] = handled[t]
      BY <1>1, <2>3 DEF Counting
    <3> QED
      BY <1>1, <2>1, <2>2, <3>1, <3>2
  <2>4. CASE t = s
    <3>1. copies[m] \in Nat /\ copies[m] > 0 /\ <<m, copies[m]>> \in CopiesFor(t)
      BY <1>1, <2>4 DEF CopiesFor, Counting
    <3>2. CopiesFor(t)' = CopiesFor(t) \ {<<m, copies[m]>>}
      <4>1. ASSUME NEW n \in WorkMsgs, NEW i \in Nat
            PROVE  1 <= i /\ i <= copies'[n] <=>
                     1 <= i /\ i <= copies[n] /\ <<n, i>> # <<m, copies[m]>>
        BY <1>1, <3>1 DEF Counting
      <4> QED
        BY <4>1 DEF CopiesFor
    <3>3. /\ IsFiniteSet(CopiesFor(t)')
          /\ Cardinality(CopiesFor(t)') = Cardinality(CopiesFor(t)) - 1
      BY <2>1, <3>1, <3>2, FS_RemoveElement
    <3>4. handled'[t] = handled[t] + 1
      BY <1>1, <2>4 DEF Counting
    <3> QED
      BY <1>1, <2>1, <2>2, <3>3, <3>4
  <2> QED
    BY <2>3, <2>4
<1> QED
  BY <1>2, <1>3, <1>4, ServedMoves

\* Subscriptions end with the connection.
LEMMA ServedEnds ==
  ASSUME Counting, Counts, Counting', Counts', ServedOnce, drain \/ closed
  PROVE  ServedOnce'
<1>1. /\ live' = Nothing
      /\ copies' = copies \/ copies' = [m \in WorkMsgs |-> 0]
      /\ UNCHANGED <<registers, checking, subscribing, found, arrived, handled>>
  BY DEF drain, closed, deliveryVars
<1>2. \A n \in WorkMsgs : n \notin arrived' => copies'[n] = 0
  BY <1>1 DEF ServedOnce
<1>3. \A t \in Services : subscribing'[t] > 0 \/ found'[t] > 0 => OnStream(t)
  BY <1>1 DEF ServedOnce
<1>4. ASSUME NEW t \in Services, KindOf[t] = "core"
      PROVE  /\ IsFiniteSet(CopiesFor(t)')
             /\ (handled'[t] + live'[t] + checking'[t] + Cardinality(CopiesFor(t)')) + registers[t]
                  <= (handled[t] + live[t] + checking[t] + Cardinality(CopiesFor(t))) + registers'[t]
  <2>1. IsFiniteSet(CopiesFor(t)) /\ Cardinality(CopiesFor(t)) \in Nat
    BY <1>4, FS_CardinalityType DEF ServedOnce
  <2>2. /\ handled[t] \in Nat /\ live[t] \in Nat /\ checking[t] \in Nat /\ registers[t] \in Nat
    BY DEF Counting, Counts
  <2>3. CopiesFor(t)' \in SUBSET CopiesFor(t)
    BY <1>1 DEF CopiesFor, Counting
  <2>4. /\ IsFiniteSet(CopiesFor(t)')
        /\ Cardinality(CopiesFor(t)') <= Cardinality(CopiesFor(t))
        /\ Cardinality(CopiesFor(t)') \in Nat
    BY <2>1, <2>3, FS_Subset, FS_CardinalityType
  <2>5. live'[t] = 0
    BY <1>1 DEF Nothing
  <2> QED
    BY <1>1, <2>1, <2>2, <2>4, <2>5
<1> QED
  BY <1>2, <1>3, <1>4, ServedMoves

\* Who is redirected has a subscription less.
LEMMA ServedRedirect ==
  ASSUME Counting, Counts, Counting', Counts', ServedOnce, NEW R, Redirect(R),
         UNCHANGED <<registers, checking, subscribing, deliveryVars>>
  PROVE  ServedOnce'
<1>1. \A m \in WorkMsgs : m \notin arrived' => copies'[m] = 0
  BY DEF ServedOnce, deliveryVars
<1>2. ASSUME NEW t \in Services
      PROVE  /\ found'[t] = 0 \/ found'[t] = found[t]
             /\ live'[t] = 0 \/ live'[t] = live[t]
  BY DEF Redirect
<1>3. \A t \in Services : subscribing'[t] > 0 \/ found'[t] > 0 => OnStream(t)
  BY <1>2 DEF ServedOnce
<1>4. ASSUME NEW t \in Services, KindOf[t] = "core"
      PROVE  /\ IsFiniteSet(CopiesFor(t)')
             /\ (handled'[t] + live'[t] + checking'[t] + Cardinality(CopiesFor(t)')) + registers[t]
                  <= (handled[t] + live[t] + checking[t] + Cardinality(CopiesFor(t))) + registers'[t]
  <2>1. CopiesFor(t)' = CopiesFor(t) /\ handled' = handled
    BY CopiesStay DEF deliveryVars
  <2>2. IsFiniteSet(CopiesFor(t)) /\ Cardinality(CopiesFor(t)) \in Nat
    BY <1>4, FS_CardinalityType DEF ServedOnce
  <2>3. /\ handled[t] \in Nat /\ live[t] \in Nat /\ checking[t] \in Nat /\ registers[t] \in Nat
        /\ live'[t] \in Nat /\ live'[t] <= live[t]
    BY <1>2 DEF Counting, Counts
  <2> QED
    BY <2>1, <2>2, <2>3
<1> QED
  BY <1>1, <1>3, <1>4, ServedMoves

LEMMA ServedStep ==
  ASSUME Counting, Counts, Counting', Counts', ServedOnce, [Next]_vars
  PROVE  ServedOnce'
<1>1. CASE UNCHANGED <<registers, checking, subscribing, found, live, deliveryVars>>
  <2>1. \A s : CopiesFor(s)' = CopiesFor(s)
    BY <1>1, CopiesStay DEF deliveryVars
  <2> QED
    BY <1>1, <2>1 DEF ServedOnce, OnStream, deliveryVars
<1>2. CASE UNCHANGED vars \/ WorkQueueStep \/ ConnectionStep
  BY <1>1, <1>2 DEF vars, serverVars, registryVars, WorkQueueStep, ConnectionStep
<1>3. CASE Setup \/ OtherBindsConsumer \/ \E s \in Services : OtherSubscribes(s)
  <2>1. /\ UNCHANGED <<registers, checking, subscribing, deliveryVars>>
        /\ \E R : Redirect(R)
    BY <1>3 DEF Setup, OtherBindsConsumer, OtherSubscribes, ByAnother
  <2> QED
    BY <2>1, ServedRedirect
<1> QED
  BY <1>2, <1>3, ServedRegister, ServedPublish, ServedHandler, ServedEnds DEF Next

\* Whatever checks, subscriptions, timeouts and messages come between, a core
\* service is given no more messages than it was registered for.
THEOREM CoreIsServedOnce == Spec => []CoreServesOnce
<1> DEFINE Served == Typed /\ ServedOnce
<1>1. Init => Served
  <2> SUFFICES ASSUME Init PROVE Served
    OBVIOUS
  <2>1. /\ copies = [m \in WorkMsgs |-> 0]
        /\ registers = Nothing /\ checking = Nothing /\ subscribing = Nothing
        /\ live = Nothing /\ handled = Nothing /\ found = Nothing
    BY DEF Init
  <2>2. \A s : CopiesFor(s) = {}
    BY <2>1 DEF CopiesFor
  <2>3. ServedOnce
    BY <2>1, <2>2, FS_EmptySet DEF ServedOnce, Nothing
  <2> QED
    BY <2>3, TypedInit
<1>2. Served /\ [Next]_vars => Served'
  BY TypedStep, ServedStep DEF Typed, Inv
<1>3. Served => CoreServesOnce
  <2> SUFFICES ASSUME Served, NEW s \in Services, KindOf[s] = "core"
               PROVE  handled[s] <= registers[s]
    BY DEF CoreServesOnce
  <2>1. /\ IsFiniteSet(CopiesFor(s))
        /\ handled[s] + live[s] + checking[s] + Cardinality(CopiesFor(s)) <= registers[s]
    BY DEF ServedOnce
  <2>2. /\ handled[s] \in Nat /\ live[s] \in Nat /\ checking[s] \in Nat /\ registers[s] \in Nat
        /\ Cardinality(CopiesFor(s)) \in Nat
    BY <2>1, FS_CardinalityType DEF Typed, Inv, Counting, Counts
  <2> QED
    BY <2>1, <2>2
<1> QED
  BY <1>1, <1>2, <1>3, PTL DEF Spec

=============================================================================
