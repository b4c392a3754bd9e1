------------------------- MODULE ServiceSetup_proof -------------------------
(***************************************************************************)
(* Proofs about ServiceSetup, for any processes, services, configurations  *)
(* and bounds: who panics, who is alone at a consumer, who is registered   *)
(* and receives nothing, and who is unregistered and still receives.       *)
(***************************************************************************)
EXTENDS ServiceSetup, TLAPS

Pcs == {<<"down">>, <<"up">>} \cup {<<i>> : i \in Steps} \cup ServiceSteps \X Services

LEMMA PcValues ==
  /\ <<"down">> \in Pcs /\ <<"up">> \in Pcs
  /\ <<"addStream">> \in Pcs /\ <<"updateStream">> \in Pcs /\ <<"updateBlindly">> \in Pcs
  /\ \A s \in Services :
       /\ <<"addConsumer", s>> \in Pcs /\ <<"updateConsumer", s>> \in Pcs
       /\ <<"subscribe", s>> \in Pcs /\ <<"attach", s>> \in Pcs
       /\ <<"create", s>> \in Pcs /\ <<"delete", s>> \in Pcs
BY DEF Pcs, Steps, ServiceSteps

LEMMA Goes ==
  ASSUME TypeOK, NEW p \in Procs, NEW to \in Pcs, pc' = [pc EXCEPT ![p] = to]
  PROVE  /\ pc' \in [Procs -> Pcs] /\ pc'[p] = to
         /\ \A q \in Procs : q # p => pc'[q] = pc[q]
BY DEF TypeOK, Pcs

\* A subscription is what its three parts say.
LEMMA SubParts ==
  /\ \A i \in Subs : i[1] \in Procs /\ i[2] \in Services /\ i[3] \in Nat \ {0}
                     /\ i = <<i[1], i[2], i[3]>>
  /\ \A p \in Procs, s \in Services, n \in Nat \ {0} : <<p, s, n>> \in Subs
BY DEF Subs

LEMMA NewSubType ==
  ASSUME TypeOK, NEW p \in Procs, NEW s \in Services
  PROVE  /\ NewSub(p, s) \in Subs /\ NewSub(p, s)[1] = p /\ NewSub(p, s)[2] = s
         /\ NewSub(p, s) = <<p, s, registers[p][s] + 1>>
         /\ registers[p][s] \in Nat
<1>1. registers[p][s] \in Nat
  BY DEF TypeOK
<1> QED
  BY <1>1 DEF NewSub, Subs

LEMMA UsedByOthersType ==
  ASSUME TypeOK, NEW p \in Procs, NEW s \in Services
  PROVE  UsedByOthers(p, s) \subseteq Subs
BY NewSubType DEF UsedByOthers, Attaching, TypeOK

-----------------------------------------------------------------------------
(* What a step is, as far as consumers and subscriptions go *)

\* Only a service of a stream gets a consumer, and only the answer to a lookup
\* that a process is about to use can be out of date.
Lookups ==
  /\ \A p \in Procs, s \in Services :
       pc[p] \in {<<"addConsumer", s>>, <<"create", s>>} => s \in Streamed
  /\ \A p \in stale : \E s \in Services : pc[p] = <<"attach", s>>

Types == TypeOK /\ Lookups

AtAttach(p) == \E s \in Services : pc[p] = <<"attach", s>>

\* A consumer is installed in some steps; an answer is used or given up in others.
Installs(p) == ~AtAttach(p) /\ \E s \in Streamed \cap Services : Install(p, s)

Uses(p) == stale' = stale \ {p} /\ UNCHANGED <<consumers, lost>>

QuietGoes(p, to) ==
  /\ to \in Pcs
  /\ pc' = [pc EXCEPT ![p] = to]
  /\ to # <<"down">>
  /\ \A s \in Services :
       /\ to \in {<<"addConsumer", s>>, <<"create", s>>} => s \in Streamed
       /\ to # <<"delete", s>>
       /\ to = <<"attach", s>> => Usable(s) /\ Uses(p)

\* Steps that leave the subscriptions alone.
Quiet(p) ==
  /\ ServerStays
  /\ ~AtAttach(p)
  /\ Installs(p) \/ Uses(p)
  /\ \E to \in Pcs : QuietGoes(p, to)

Falls(p) == Panicf(p) /\ (Installs(p) \/ Uses(p))

Subscribing(p, s) == SubscribeCore(p, s) \/ Attach(p, s) \/ Create(p, s)

Kinds(p) ==
  \/ Start(p) \/ Quiet(p) \/ Falls(p)
  \/ \E s \in Services : Subscribing(p, s) \/ UnRegister(p, s) \/ DeleteConsumer(p, s)

LEMMA NotStale ==
  ASSUME Types, NEW p \in Procs, ~AtAttach(p)
  PROVE  p \notin stale /\ stale \ {p} = stale
BY DEF Types, Lookups, AtAttach

LEMMA QuietTargets ==
  ASSUME NEW p \in Procs
  PROVE  /\ \A i \in {"up", "addStream", "updateStream", "updateBlindly"} :
              pc' = [pc EXCEPT ![p] = <<i>>] => QuietGoes(p, <<i>>)
         /\ \A i \in {"updateConsumer", "subscribe"}, s \in Services :
              pc' = [pc EXCEPT ![p] = <<i, s>>] => QuietGoes(p, <<i, s>>)
         /\ \A i \in {"addConsumer", "create"}, s \in Streamed \cap Services :
              pc' = [pc EXCEPT ![p] = <<i, s>>] => QuietGoes(p, <<i, s>>)
         /\ \A s \in Services :
              pc' = [pc EXCEPT ![p] = <<"attach", s>>] /\ Usable(s) /\ Uses(p)
                => QuietGoes(p, <<"attach", s>>)
<1>1. \A i \in {"up", "addStream", "updateStream", "updateBlindly"} :
        pc' = [pc EXCEPT ![p] = <<i>>] => QuietGoes(p, <<i>>)
  BY PcValues DEF QuietGoes
<1>2. \A i \in {"updateConsumer", "subscribe"}, s \in Services :
        pc' = [pc EXCEPT ![p] = <<i, s>>] => QuietGoes(p, <<i, s>>)
  BY PcValues DEF QuietGoes
<1>3. \A i \in {"addConsumer", "create"}, s \in Streamed \cap Services :
        pc' = [pc EXCEPT ![p] = <<i, s>>] => QuietGoes(p, <<i, s>>)
  BY PcValues DEF QuietGoes
<1>4. \A s \in Services :
        pc' = [pc EXCEPT ![p] = <<"attach", s>>] /\ Usable(s) /\ Uses(p)
          => QuietGoes(p, <<"attach", s>>)
  BY PcValues DEF QuietGoes
<1> QED
  BY <1>1, <1>2, <1>3, <1>4

LEMMA StreamKinds ==
  ASSUME Types, NEW p \in Procs,
         BindStream(p) \/ BindStreamBlindly(p) \/ AddStream(p) \/ UpdateStream(p)
  PROVE  Quiet(p) \/ Falls(p)
<1> DEFINE To(to) == pc' = [pc EXCEPT ![p] = to]
<1>1. ~AtAttach(p)
  <2>1. pc[p] \in {<<"up">>, <<"addStream">>, <<"updateStream">>, <<"updateBlindly">>}
    BY Zenon DEF BindStream, BindStreamBlindly, AddStream, UpdateStream, Return, GoTo
  <2> QED
    BY <2>1 DEF AtAttach
<1>2. Uses(p)
  <2>1. UNCHANGED <<consumers, stale, lost>>
    BY DEF BindStream, BindStreamBlindly, AddStream, UpdateStream, brokerVars, historyVars
  <2> QED
    BY <1>1, <2>1, NotStale DEF Uses
<1>3. \/ Panicf(p)
      \/ ServerStays /\ \E i \in {"up", "addStream", "updateStream", "updateBlindly"} : To(<<i>>)
  BY DEF BindStream, BindStreamBlindly, AddStream, UpdateStream, PanicInBindStream,
         Return, GoTo, ServerStays, brokerVars
<1>4. CASE Panicf(p)
  BY <1>2, <1>4 DEF Falls
<1>5. ASSUME ServerStays, NEW i \in {"up", "addStream", "updateStream", "updateBlindly"},
             To(<<i>>)
      PROVE  Quiet(p)
  <2>1. QuietGoes(p, <<i>>)
    BY <1>5, QuietTargets
  <2> QED
    BY <1>1, <1>2, <1>5, <2>1 DEF Quiet, QuietGoes
<1> QED
  BY <1>3, <1>4, <1>5

LEMMA LookupKinds ==
  ASSUME ServiceSetupAssumption, Types, NEW p \in Procs, NEW s \in Services,
         \/ BindConsumer(p, s) \/ Register(p, s)
         \/ SubscribeInfo(p, s) \/ CreateExists(p, s)
  PROVE  Quiet(p) \/ Falls(p)
<1> DEFINE To(to) == pc' = [pc EXCEPT ![p] = to]
<1>1. ~AtAttach(p)
  BY DEF AtAttach, BindConsumer, Register, SubscribeInfo, CreateExists, Return, GoTo
<1>2. Uses(p)
  <2>1. UNCHANGED <<consumers, stale, lost>>
    BY DEF BindConsumer, Register, SubscribeInfo, CreateExists, brokerVars, historyVars
  <2> QED
    BY <1>1, <2>1, NotStale DEF Uses
<1>3. \/ Panicf(p)
      \/ /\ ServerStays
         /\ \/ To(<<"up">>)
            \/ To(<<"updateConsumer", s>>) \/ To(<<"subscribe", s>>)
            \/ s \in Streamed /\ (To(<<"addConsumer", s>>) \/ To(<<"create", s>>))
            \/ Usable(s) /\ To(<<"attach", s>>)
  BY DEF BindConsumer, Register, SubscribeInfo, CreateExists, Return, GoTo,
         ServerStays, brokerVars, ServiceSetupAssumption
<1>4. CASE Panicf(p)
  BY <1>2, <1>4 DEF Falls
<1>5. CASE ~Panicf(p)
  <2>1. \E to \in Pcs : QuietGoes(p, to)
    BY <1>2, <1>3, <1>5, QuietTargets, PcValues
  <2> QED
    BY <1>1, <1>2, <1>3, <1>5, <2>1 DEF Quiet
<1> QED
  BY <1>4, <1>5

LEMMA InstallKinds ==
  ASSUME Types, NEW p \in Procs, NEW s \in Services,
         AddConsumer(p, s) \/ UpdateConsumer(p, s) \/ CreateFails(p, s)
  PROVE  Quiet(p) \/ Falls(p)
<1>1. ~AtAttach(p)
  BY DEF AtAttach, AddConsumer, UpdateConsumer, CreateFails, Return, GoTo
<1>2. Installs(p) \/ Uses(p)
  <2>1. CASE NotInstalled
    BY <1>1, <2>1, NotStale DEF Uses, NotInstalled
  <2>2. CASE ~NotInstalled
    <3>1. Install(p, s)
      BY <2>2 DEF AddConsumer, UpdateConsumer, CreateFails
    <3>2. s \in Streamed
      BY <2>2 DEF Types, TypeOK, Lookups, AddConsumer, UpdateConsumer, CreateFails, Return, GoTo
    <3> QED
      BY <1>1, <3>1, <3>2 DEF Installs
  <2> QED
    BY <2>1, <2>2
<1>3. Panicf(p) \/ (ServerStays /\ pc' = [pc EXCEPT ![p] = <<"up">>])
  BY DEF AddConsumer, UpdateConsumer, CreateFails, Return, GoTo
<1>4. CASE Panicf(p)
  BY <1>2, <1>4 DEF Falls
<1>5. CASE ~Panicf(p)
  <2>1. QuietGoes(p, <<"up">>)
    BY <1>3, <1>5, QuietTargets
  <2> QED
    BY <1>1, <1>2, <1>3, <1>5, <2>1 DEF Quiet, QuietGoes
<1> QED
  BY <1>4, <1>5

LEMMA StepKinds ==
  ASSUME ServiceSetupAssumption, Types, Next
  PROVE  \E p \in Procs : Kinds(p)
<1>1. PICK p \in Procs :
        \/ Start(p) \/ Crash(p)
        \/ BindStream(p) \/ BindStreamBlindly(p) \/ AddStream(p) \/ UpdateStream(p)
        \/ \E s \in Services :
             \/ BindConsumer(p, s) \/ AddConsumer(p, s) \/ UpdateConsumer(p, s)
             \/ Register(p, s)
             \/ SubscribeCore(p, s) \/ SubscribeInfo(p, s)
             \/ Attach(p, s) \/ Create(p, s) \/ CreateFails(p, s) \/ CreateExists(p, s)
             \/ UnRegister(p, s) \/ DeleteConsumer(p, s)
  BY DEF Next
<1>2. CASE Start(p)
  BY <1>2 DEF Kinds
<1>3. CASE Crash(p)
  BY <1>3 DEF Kinds, Falls, Uses, Crash, historyVars
<1>4. CASE BindStream(p) \/ BindStreamBlindly(p) \/ AddStream(p) \/ UpdateStream(p)
  BY <1>4, StreamKinds DEF Kinds
<1>5. ASSUME NEW s \in Services,
             \/ BindConsumer(p, s) \/ Register(p, s)
             \/ SubscribeInfo(p, s) \/ CreateExists(p, s)
      PROVE  Kinds(p)
  BY <1>5, LookupKinds DEF Kinds
<1>6. ASSUME NEW s \in Services,
             AddConsumer(p, s) \/ UpdateConsumer(p, s) \/ CreateFails(p, s)
      PROVE  Kinds(p)
  BY <1>6, InstallKinds DEF Kinds
<1>7. ASSUME NEW s \in Services,
             \/ SubscribeCore(p, s) \/ Attach(p, s) \/ Create(p, s)
             \/ UnRegister(p, s) \/ DeleteConsumer(p, s)
      PROVE  Kinds(p)
  BY <1>7 DEF Kinds, Subscribing
<1> QED
  BY <1>1, <1>2, <1>3, <1>4, <1>5, <1>6, <1>7, Zenon

-----------------------------------------------------------------------------
(* Types *)

\* The stream and the histories of starts and panics.
RestTyped ==
  /\ stream' \in Configs \cup {NoConfig}
  /\ starts' \in [Procs -> Nat]
  /\ panics' \subseteq Procs

LEMMA NextRest ==
  ASSUME ServiceSetupAssumption, TypeOK, Next
  PROVE  RestTyped
<1> USE DEF RestTyped, historyVars, brokerVars
<1>1. PICK p \in Procs :
        \/ Start(p) \/ Crash(p)
        \/ BindStream(p) \/ BindStreamBlindly(p) \/ AddStream(p) \/ UpdateStream(p)
        \/ \E s \in Services :
             \/ BindConsumer(p, s) \/ AddConsumer(p, s) \/ UpdateConsumer(p, s)
             \/ Register(p, s)
             \/ SubscribeCore(p, s) \/ SubscribeInfo(p, s)
             \/ Attach(p, s) \/ Create(p, s) \/ CreateFails(p, s) \/ CreateExists(p, s)
             \/ UnRegister(p, s) \/ DeleteConsumer(p, s)
  BY DEF Next
<1>2. CASE UNCHANGED <<stream, starts, panics>>
  BY <1>2 DEF TypeOK
<1>3. CASE Start(p)
  BY <1>3 DEF TypeOK, Start
<1>4. CASE AddStream(p)
  BY <1>4 DEF TypeOK, AddStream, ServiceSetupAssumption
<1>5. CASE UpdateStream(p)
  <2>1. stream' \in {stream, ConfigOf[p]} /\ panics' \subseteq panics \cup {p}
        /\ starts' = starts
    BY <1>5, Zenon DEF UpdateStream, PanicInBindStream
  <2> QED
    BY <2>1 DEF TypeOK, ServiceSetupAssumption
<1>6. CASE Crash(p) \/ BindStream(p) \/ BindStreamBlindly(p)
  BY <1>2, <1>6 DEF Crash, BindStream, BindStreamBlindly
<1>7. ASSUME NEW s \in Services,
             \/ BindConsumer(p, s) \/ AddConsumer(p, s) \/ UpdateConsumer(p, s)
             \/ Register(p, s)
      PROVE  RestTyped
  BY <1>2, <1>7 DEF BindConsumer, AddConsumer, UpdateConsumer, Register
<1>8. ASSUME NEW s \in Services,
             \/ SubscribeCore(p, s) \/ SubscribeInfo(p, s)
             \/ Attach(p, s) \/ Create(p, s) \/ CreateFails(p, s) \/ CreateExists(p, s)
             \/ UnRegister(p, s) \/ DeleteConsumer(p, s)
      PROVE  RestTyped
  BY <1>2, <1>8 DEF SubscribeCore, SubscribeInfo, Attach, Create, CreateFails, CreateExists,
                    UnRegister, DeleteConsumer
<1> QED
  BY <1>1, <1>3, <1>4, <1>5, <1>6, <1>7, <1>8

\* What an installation does to the consumers and to those who looked them up.
LEMMA InstallsStep ==
  ASSUME TypeOK, NEW p \in Procs, NEW s \in Streamed \cap Services, Install(p, s)
  PROVE  /\ consumers' = consumers \cup {s} /\ consumers' \subseteq Streamed
         /\ stale' = stale \cup Attaching(s) /\ stale' \subseteq Procs
         /\ lost \subseteq lost' /\ lost' \subseteq Subs
         /\ s \in consumers => UsedByOthers(p, s) \subseteq lost'
BY UsedByOthersType DEF TypeOK, Install, Attaching

LEMMA BrokerStep ==
  ASSUME TypeOK, NEW p \in Procs, Installs(p) \/ Uses(p)
  PROVE  /\ consumers \subseteq consumers' /\ consumers' \subseteq Streamed
         /\ stale' \subseteq Procs /\ lost \subseteq lost' /\ lost' \subseteq Subs
         /\ \A q \in stale' : q \notin stale => AtAttach(q)
         /\ AtAttach(p) => p \notin stale'
<1>1. CASE Uses(p)
  BY <1>1 DEF TypeOK, Uses
<1>2. ASSUME ~AtAttach(p), NEW s \in Streamed \cap Services, Install(p, s)
      PROVE  /\ consumers \subseteq consumers' /\ consumers' \subseteq Streamed
             /\ stale' \subseteq Procs /\ lost \subseteq lost' /\ lost' \subseteq Subs
             /\ \A q \in stale' : q \notin stale => AtAttach(q)
  BY <1>2, InstallsStep DEF Attaching, AtAttach
<1> QED
  BY <1>1, <1>2 DEF Installs

\* What happens to a process that ends.
LEMMA FallsStep ==
  ASSUME TypeOK, NEW p \in Procs, Panicf(p)
  PROVE  /\ pc' \in [Procs -> Pcs]
         /\ pc'[p] = <<"down">> /\ \A q \in Procs : q # p => pc'[q] = pc[q]
         /\ serviceSubs' \in [Procs -> [Services -> Nat]]
         /\ registers' \in [Procs -> [Services -> Nat]]
         /\ \A s \in Services : serviceSubs'[p][s] = NoSub /\ registers'[p][s] = 0
         /\ \A q \in Procs : q # p => serviceSubs'[q] = serviceSubs[q]
                                      /\ registers'[q] = registers[q]
         /\ \A i \in Subs : i[1] = p => i \notin open' /\ i \notin attached' /\ i \notin creator'
         /\ \A i \in Subs : i[1] # p => /\ (i \in open' <=> i \in open)
                                        /\ (i \in attached' <=> i \in attached)
                                        /\ (i \in creator' <=> i \in creator)
         /\ open' \subseteq open /\ attached' \subseteq attached /\ creator' \subseteq creator
         /\ attached' \subseteq open' /\ creator' \subseteq open'
<1>1. pc' \in [Procs -> Pcs] /\ pc'[p] = <<"down">> /\ \A q \in Procs : q # p => pc'[q] = pc[q]
  BY Goes, PcValues DEF Panicf
<1>2. /\ serviceSubs' \in [Procs -> [Services -> Nat]]
      /\ registers' \in [Procs -> [Services -> Nat]]
      /\ \A s \in Services : serviceSubs'[p][s] = NoSub /\ registers'[p][s] = 0
      /\ \A q \in Procs : q # p => serviceSubs'[q] = serviceSubs[q]
                                   /\ registers'[q] = registers[q]
  BY DEF Panicf, TypeOK, NoSub
<1>3. /\ \A i \in Subs : i[1] = p => i \notin open' /\ i \notin attached' /\ i \notin creator'
      /\ \A i \in Subs : i[1] # p => /\ (i \in open' <=> i \in open)
                                     /\ (i \in attached' <=> i \in attached)
                                     /\ (i \in creator' <=> i \in creator)
      /\ open' \subseteq open /\ attached' \subseteq attached /\ creator' \subseteq creator
      /\ attached' \subseteq open' /\ creator' \subseteq open'
  BY DEF Panicf, TypeOK, SubsOf
<1> QED
  BY <1>1, <1>2, <1>3

LEMMA SubscribedType ==
  ASSUME TypeOK, NEW p \in Procs, NEW s \in Services, Subscribed(p, s)
  PROVE  /\ registers'[p][s] = registers[p][s] + 1
         /\ serviceSubs'[p][s] = registers[p][s] + 1
         /\ open' = open \cup {NewSub(p, s)} /\ open' \subseteq Subs
         /\ registers' \in [Procs -> [Services -> Nat]]
         /\ serviceSubs' \in [Procs -> [Services -> Nat]]
         /\ \A q \in Procs, t \in Services : q # p \/ t # s =>
              registers'[q][t] = registers[q][t] /\ serviceSubs'[q][t] = serviceSubs[q][t]
<1>1. registers[p][s] \in Nat
  BY DEF TypeOK
<1>2. NewSub(p, s) \in Subs
  BY NewSubType
<1>3. /\ registers' = [registers EXCEPT ![p][s] = registers[p][s] + 1]
      /\ serviceSubs' = [serviceSubs EXCEPT ![p][s] = registers[p][s] + 1]
  BY DEF Subscribed
<1>4. /\ registers' \in [Procs -> [Services -> Nat]]
      /\ registers'[p][s] = registers[p][s] + 1
      /\ \A q \in Procs, t \in Services : q # p \/ t # s => registers'[q][t] = registers[q][t]
  BY <1>1, <1>3 DEF TypeOK
<1>5. /\ serviceSubs' \in [Procs -> [Services -> Nat]]
      /\ serviceSubs'[p][s] = registers[p][s] + 1
      /\ \A q \in Procs, t \in Services :
           q # p \/ t # s => serviceSubs'[q][t] = serviceSubs[q][t]
  BY <1>1, <1>3 DEF TypeOK
<1>6. open' = open \cup {NewSub(p, s)} /\ open' \subseteq Subs
  BY <1>2 DEF TypeOK, Subscribed, NewSub
<1> QED
  BY <1>4, <1>5, <1>6

\* A subscription that is made, and what it was made from.
LEMMA SubscribingStep ==
  ASSUME Types, NEW p \in Procs, NEW s \in Services, Subscribing(p, s)
  PROVE  /\ Subscribed(p, s)
         /\ pc' \in [Procs -> Pcs]
         /\ pc'[p] = <<"up">> /\ \A q \in Procs : q # p => pc'[q] = pc[q]
         /\ \/ s \notin Streamed /\ ~AtAttach(p)
               /\ UNCHANGED <<consumers, attached, stale, creator, lost>>
            \/ /\ pc[p] = <<"attach", s>> /\ UNCHANGED <<consumers, creator, lost>>
               /\ stale' = stale \ {p}
               /\ attached' = IF p \in stale THEN attached ELSE attached \cup {NewSub(p, s)}
            \/ /\ s \in Streamed /\ ~AtAttach(p) /\ Install(p, s)
               /\ attached' = attached \cup {NewSub(p, s)}
               /\ creator' = creator \cup {NewSub(p, s)}
<1>1. pc' = [pc EXCEPT ![p] = <<"up">>] /\ Subscribed(p, s)
  BY DEF Subscribing, SubscribeCore, Attach, Create, Return, GoTo
<1>2. /\ pc' \in [Procs -> Pcs]
      /\ pc'[p] = <<"up">> /\ \A q \in Procs : q # p => pc'[q] = pc[q]
  BY <1>1, Goes, PcValues DEF Types
<1>3. CASE SubscribeCore(p, s)
  <2>1. pc[p] = <<"subscribe", s>> /\ s \notin Streamed
    BY <1>3 DEF SubscribeCore, Return, GoTo
  <2>2. UNCHANGED <<consumers, attached, stale, creator, lost>>
    BY <1>3 DEF SubscribeCore, brokerVars, historyVars
  <2>3. ~AtAttach(p)
    BY <2>1 DEF AtAttach
  <2> QED
    BY <1>1, <1>2, <2>1, <2>2, <2>3
<1>4. CASE Attach(p, s)
  BY <1>1, <1>2, <1>4 DEF Attach, Return, GoTo, historyVars
<1>5. CASE Create(p, s)
  <2>1. pc[p] = <<"create", s>>
    BY <1>5 DEF Create, Return, GoTo
  <2>2. s \in Streamed /\ ~AtAttach(p)
    BY <2>1 DEF Types, Lookups, AtAttach
  <2> QED
    BY <1>1, <1>2, <1>5, <2>2 DEF Create
<1> QED
  BY <1>3, <1>4, <1>5 DEF Subscribing

LEMMA UnRegisterStep ==
  ASSUME TypeOK, NEW p \in Procs, NEW s \in Services, UnRegister(p, s)
  PROVE  \E i \in Subs :
         /\ i = <<p, s, serviceSubs[p][s]>> /\ serviceSubs[p][s] # NoSub
         /\ Unsubscribe(i)
         /\ pc[p] = <<"up">> /\ pc' \in [Procs -> Pcs]
         /\ pc'[p] \in {<<"up">>, <<"delete", s>>}
         /\ \A q \in Procs : q # p => pc'[q] = pc[q]
         /\ serviceSubs' \in [Procs -> [Services -> Nat]]
         /\ serviceSubs'[p][s] = NoSub
         /\ \A q \in Procs, t \in Services : q # p \/ t # s =>
              serviceSubs'[q][t] = serviceSubs[q][t]
         /\ UNCHANGED <<consumers, stale, registers, lost>>
<1> DEFINE i == <<p, s, serviceSubs[p][s]>>
<1>1. /\ serviceSubs[p][s] # NoSub /\ Unsubscribe(i) /\ pc[p] = <<"up">>
      /\ pc' = [pc EXCEPT ![p] = IF i \in creator THEN <<"delete", s>> ELSE <<"up">>]
      /\ serviceSubs' = [serviceSubs EXCEPT ![p][s] = NoSub]
      /\ UNCHANGED <<consumers, stale, registers, lost>>
  BY DEF UnRegister, GoTo, historyVars
<1>2. serviceSubs[p][s] \in Nat /\ i \in Subs
  BY <1>1 DEF TypeOK, NoSub, Subs
<1>3. /\ serviceSubs' \in [Procs -> [Services -> Nat]]
      /\ serviceSubs'[p][s] = NoSub
      /\ \A q \in Procs, t \in Services : q # p \/ t # s =>
           serviceSubs'[q][t] = serviceSubs[q][t]
  BY <1>1 DEF TypeOK, NoSub
<1>4. PICK to \in {<<"up">>, <<"delete", s>>} : pc' = [pc EXCEPT ![p] = to]
  BY <1>1
<1>5. /\ pc' \in [Procs -> Pcs] /\ pc'[p] = to
      /\ \A q \in Procs : q # p => pc'[q] = pc[q]
  BY <1>4, Goes, PcValues
<1> QED
  BY <1>1, <1>2, <1>3, <1>5

LEMMA DeleteStep ==
  ASSUME TypeOK, NEW p \in Procs, NEW s \in Services, DeleteConsumer(p, s)
  PROVE  /\ pc[p] = <<"delete", s>> /\ pc' \in [Procs -> Pcs] /\ pc'[p] = <<"up">>
         /\ \A q \in Procs : q # p => pc'[q] = pc[q]
         /\ UNCHANGED serverVars
         /\ \/ UNCHANGED <<consumers, attached, stale, lost>>
            \/ /\ consumers' = consumers \ {s} /\ attached' = attached \ AttachedTo(s)
               /\ stale' = stale \cup Attaching(s)
               /\ lost' = lost \cup UsedByOthers(p, s)
<1>1. pc[p] = <<"delete", s>> /\ pc' = [pc EXCEPT ![p] = <<"up">>]
  BY DEF DeleteConsumer, Return, GoTo
<1>2. /\ pc' \in [Procs -> Pcs] /\ pc'[p] = <<"up">>
      /\ \A q \in Procs : q # p => pc'[q] = pc[q]
  BY <1>1, Goes, PcValues
<1> QED
  BY <1>1, <1>2 DEF DeleteConsumer

LEMMA InitTypes ==
  ASSUME ServiceSetupAssumption, Init
  PROVE  Types
BY DEF Init, Types, TypeOK, Lookups, ServiceSetupAssumption, NoSub

\* Whoever still has a stale answer is still about to use it.
LEMMA LookupsStay ==
  ASSUME Types, NEW p \in Procs,
         pc' \in [Procs -> Pcs], \A q \in Procs : q # p => pc'[q] = pc[q],
         stale' \subseteq Procs, p \notin stale',
         \A q \in stale' : q \notin stale => AtAttach(q),
         \A s \in Services : pc'[p] \in {<<"addConsumer", s>>, <<"create", s>>} => s \in Streamed
  PROVE  Lookups'
BY DEF Types, Lookups, AtAttach

LEMMA NextTypes ==
  ASSUME ServiceSetupAssumption, Types, Next
  PROVE  Types'
<1> USE DEF Types
<1>0. RestTyped
  BY NextRest
<1>1. PICK p \in Procs : Kinds(p)
  BY StepKinds
<1>2. CASE Start(p)
  <2>1. /\ pc' = [pc EXCEPT ![p] = <<"up">>] /\ pc[p] = <<"down">>
        /\ UNCHANGED <<brokerVars, serverVars>> /\ lost' \subseteq lost
    BY <1>2 DEF Start, GoTo
  <2>2. /\ pc' \in [Procs -> Pcs] /\ pc'[p] = <<"up">>
        /\ \A q \in Procs : q # p => pc'[q] = pc[q]
    BY <2>1, Goes, PcValues
  <2>3. p \notin stale
    BY <2>1, NotStale DEF AtAttach
  <2>4. TypeOK'
    BY <1>0, <2>1, <2>2 DEF TypeOK, Pcs, RestTyped, brokerVars, serverVars
  <2> QED
    BY <2>1, <2>2, <2>3, <2>4, LookupsStay DEF brokerVars, TypeOK
<1>3. CASE Quiet(p)
  <2>1. PICK to \in Pcs : QuietGoes(p, to)
    BY <1>3 DEF Quiet
  <2>2. /\ pc' \in [Procs -> Pcs] /\ pc'[p] = to
        /\ \A q \in Procs : q # p => pc'[q] = pc[q]
    BY <2>1, Goes DEF QuietGoes
  <2>3. /\ consumers' \subseteq Streamed /\ stale' \subseteq Procs /\ lost' \subseteq Subs
        /\ \A q \in stale' : q \notin stale => AtAttach(q)
    BY <1>3, BrokerStep DEF Quiet
  <2>4. p \notin stale'
    BY <1>3, <2>3, NotStale DEF Quiet
  <2>5. TypeOK'
    BY <1>0, <1>3, <2>2, <2>3 DEF TypeOK, Pcs, RestTyped, Quiet, ServerStays, serverVars
  <2>6. \A s \in Services :
          pc'[p] \in {<<"addConsumer", s>>, <<"create", s>>} => s \in Streamed
    BY <2>1, <2>2 DEF QuietGoes
  <2> QED
    BY <2>2, <2>3, <2>4, <2>5, <2>6, LookupsStay
<1>4. CASE Falls(p)
  <2>1. /\ consumers' \subseteq Streamed /\ stale' \subseteq Procs /\ lost' \subseteq Subs
        /\ \A q \in stale' : q \notin stale => AtAttach(q)
        /\ AtAttach(p) => p \notin stale'
    BY <1>4, BrokerStep DEF Falls
  <2>2. p \notin stale'
    BY <2>1, NotStale
  <2>3. /\ pc' \in [Procs -> Pcs]
        /\ pc'[p] = <<"down">> /\ \A q \in Procs : q # p => pc'[q] = pc[q]
        /\ serviceSubs' \in [Procs -> [Services -> Nat]]
        /\ registers' \in [Procs -> [Services -> Nat]]
        /\ open' \subseteq open /\ attached' \subseteq open' /\ creator' \subseteq open'
    BY <1>4, FallsStep DEF Falls
  <2>4. TypeOK'
    BY <1>0, <2>1, <2>3 DEF TypeOK, Pcs, RestTyped
  <2> QED
    BY <2>1, <2>2, <2>3, <2>4, LookupsStay
<1>5. ASSUME NEW s \in Services, Subscribing(p, s)
      PROVE  Types'
  <2>1. /\ Subscribed(p, s)
        /\ pc' \in [Procs -> Pcs]
        /\ pc'[p] = <<"up">> /\ \A q \in Procs : q # p => pc'[q] = pc[q]
    BY <1>5, SubscribingStep
  <2>2. /\ open' = open \cup {NewSub(p, s)} /\ open' \subseteq Subs
        /\ registers' \in [Procs -> [Services -> Nat]]
        /\ serviceSubs' \in [Procs -> [Services -> Nat]]
    BY <2>1, SubscribedType
  <2>3. /\ attached' \subseteq attached \cup {NewSub(p, s)}
        /\ creator' \subseteq creator \cup {NewSub(p, s)}
    BY <1>5, SubscribingStep
  <2>4. /\ consumers' \subseteq Streamed /\ stale' \subseteq Procs /\ lost' \subseteq Subs
        /\ p \notin stale'
        /\ \A q \in stale' : q \notin stale => AtAttach(q)
    <3>1. CASE UNCHANGED <<consumers, stale, lost>> /\ ~AtAttach(p)
      BY <3>1, NotStale DEF TypeOK
    <3>2. CASE UNCHANGED <<consumers, lost>> /\ stale' = stale \ {p}
      BY <3>2 DEF TypeOK
    <3>3. CASE s \in Streamed /\ ~AtAttach(p) /\ Install(p, s)
      <4>1. Installs(p)
        BY <3>3 DEF Installs
      <4> QED
        BY <3>3, <4>1, BrokerStep, NotStale
    <3> QED
      BY <1>5, SubscribingStep, <3>1, <3>2, <3>3
  <2>5. TypeOK'
    BY <1>0, <2>1, <2>2, <2>3, <2>4 DEF TypeOK, Pcs, RestTyped
  <2> QED
    BY <2>1, <2>4, <2>5, LookupsStay
<1>6. ASSUME NEW s \in Services, UnRegister(p, s)
      PROVE  Types'
  <2>1. PICK i \in Subs :
         /\ Unsubscribe(i)
         /\ pc[p] = <<"up">> /\ pc' \in [Procs -> Pcs]
         /\ pc'[p] \in {<<"up">>, <<"delete", s>>}
         /\ \A q \in Procs : q # p => pc'[q] = pc[q]
         /\ serviceSubs' \in [Procs -> [Services -> Nat]]
         /\ UNCHANGED <<consumers, stale, registers, lost>>
    BY <1>6, UnRegisterStep
  <2>2. TypeOK'
    BY <1>0, <2>1 DEF TypeOK, Pcs, RestTyped, Unsubscribe
  <2>3. p \notin stale
    BY <2>1, NotStale DEF AtAttach
  <2>4. stale' \subseteq Procs /\ p \notin stale' /\ \A q \in stale' : q \in stale
    BY <2>1, <2>3 DEF TypeOK
  <2>5. \A t \in Services : pc'[p] \notin {<<"addConsumer", t>>, <<"create", t>>}
    BY <2>1
  <2>6. Lookups'
    BY <2>1, <2>4, <2>5, LookupsStay
  <2> QED
    BY <2>2, <2>6
<1>7. ASSUME NEW s \in Services, DeleteConsumer(p, s)
      PROVE  Types'
  <2>1. /\ pc[p] = <<"delete", s>> /\ pc' \in [Procs -> Pcs] /\ pc'[p] = <<"up">>
        /\ \A q \in Procs : q # p => pc'[q] = pc[q]
        /\ UNCHANGED serverVars
        /\ consumers' \subseteq consumers /\ attached' \subseteq attached
        /\ stale' \subseteq stale \cup Attaching(s)
        /\ lost' \subseteq lost \cup UsedByOthers(p, s)
    BY <1>7, DeleteStep
  <2>2. lost' \subseteq Subs /\ stale' \subseteq Procs
    BY <2>1, UsedByOthersType DEF TypeOK, Attaching
  <2>3. TypeOK'
    BY <1>0, <2>1, <2>2 DEF TypeOK, Pcs, RestTyped, serverVars
  <2>4. p \notin stale' /\ \A q \in stale' : q \notin stale => AtAttach(q)
    BY <2>1, NotStale DEF AtAttach, Attaching
  <2> QED
    BY <2>1, <2>2, <2>3, <2>4, LookupsStay
<1> QED
  BY <1>1, <1>2, <1>3, <1>4, <1>5, <1>6, <1>7 DEF Kinds

-----------------------------------------------------------------------------
(* Who panics *)

\* The stream has the configuration of some process, and stays once it is there.
Configured ==
  /\ stream \in {NoConfig} \cup {ConfigOf[q] : q \in Procs}
  /\ \A p \in Procs : pc[p] = <<"updateStream">> => stream # NoConfig
  /\ PanicNeedsConflict

LEMMA NextConfigured ==
  ASSUME ServiceSetupAssumption, Types, Configured, Next
  PROVE  Configured'
<1> USE DEF Configured, PanicNeedsConflict
<1>0. \A q \in Procs : ConfigOf[q] # NoConfig
  BY DEF ServiceSetupAssumption
<1>1. PICK p \in Procs :
        \/ Start(p) \/ Crash(p)
        \/ BindStream(p) \/ BindStreamBlindly(p) \/ AddStream(p) \/ UpdateStream(p)
        \/ \E s \in Services :
             \/ BindConsumer(p, s) \/ AddConsumer(p, s) \/ UpdateConsumer(p, s)
             \/ Register(p, s)
             \/ SubscribeCore(p, s) \/ SubscribeInfo(p, s)
             \/ Attach(p, s) \/ Create(p, s) \/ CreateFails(p, s) \/ CreateExists(p, s)
             \/ UnRegister(p, s) \/ DeleteConsumer(p, s)
  BY DEF Next
<1>2. pc \in [Procs -> Pcs]
  BY DEF Types, TypeOK, Pcs
<1> DEFINE Moves == \E to : to # <<"updateStream">> /\ pc' = [pc EXCEPT ![p] = to]
<1>3. Moves => \A q \in Procs : pc'[q] = <<"updateStream">> => pc[q] = <<"updateStream">>
  BY <1>2
<1>4. Panicf(p) => Moves
  BY DEF Panicf
<1> HIDE DEF Moves
<1>5. ASSUME UNCHANGED <<stream, panics>>, Moves
      PROVE  Configured'
  BY <1>3, <1>5
<1>6. CASE Start(p) \/ Crash(p) \/ BindStreamBlindly(p)
  <2>1. UNCHANGED <<stream, panics>>
    BY <1>6 DEF Start, Crash, BindStreamBlindly, brokerVars, historyVars
  <2>2. Moves
    BY <1>4, <1>6 DEF Moves, Start, Crash, BindStreamBlindly, GoTo
  <2> QED
    BY <1>5, <2>1, <2>2
<1>7. CASE BindStream(p)
  BY <1>2, <1>7 DEF BindStream, GoTo, brokerVars, historyVars
<1>8. CASE AddStream(p)
  <2>1. /\ stream' \in {stream, ConfigOf[p]} /\ (stream # NoConfig => stream' = stream)
        /\ panics' = panics
    BY <1>8 DEF AddStream, historyVars
  <2>2. Moves
    BY <1>8 DEF Moves, AddStream, Return, GoTo
  <2> QED
    BY <1>0, <1>3, <2>1, <2>2
<1>9. CASE UpdateStream(p)
  <2>1. stream' \in {stream, ConfigOf[p]}
    BY <1>9, Zenon DEF UpdateStream
  <2>2. Moves
    <3>1. Panicf(p) \/ Return(p, pc[p])
      BY <1>9, Zenon DEF UpdateStream, PanicInBindStream
    <3> QED
      BY <1>4, <3>1 DEF Moves, Return, GoTo
  <2>3. \A q \in panics' : q \in panics \/ (q = p /\ pc[p] = <<"updateStream">> /\ ~Updatable(p))
    BY <1>9 DEF UpdateStream, PanicInBindStream
  <2>4. pc[p] = <<"updateStream">> => \E q \in Procs : stream = ConfigOf[q]
    OBVIOUS
  <2> QED
    BY <1>0, <1>3, <2>1, <2>2, <2>3, <2>4 DEF Updatable
<1>10. ASSUME NEW s \in Services,
              \/ BindConsumer(p, s) \/ AddConsumer(p, s) \/ UpdateConsumer(p, s)
              \/ Register(p, s)
       PROVE  Configured'
  <2>1. UNCHANGED <<stream, panics>>
    BY <1>10 DEF BindConsumer, AddConsumer, UpdateConsumer, Register, brokerVars, historyVars
  <2>2. Moves
    BY <1>4, <1>10 DEF Moves, BindConsumer, AddConsumer, UpdateConsumer, Register, Return, GoTo
  <2> QED
    BY <1>5, <2>1, <2>2
<1>11. ASSUME NEW s \in Services,
              \/ SubscribeCore(p, s) \/ SubscribeInfo(p, s)
              \/ Attach(p, s) \/ Create(p, s) \/ CreateFails(p, s) \/ CreateExists(p, s)
              \/ UnRegister(p, s) \/ DeleteConsumer(p, s)
       PROVE  Configured'
  <2>1. UNCHANGED <<stream, panics>>
    BY <1>11 DEF SubscribeCore, SubscribeInfo, Attach, Create, CreateFails, CreateExists,
                 UnRegister, DeleteConsumer, brokerVars, historyVars
  <2>2. \E to \in {<<"up">>, <<"attach", s>>, <<"create", s>>, <<"delete", s>>} :
          pc' = [pc EXCEPT ![p] = to]
    BY <1>11 DEF SubscribeCore, SubscribeInfo, Attach, Create, CreateFails, CreateExists,
                 UnRegister, DeleteConsumer, Return, GoTo
  <2>3. Moves
    BY <2>2 DEF Moves
  <2> QED
    BY <1>5, <2>1, <2>3
<1> QED
  BY <1>1, <1>6, <1>7, <1>8, <1>9, <1>10, <1>11

-----------------------------------------------------------------------------
(* Who is unregistered and still receives *)

\* Numbers of subscriptions are given once, and the map holds the only one.
Numbered ==
  /\ \A i \in open : i[3] <= registers[i[1]][i[2]]
  /\ \A p \in Procs, s \in Services : serviceSubs[p][s] <= registers[p][s]
  /\ \A p \in Procs, s \in Services :
       registers[p][s] <= 1 /\ <<p, s, 1>> \in open => serviceSubs[p][s] = 1

LEMMA FallsNumbered ==
  ASSUME TypeOK, Numbered, NEW p \in Procs, Panicf(p)
  PROVE  Numbered'
<1>1. open \subseteq Subs
  BY DEF TypeOK
<1>2. \A i \in open' : i \in open /\ i[1] # p
  BY <1>1, FallsStep
<1>3. \A q \in Procs : q # p => serviceSubs'[q] = serviceSubs[q] /\ registers'[q] = registers[q]
  BY FallsStep
<1>4. \A s \in Services : serviceSubs'[p][s] = 0 /\ registers'[p][s] = 0
  BY FallsStep DEF NoSub
<1>5. \A i \in open' : i[3] <= registers'[i[1]][i[2]]
  BY <1>1, <1>2, <1>3, SubParts DEF Numbered
<1>6. \A q \in Procs, s \in Services : serviceSubs'[q][s] <= registers'[q][s]
  BY <1>3, <1>4 DEF Numbered
<1>7. ASSUME NEW q \in Procs, NEW s \in Services, registers'[q][s] <= 1, <<q, s, 1>> \in open'
      PROVE  serviceSubs'[q][s] = 1
  <2>1. q # p /\ <<q, s, 1>> \in open
    BY <1>2, <1>7
  <2> QED
    BY <1>3, <1>7, <2>1 DEF Numbered
<1> QED
  BY <1>5, <1>6, <1>7 DEF Numbered

LEMMA SubscribedNumbered ==
  ASSUME TypeOK, Numbered, NEW p \in Procs, NEW s \in Services, Subscribed(p, s)
  PROVE  Numbered'
<1>1. /\ open \subseteq Subs /\ registers \in [Procs -> [Services -> Nat]]
      /\ serviceSubs \in [Procs -> [Services -> Nat]]
  BY DEF TypeOK
<1> DEFINE n == registers[p][s] + 1
<1>2. /\ registers[p][s] \in Nat /\ n \in Nat /\ n = registers[p][s] + 1
      /\ registers'[p][s] = n /\ serviceSubs'[p][s] = n
      /\ open' = open \cup {<<p, s, n>>}
  <2>1. registers[p][s] \in Nat /\ NewSub(p, s) = <<p, s, n>>
    BY NewSubType
  <2>2. registers'[p][s] = n /\ serviceSubs'[p][s] = n
    BY SubscribedType
  <2>3. open' = open \cup {NewSub(p, s)}
    BY SubscribedType
  <2> QED
    BY <2>1, <2>2, <2>3
<1> HIDE DEF n
<1>3. \A q \in Procs, t \in Services : q # p \/ t # s =>
         registers'[q][t] = registers[q][t] /\ serviceSubs'[q][t] = serviceSubs[q][t]
  BY SubscribedType
<1>4. ASSUME NEW i \in open' PROVE i[3] <= registers'[i[1]][i[2]]
  <2>1. CASE i = <<p, s, n>>
    BY <1>2, <2>1
  <2>2. CASE i \in open
    <3>1. /\ i[1] \in Procs /\ i[2] \in Services /\ i[3] \in Nat
          /\ i[3] <= registers[i[1]][i[2]]
      BY <1>1, <2>2, SubParts DEF Numbered
    <3>2. CASE i[1] = p /\ i[2] = s
      BY <1>2, <3>1, <3>2
    <3>3. CASE i[1] # p \/ i[2] # s
      BY <1>3, <3>1, <3>3
    <3> QED
      BY <3>2, <3>3
  <2> QED
    BY <1>2, <1>4, <2>1, <2>2
<1>5. \A q \in Procs, t \in Services : serviceSubs'[q][t] <= registers'[q][t]
  BY <1>2, <1>3 DEF Numbered
<1>6. ASSUME NEW q \in Procs, NEW t \in Services, registers'[q][t] <= 1, <<q, t, 1>> \in open'
      PROVE  serviceSubs'[q][t] = 1
  <2>1. CASE q = p /\ t = s
    BY <1>2, <1>6, <2>1
  <2>2. CASE q # p \/ t # s
    BY <1>2, <1>3, <1>6, <2>2 DEF Numbered
  <2> QED
    BY <2>1, <2>2
<1> QED
  BY <1>4, <1>5, <1>6 DEF Numbered

LEMMA UnRegisterNumbered ==
  ASSUME TypeOK, Numbered, NEW p \in Procs, NEW s \in Services, UnRegister(p, s)
  PROVE  Numbered'
<1>1. PICK i \in Subs :
       /\ i = <<p, s, serviceSubs[p][s]>> /\ Unsubscribe(i)
       /\ serviceSubs'[p][s] = 0
       /\ \A q \in Procs, t \in Services : q # p \/ t # s =>
            serviceSubs'[q][t] = serviceSubs[q][t]
       /\ registers' = registers
  BY UnRegisterStep DEF NoSub
<1>2. open' = open \ {i}
  BY <1>1 DEF Unsubscribe
<1>3. registers \in [Procs -> [Services -> Nat]]
  BY DEF TypeOK
<1>4. \A q \in Procs, t \in Services : serviceSubs'[q][t] <= registers'[q][t]
  <2> SUFFICES ASSUME NEW q \in Procs, NEW t \in Services
               PROVE  serviceSubs'[q][t] <= registers'[q][t]
    OBVIOUS
  <2>1. registers[q][t] \in Nat /\ serviceSubs[q][t] <= registers[q][t]
    BY <1>3 DEF Numbered
  <2> QED
    BY <1>1, <2>1
<1>5. ASSUME NEW q \in Procs, NEW t \in Services, registers'[q][t] <= 1, <<q, t, 1>> \in open'
      PROVE  serviceSubs'[q][t] = 1
  <2>1. serviceSubs[q][t] = 1 /\ <<q, t, 1>> # i
    BY <1>1, <1>2, <1>5 DEF Numbered
  <2> QED
    BY <1>1, <2>1
<1> QED
  BY <1>1, <1>2, <1>4, <1>5 DEF Numbered

LEMMA NextNumbered ==
  ASSUME ServiceSetupAssumption, Types, Numbered, Next
  PROVE  Numbered'
<1> USE DEF Types
<1>1. PICK p \in Procs : Kinds(p)
  BY StepKinds
<1>2. CASE UNCHANGED serverVars
  BY <1>2 DEF Numbered, serverVars
<1>3. CASE Start(p) \/ Quiet(p)
  BY <1>2, <1>3 DEF Start, Quiet, ServerStays, serverVars
<1>4. CASE Falls(p)
  BY <1>4, FallsNumbered DEF Falls
<1>5. ASSUME NEW s \in Services, Subscribing(p, s)
      PROVE  Numbered'
  BY <1>5, SubscribingStep, SubscribedNumbered
<1>6. ASSUME NEW s \in Services, DeleteConsumer(p, s)
      PROVE  Numbered'
  BY <1>2, <1>6, DeleteStep
<1> QED
  BY <1>1, <1>3, <1>4, <1>5, <1>6, UnRegisterNumbered DEF Kinds

-----------------------------------------------------------------------------
(* Who is alone at a consumer, and who receives nothing *)

\* Without a queue group, the creator keeps everybody else away.
Alone ==
  \A i \in creator \cap attached, j \in attached : i[2] \notin Grouped /\ j[2] = i[2] => j = i

\* What an answer of the broker is worth when Attach acts on it.
LookedUp ==
  \A p \in Procs, s \in Services :
    pc[p] = <<"attach", s>> =>
      /\ p \in stale => NewSub(p, s) \in lost
      /\ p \notin stale =>
           /\ s \in consumers
           /\ s \notin Grouped => \A i \in creator \cap attached : i[2] # s

\* A process deletes the consumer of a service it serves no more.
Unserved ==
  \A p \in Procs, s \in Services :
    pc[p] \in {<<"down">>, <<"delete", s>>} => serviceSubs[p][s] = NoSub

Sharing ==
  /\ \A i \in attached : i[2] \in consumers
  /\ Alone /\ LookedUp /\ Unserved /\ DeafByAnother

\* The subscription of a service that a process has in its map.
LEMMA MapSub ==
  ASSUME TypeOK, NEW p \in Procs, NEW s \in Services, serviceSubs[p][s] # NoSub
  PROVE  <<p, s, serviceSubs[p][s]>> \in Subs
BY DEF TypeOK, NoSub, Subs

\* Who looked the consumer up before finds its answer out of date, and it is
\* another process that did it.
LEMMA InstallLookedUp ==
  ASSUME Types, LookedUp, NEW p \in Procs, NEW s \in Streamed \cap Services,
         Install(p, s), ~AtAttach(p),
         NEW q \in Procs, NEW t \in Services, q # p, pc[q] = <<"attach", t>>
  PROVE  /\ q \in stale' => NewSub(q, t) \in lost'
         /\ q \notin stale' =>
              /\ q \notin stale /\ t # s /\ t \in consumers'
              /\ t \notin Grouped => \A i \in creator \cap attached : i[2] # t
<1>1. /\ consumers' = consumers \cup {s}
      /\ stale' = stale \cup Attaching(s) /\ lost \subseteq lost'
      /\ s \in consumers => UsedByOthers(p, s) \subseteq lost'
  BY InstallsStep DEF Types
<1>2. CASE t = s
  <2>1. q \in stale'
    BY <1>1, <1>2 DEF Attaching
  <2>2. CASE q \in stale
    BY <1>1, <2>1, <2>2 DEF LookedUp
  <2>3. CASE q \notin stale
    <3>1. s \in consumers
      BY <1>2, <2>3 DEF LookedUp
    <3>2. NewSub(q, s) \in UsedByOthers(p, s)
      BY <1>2 DEF UsedByOthers, Attaching
    <3> QED
      BY <1>1, <1>2, <2>1, <3>1, <3>2
  <2> QED
    BY <2>2, <2>3
<1>3. CASE t # s
  <2>1. q \in stale' => q \in stale
    BY <1>1, <1>3 DEF Attaching
  <2> QED
    BY <1>1, <1>3, <2>1 DEF LookedUp
<1> QED
  BY <1>2, <1>3

\* The same whether something is installed or an answer is used.
LEMMA BrokerLookedUp ==
  ASSUME Types, LookedUp, NEW p \in Procs, Installs(p) \/ Uses(p),
         NEW q \in Procs, NEW t \in Services, q # p, pc[q] = <<"attach", t>>
  PROVE  /\ q \in stale' => NewSub(q, t) \in lost'
         /\ q \notin stale' =>
              /\ q \notin stale /\ t \in consumers'
              /\ t \notin Grouped => \A i \in creator \cap attached : i[2] # t
<1>1. CASE Uses(p)
  BY <1>1 DEF Uses, LookedUp
<1>2. CASE Installs(p)
  BY <1>2, InstallLookedUp DEF Installs
<1> QED
  BY <1>1, <1>2

LEMMA NewSubSame ==
  ASSUME NEW q, NEW t, registers'[q][t] = registers[q][t]
  PROVE  NewSub(q, t)' = NewSub(q, t)
BY DEF NewSub

LEMMA QuietSharing ==
  ASSUME Types, Sharing, NEW p \in Procs, Quiet(p)
  PROVE  Sharing'
<1>1. PICK to \in Pcs : QuietGoes(p, to)
  BY DEF Quiet
<1>2. /\ pc'[p] = to
      /\ \A q \in Procs : q # p => pc'[q] = pc[q]
  BY <1>1, Goes DEF QuietGoes, Types
<1>3. UNCHANGED <<attached, open, creator, serviceSubs, registers>>
  BY DEF Quiet, ServerStays, serverVars
<1>4. consumers \subseteq consumers' /\ lost \subseteq lost'
  BY BrokerStep DEF Quiet, Types
<1>5. (\A i \in attached : i[2] \in consumers)' /\ Alone' /\ DeafByAnother'
  BY <1>3, <1>4 DEF Sharing, Alone, DeafByAnother, Deaf
<1>6. Unserved'
  BY <1>1, <1>2, <1>3 DEF Sharing, Unserved, QuietGoes
<1>7. ASSUME NEW q \in Procs, NEW t \in Services, pc'[q] = <<"attach", t>>
      PROVE  /\ q \in stale' => NewSub(q, t)' \in lost'
             /\ q \notin stale' =>
                  /\ t \in consumers'
                  /\ t \notin Grouped => \A i \in creator' \cap attached' : i[2] # t
  <2>1. NewSub(q, t)' = NewSub(q, t)
    BY <1>3, NewSubSame
  <2>2. CASE q # p
    <3>1. pc[q] = <<"attach", t>>
      BY <1>2, <1>7, <2>2
    <3> QED
      BY <1>3, <2>1, <2>2, <3>1, BrokerLookedUp DEF Quiet, Sharing
  <2>3. CASE q = p
    <3>1. Usable(t) /\ Uses(p)
      BY <1>1, <1>2, <1>7, <2>3 DEF QuietGoes
    <3>2. p \notin stale' /\ t \in consumers'
      BY <3>1 DEF Uses, Usable
    <3>3. t \notin Grouped => \A i \in attached : i[2] # t
      BY <3>1 DEF Usable, AttachedTo
    <3> QED
      BY <1>3, <2>3, <3>2, <3>3
  <2> QED
    BY <2>2, <2>3
<1> QED
  BY <1>5, <1>6, <1>7 DEF Sharing, LookedUp

LEMMA StartSharing ==
  ASSUME Types, Sharing, NEW p \in Procs, Start(p)
  PROVE  Sharing'
<1>1. /\ pc[p] = <<"down">> /\ pc' = [pc EXCEPT ![p] = <<"up">>]
      /\ UNCHANGED <<brokerVars, serverVars>> /\ lost' = {i \in lost : i[1] # p}
  BY DEF Start, GoTo
<1>2. pc'[p] = <<"up">> /\ \A q \in Procs : q # p => pc'[q] = pc[q]
  BY <1>1, Goes, PcValues DEF Types
<1>3. (\A i \in attached : i[2] \in consumers)' /\ Alone' /\ Unserved'
  BY <1>1, <1>2 DEF Sharing, Alone, Unserved, brokerVars, serverVars
<1>4. LookedUp'
  <2> SUFFICES ASSUME NEW q \in Procs, NEW t \in Services, pc'[q] = <<"attach", t>>
               PROVE  /\ q \in stale' => NewSub(q, t)' \in lost'
                      /\ q \notin stale' =>
                           /\ t \in consumers'
                           /\ t \notin Grouped => \A i \in creator' \cap attached' : i[2] # t
    BY DEF LookedUp
  <2>1. q # p /\ pc[q] = <<"attach", t>>
    BY <1>2
  <2>2. NewSub(q, t)' = NewSub(q, t) /\ NewSub(q, t)[1] = q
    BY <1>1, NewSubSame, NewSubType DEF serverVars, Types
  <2> QED
    BY <1>1, <2>1, <2>2 DEF Sharing, LookedUp, brokerVars, serverVars
<1>5. ASSUME NEW q \in Procs, NEW s \in Services, serviceSubs'[q][s] # NoSub, Deaf(q, s)'
      PROVE  <<q, s, serviceSubs'[q][s]>> \in lost'
  <2>1. q # p /\ serviceSubs[q][s] # NoSub /\ Deaf(q, s) /\ serviceSubs' = serviceSubs
    BY <1>1, <1>5 DEF Sharing, Unserved, Deaf, brokerVars, serverVars
  <2> QED
    BY <1>1, <2>1 DEF Sharing, DeafByAnother
<1> QED
  BY <1>3, <1>4, <1>5 DEF Sharing, DeafByAnother

LEMMA FallsSharing ==
  ASSUME Types, Sharing, NEW p \in Procs, Falls(p)
  PROVE  Sharing'
<1>0. attached \subseteq Subs /\ creator \subseteq Subs
  BY DEF Types, TypeOK
<1>1. /\ attached' \subseteq attached /\ creator' \subseteq creator
      /\ \A i \in Subs : i[1] # p => (i \in attached' <=> i \in attached)
      /\ pc'[p] = <<"down">> /\ \A q \in Procs : q # p => pc'[q] = pc[q]
      /\ \A s \in Services : serviceSubs'[p][s] = NoSub
      /\ \A q \in Procs : q # p => serviceSubs'[q] = serviceSubs[q]
                                   /\ registers'[q] = registers[q]
  BY FallsStep DEF Types, Falls
<1>2. consumers \subseteq consumers' /\ lost \subseteq lost'
  BY BrokerStep DEF Falls, Types
<1>3. (\A i \in attached : i[2] \in consumers)' /\ Alone' /\ Unserved'
  BY <1>1, <1>2 DEF Sharing, Alone, Unserved
<1>4. LookedUp'
  <2> SUFFICES ASSUME NEW q \in Procs, NEW t \in Services, pc'[q] = <<"attach", t>>
               PROVE  /\ q \in stale' => NewSub(q, t)' \in lost'
                      /\ q \notin stale' =>
                           /\ t \in consumers'
                           /\ t \notin Grouped => \A i \in creator' \cap attached' : i[2] # t
    BY DEF LookedUp
  <2>1. q # p /\ pc[q] = <<"attach", t>>
    BY <1>1
  <2>2. NewSub(q, t)' = NewSub(q, t)
    BY <1>1, <2>1, NewSubSame
  <2> QED
    BY <1>1, <2>1, <2>2, BrokerLookedUp DEF Falls, Sharing
<1>5. ASSUME NEW q \in Procs, NEW s \in Services, serviceSubs'[q][s] # NoSub, Deaf(q, s)'
      PROVE  <<q, s, serviceSubs'[q][s]>> \in lost'
  <2>1. q # p /\ serviceSubs'[q][s] = serviceSubs[q][s]
    BY <1>1, <1>5
  <2>2. <<q, s, serviceSubs[q][s]>> \in Subs /\ <<q, s, serviceSubs[q][s]>> \notin attached'
        /\ s \in Streamed
    BY <1>5, <2>1, MapSub DEF Deaf, Types
  <2>3. <<q, s, serviceSubs[q][s]>> \notin attached
    BY <1>1, <2>1, <2>2
  <2> QED
    BY <1>2, <1>5, <2>1, <2>2, <2>3 DEF Sharing, DeafByAnother, Deaf
<1> QED
  BY <1>3, <1>4, <1>5 DEF Sharing, DeafByAnother

LEMMA NewSubIsNew ==
  ASSUME TypeOK, Numbered, NEW p \in Procs, NEW s \in Services
  PROVE  NewSub(p, s) \notin open
<1>1. /\ registers[p][s] \in Nat
      /\ NewSub(p, s) = <<p, s, registers[p][s] + 1>>
  BY NewSubType
<1>2. NewSub(p, s) \in open => registers[p][s] + 1 <= registers[p][s]
  BY <1>1 DEF Numbered
<1> QED
  BY <1>1, <1>2

\* Attach and Create act on what was looked up before.
LEMMA SubscribingSharing ==
  ASSUME Types, Numbered, Sharing, NEW p \in Procs, NEW s \in Services, Subscribing(p, s)
  PROVE  Sharing'
<1> DEFINE new == NewSub(p, s)
<1>1. /\ Subscribed(p, s)
      /\ pc'[p] = <<"up">> /\ \A q \in Procs : q # p => pc'[q] = pc[q]
  BY SubscribingStep
<1>2. /\ serviceSubs'[p][s] = registers[p][s] + 1
      /\ \A q \in Procs, t \in Services : q # p \/ t # s =>
           registers'[q][t] = registers[q][t] /\ serviceSubs'[q][t] = serviceSubs[q][t]
  BY <1>1, SubscribedType DEF Types
<1>3. new \in Subs /\ new[1] = p /\ new[2] = s /\ new = <<p, s, registers[p][s] + 1>>
  BY NewSubType DEF Types
<1>4. new \notin creator /\ new \notin attached
  BY NewSubIsNew DEF Types, TypeOK
<1>5. \/ s \notin Streamed /\ ~AtAttach(p)
         /\ UNCHANGED <<consumers, attached, stale, creator, lost>>
      \/ /\ pc[p] = <<"attach", s>> /\ UNCHANGED <<consumers, creator, lost>>
         /\ stale' = stale \ {p}
         /\ attached' = IF p \in stale THEN attached ELSE attached \cup {new}
      \/ /\ s \in Streamed /\ ~AtAttach(p) /\ Install(p, s)
         /\ attached' = attached \cup {new} /\ creator' = creator \cup {new}
  BY SubscribingStep
<1> HIDE DEF new
<1>6. Unserved'
  BY <1>1, <1>2 DEF Sharing, Unserved
<1>7. ASSUME NEW q \in Procs, NEW t \in Services, q # p, NewSub(q, t) \in lost'
      PROVE  NewSub(q, t)' \in lost'
  BY <1>2, <1>7, NewSubSame
<1>8. CASE s \notin Streamed /\ UNCHANGED <<consumers, attached, stale, creator, lost>>
  <2>1. (\A i \in attached : i[2] \in consumers)' /\ Alone'
    BY <1>8 DEF Sharing, Alone
  <2>2. LookedUp'
    BY <1>1, <1>7, <1>8 DEF Sharing, LookedUp
  <2>3. DeafByAnother'
    BY <1>2, <1>8 DEF Sharing, DeafByAnother, Deaf
  <2> QED
    BY <1>6, <2>1, <2>2, <2>3 DEF Sharing
<1>9. CASE /\ pc[p] = <<"attach", s>> /\ UNCHANGED <<consumers, creator, lost>>
           /\ stale' = stale \ {p}
           /\ attached' = IF p \in stale THEN attached ELSE attached \cup {new}
  <2>1. /\ p \in stale => new \in lost
        /\ p \notin stale =>
             /\ s \in consumers
             /\ s \notin Grouped => \A i \in creator \cap attached : i[2] # s
    BY <1>9 DEF Sharing, LookedUp, new
  <2>2. (\A i \in attached : i[2] \in consumers)'
    BY <1>3, <1>9, <2>1 DEF Sharing
  <2>3. Alone'
    BY <1>3, <1>4, <1>9, <2>1 DEF Sharing, Alone
  <2>4. LookedUp'
    <3> SUFFICES ASSUME NEW q \in Procs, NEW t \in Services, pc'[q] = <<"attach", t>>
                 PROVE  /\ q \in stale' => NewSub(q, t)' \in lost'
                        /\ q \notin stale' =>
                             /\ t \in consumers'
                             /\ t \notin Grouped => \A i \in creator' \cap attached' : i[2] # t
      BY DEF LookedUp
    <3>1. q # p /\ pc[q] = <<"attach", t>>
      BY <1>1
    <3>2. \A i \in creator' \cap attached' : i \in creator \cap attached
      BY <1>4, <1>9
    <3> QED
      BY <1>7, <1>9, <3>1, <3>2 DEF Sharing, LookedUp
  <2>5. DeafByAnother'
    <3> SUFFICES ASSUME NEW q \in Procs, NEW t \in Services, serviceSubs'[q][t] # NoSub,
                        Deaf(q, t)'
                 PROVE  <<q, t, serviceSubs'[q][t]>> \in lost'
      BY DEF DeafByAnother
    <3>1. CASE q = p /\ t = s
      BY <1>2, <1>3, <1>9, <2>1, <3>1 DEF Deaf
    <3>2. CASE q # p \/ t # s
      BY <1>2, <1>9, <3>2 DEF Sharing, DeafByAnother, Deaf
    <3> QED
      BY <3>1, <3>2
  <2> QED
    BY <1>6, <2>2, <2>3, <2>4, <2>5 DEF Sharing
<1>10. CASE /\ s \in Streamed /\ ~AtAttach(p) /\ Install(p, s)
            /\ attached' = attached \cup {new} /\ creator' = creator \cup {new}
  <2>1. /\ s \in consumers' /\ consumers \subseteq consumers' /\ lost \subseteq lost'
    BY <1>10, InstallsStep DEF Types
  <2>2. \A i \in attached : i[2] # s
    BY <1>10 DEF Install, AttachedTo
  <2>3. (\A i \in attached : i[2] \in consumers)'
    BY <1>3, <1>10, <2>1 DEF Sharing
  <2>4. Alone'
    BY <1>3, <1>4, <1>10, <2>2 DEF Sharing, Alone
  <2>5. LookedUp'
    <3> SUFFICES ASSUME NEW q \in Procs, NEW t \in Services, pc'[q] = <<"attach", t>>
                 PROVE  /\ q \in stale' => NewSub(q, t)' \in lost'
                        /\ q \notin stale' =>
                             /\ t \in consumers'
                             /\ t \notin Grouped => \A i \in creator' \cap attached' : i[2] # t
      BY DEF LookedUp
    <3>1. q # p /\ pc[q] = <<"attach", t>>
      BY <1>1
    <3>2. /\ q \in stale' => NewSub(q, t) \in lost'
          /\ q \notin stale' =>
               /\ q \notin stale /\ t # s /\ t \in consumers'
               /\ t \notin Grouped => \A i \in creator \cap attached : i[2] # t
      BY <1>10, <3>1, InstallLookedUp DEF Sharing
    <3>3. t # s => \A i \in creator' \cap attached' : i[2] = t => i \in creator \cap attached
      BY <1>3, <1>4, <1>10
    <3> QED
      BY <1>7, <3>1, <3>2, <3>3
  <2>6. DeafByAnother'
    BY <1>2, <1>3, <1>10, <2>1 DEF Sharing, DeafByAnother, Deaf
  <2> QED
    BY <1>6, <2>3, <2>4, <2>5, <2>6 DEF Sharing
<1> QED
  BY <1>5, <1>8, <1>9, <1>10

LEMMA UnRegisterSharing ==
  ASSUME Types, Sharing, NEW p \in Procs, NEW s \in Services, UnRegister(p, s)
  PROVE  Sharing'
<1>1. PICK i \in Subs :
       /\ i = <<p, s, serviceSubs[p][s]>> /\ serviceSubs[p][s] # NoSub /\ Unsubscribe(i)
       /\ pc[p] = <<"up">> /\ pc'[p] \in {<<"up">>, <<"delete", s>>}
       /\ \A q \in Procs : q # p => pc'[q] = pc[q]
       /\ serviceSubs'[p][s] = NoSub
       /\ \A q \in Procs, t \in Services : q # p \/ t # s =>
            serviceSubs'[q][t] = serviceSubs[q][t]
       /\ UNCHANGED <<consumers, stale, registers, lost>>
  BY UnRegisterStep DEF Types
<1>2. attached' = attached \ {i} /\ creator' = creator \ {i}
  BY <1>1 DEF Unsubscribe
<1>3. (\A j \in attached : j[2] \in consumers)' /\ Alone'
  BY <1>1, <1>2 DEF Sharing, Alone
<1>4. Unserved'
  BY <1>1 DEF Sharing, Unserved
<1>5. LookedUp'
  <2> SUFFICES ASSUME NEW q \in Procs, NEW t \in Services, pc'[q] = <<"attach", t>>
               PROVE  /\ q \in stale' => NewSub(q, t)' \in lost'
                      /\ q \notin stale' =>
                           /\ t \in consumers'
                           /\ t \notin Grouped => \A j \in creator' \cap attached' : j[2] # t
    BY DEF LookedUp
  <2>1. q # p /\ pc[q] = <<"attach", t>>
    BY <1>1
  <2>2. NewSub(q, t)' = NewSub(q, t)
    BY <1>1, NewSubSame
  <2> QED
    BY <1>1, <1>2, <2>1, <2>2 DEF Sharing, LookedUp
<1>6. ASSUME NEW q \in Procs, NEW t \in Services, serviceSubs'[q][t] # NoSub, Deaf(q, t)'
      PROVE  <<q, t, serviceSubs'[q][t]>> \in lost'
  <2>1. q # p \/ t # s
    BY <1>1, <1>6
  <2>2. serviceSubs'[q][t] = serviceSubs[q][t] /\ serviceSubs[q][t] # NoSub
    BY <1>1, <1>6, <2>1
  <2>3. <<q, t, serviceSubs[q][t]>> # i
    BY <1>1, <2>1
  <2>4. Deaf(q, t)
    BY <1>2, <1>6, <2>2, <2>3 DEF Deaf
  <2> QED
    BY <1>1, <2>2, <2>4 DEF Sharing, DeafByAnother
<1> QED
  BY <1>3, <1>4, <1>5, <1>6 DEF Sharing, DeafByAnother

\* Who deletes a consumer takes it from all others, but serves it no more.
LEMMA DeleteSharing ==
  ASSUME Types, Sharing, NEW p \in Procs, NEW s \in Services, DeleteConsumer(p, s)
  PROVE  Sharing'
<1>1. /\ pc[p] = <<"delete", s>> /\ pc'[p] = <<"up">>
      /\ \A q \in Procs : q # p => pc'[q] = pc[q]
      /\ UNCHANGED <<open, creator, serviceSubs, registers>>
      /\ \/ UNCHANGED <<consumers, attached, stale, lost>>
         \/ /\ consumers' = consumers \ {s} /\ attached' = attached \ AttachedTo(s)
            /\ stale' = stale \cup Attaching(s)
            /\ lost' = lost \cup UsedByOthers(p, s)
  BY DeleteStep DEF Types, serverVars
<1>2. Unserved' /\ Alone'
  BY <1>1 DEF Sharing, Unserved, Alone
<1>3. (\A i \in attached : i[2] \in consumers)'
  BY <1>1 DEF Sharing, AttachedTo
<1>4. LookedUp'
  <2> SUFFICES ASSUME NEW q \in Procs, NEW t \in Services, pc'[q] = <<"attach", t>>
               PROVE  /\ q \in stale' => NewSub(q, t)' \in lost'
                      /\ q \notin stale' =>
                           /\ t \in consumers'
                           /\ t \notin Grouped => \A i \in creator' \cap attached' : i[2] # t
    BY DEF LookedUp
  <2>1. q # p /\ pc[q] = <<"attach", t>>
    BY <1>1
  <2>2. NewSub(q, t)' = NewSub(q, t)
    BY <1>1, NewSubSame
  <2>3. CASE UNCHANGED <<consumers, attached, stale, lost>>
    BY <1>1, <2>1, <2>2, <2>3 DEF Sharing, LookedUp
  <2>4. CASE /\ consumers' = consumers \ {s} /\ attached' = attached \ AttachedTo(s)
             /\ stale' = stale \cup Attaching(s) /\ lost' = lost \cup UsedByOthers(p, s)
    <3>1. CASE t = s
      <4>1. q \in stale' /\ NewSub(q, t) \in UsedByOthers(p, s)
        BY <2>1, <2>4, <3>1 DEF Attaching, UsedByOthers
      <4> QED
        BY <2>2, <2>4, <4>1
    <3>2. CASE t # s
      <4>1. q \in stale' => q \in stale
        BY <2>1, <2>4, <3>2 DEF Attaching
      <4> QED
        BY <1>1, <2>1, <2>2, <2>4, <3>2, <4>1 DEF Sharing, LookedUp
    <3> QED
      BY <3>1, <3>2
  <2> QED
    BY <1>1, <2>3, <2>4
<1>5. ASSUME NEW q \in Procs, NEW t \in Services, serviceSubs'[q][t] # NoSub, Deaf(q, t)'
      PROVE  <<q, t, serviceSubs'[q][t]>> \in lost'
  <2> DEFINE i == <<q, t, serviceSubs[q][t]>>
  <2>1. serviceSubs'[q][t] = serviceSubs[q][t] /\ lost \subseteq lost' /\ t \in Streamed
    BY <1>1, <1>5 DEF Deaf
  <2>2. CASE i \notin attached
    BY <1>5, <2>1, <2>2 DEF Sharing, DeafByAnother, Deaf
  <2>3. CASE i \in attached
    <3>1. i \notin attached'
      BY <1>5, <2>1 DEF Deaf
    <3>2. t = s /\ lost' = lost \cup UsedByOthers(p, s)
      BY <1>1, <2>3, <3>1 DEF AttachedTo
    <3>3. q # p
      BY <1>1, <1>5, <2>1, <3>2 DEF Sharing, Unserved
    <3>4. i \in open
      BY <2>3 DEF Types, TypeOK
    <3> QED
      BY <2>1, <3>2, <3>3, <3>4 DEF UsedByOthers
  <2> QED
    BY <2>2, <2>3
<1> QED
  BY <1>2, <1>3, <1>4, <1>5 DEF Sharing, DeafByAnother

LEMMA NextSharing ==
  ASSUME ServiceSetupAssumption, Types, Numbered, Sharing, Next
  PROVE  Sharing'
<1>1. PICK p \in Procs : Kinds(p)
  BY StepKinds
<1> QED
  BY <1>1, StartSharing, QuietSharing, FallsSharing, SubscribingSharing, UnRegisterSharing,
     DeleteSharing DEF Kinds

-----------------------------------------------------------------------------
(* The specification *)

\* What processes, their subscriptions and the broker hold has its type,
\* whatever the processes do side by side and whichever requests fail.
THEOREM TypeCorrect == Spec => []TypeOK
<1>1. Init => Types
  BY InitTypes, ServiceSetupAssumption
<1>2. Types /\ [Next]_vars => Types'
  <2>1. CASE Next
    BY <2>1, NextTypes, ServiceSetupAssumption
  <2>2. CASE UNCHANGED vars
    BY <2>2 DEF vars, brokerVars, serverVars, historyVars, Types, TypeOK, Lookups
  <2> QED
    BY <2>1, <2>2
<1>3. Types => TypeOK
  BY DEF Types
<1> QED
  BY <1>1, <1>2, <1>3, PTL DEF Spec

\* All of it together: the inductive invariant of the setup.
Inv == Types /\ Configured /\ Numbered /\ Sharing

THEOREM SetupInvariant == Spec => []Inv
<1>1. Init => Inv
  <2> SUFFICES ASSUME Init PROVE Inv
    OBVIOUS
  <2>1. Types
    BY InitTypes, ServiceSetupAssumption
  <2>2. Configured
    BY DEF Init, Configured, PanicNeedsConflict
  <2>3. Numbered
    BY DEF Init, Numbered, NoSub
  <2>4. Sharing
    BY DEF Init, Sharing, Alone, LookedUp, Unserved, DeafByAnother, NoSub
  <2> QED
    BY <2>1, <2>2, <2>3, <2>4 DEF Inv
<1>2. Inv /\ [Next]_vars => Inv'
  <2> SUFFICES ASSUME Inv, [Next]_vars PROVE Inv'
    OBVIOUS
  <2> USE DEF Inv
  <2>1. CASE Next
    BY <2>1, NextTypes, NextConfigured, NextNumbered, NextSharing, ServiceSetupAssumption
  <2>2. CASE UNCHANGED vars
    <3> USE <2>2 DEF vars, brokerVars, serverVars, historyVars
    <3>1. Types'
      BY DEF Types, TypeOK, Lookups
    <3>2. Configured'
      BY DEF Configured, PanicNeedsConflict
    <3>3. Numbered'
      BY DEF Numbered
    <3>4. Sharing'
      BY DEF Sharing, Alone, LookedUp, NewSub, Unserved, DeafByAnother, Deaf
    <3> QED
      BY <3>1, <3>2, <3>3, <3>4
  <2> QED
    BY <2>1, <2>2
<1> QED
  BY <1>1, <1>2, PTL DEF Spec

\* A service of a stream that is registered and receives nothing lost its
\* consumer to another process after it was looked up, however many processes
\* and services there are and whichever requests fail.
THEOREM DeafnessNeedsAnother == Spec => []DeafByAnother
<1>1. Inv => DeafByAnother
  BY DEF Inv, Sharing
<1> QED
  BY <1>1, SetupInvariant, PTL

\* Although the lookup and the attachment are two steps, nobody joins the
\* creator of a consumer that has no queue group.
THEOREM CreatorsAreAlone == Spec => []CreatorIsAlone
<1>1. Inv => CreatorIsAlone
  BY DEF Inv, Sharing, Alone, CreatorIsAlone, AttachedTo
<1> QED
  BY <1>1, SetupInvariant, PTL

\* A process whose requests the broker serves panics in BindStream only when its
\* configuration cannot replace that of another, however the lookups interleave.
THEOREM PanicsNeedConflicts == Spec => []PanicNeedsConflict
<1>1. Inv => PanicNeedsConflict
  BY DEF Inv, Configured
<1> QED
  BY <1>1, SetupInvariant, PTL

\* Unless it was registered twice, a service that was unregistered has no
\* subscription left.
THEOREM UnRegistersSilence == Spec => []UnRegisterSilences
<1>1. Inv => UnRegisterSilences
  BY DEF Inv, Numbered, UnRegisterSilences, NoSub
<1> QED
  BY <1>1, SetupInvariant, PTL

=============================================================================
