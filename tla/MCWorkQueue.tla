---------------------------- MODULE MCWorkQueue ----------------------------
(* Instances of WorkQueue: two services, four messages, one of which may     *)
(* send another to the other service, up to four Stops.                     *)
EXTENDS WorkQueue, TLC

CONSTANTS sayHello, sayBye, a1, a2, b1, b2, n1, stop1, stop2, stop3, stop4

TwoServices == (sayHello :> <<a1, a2>> @@ sayBye :> <<b1, b2>>)

Callers == (n1 :> a1)

Called == (n1 :> sayBye)

Safe(time) == [safe |-> TRUE, time |-> time]
Unsafe == [safe |-> FALSE, time |-> 3 * Second]

DefaultOption == (stop1 :> WorkQueueStopDefaultOption)

\* A time without a unit is what the multiplication turns into seconds.
ThreeSeconds == (stop1 :> Safe(3))

\* Ten seconds times a second is more than a Duration holds.
FourStops ==
  ThreeSeconds @@ (stop2 :> Safe(10 * Second)) @@ (stop3 :> Unsafe)
    @@ (stop4 :> Unsafe)

=============================================================================
