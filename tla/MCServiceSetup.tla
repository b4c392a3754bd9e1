--------------------------- MODULE MCServiceSetup ---------------------------
(* An instance of ServiceSetup: two processes whose configurations replace   *)
(* each other in one direction, and services of every kind, two of which a   *)
(* process serves at a time.                                                 *)
EXTENDS ServiceSetup, TLC

CONSTANTS p1, p2, sayHello, group, bound, core, small, large

TwoConfigs == (p1 :> small @@ p2 :> large)

\* A stream may grow, not shrink.
Growing == {<<small, small>>, <<large, large>>, <<small, large>>}

Starts == (p1 :> 2 @@ p2 :> 1)

Registers ==
  (p1 :> [s \in Services |-> 1] @@ p2 :> [s \in Services |-> IF s = core THEN 0 ELSE 1])

=============================================================================
