--------------------------------- MODULE Rpc ---------------------------------
(***************************************************************************)
(* What a remote call promises, however it is carried: a call is issued    *)
(* once, its handler runs at most Limit times and only for an issued call, *)
(* an answer follows a run of the handler, and a call ends at most once.   *)
(* A call may fail at any time, and its handler may still run afterwards.  *)
(***************************************************************************)
EXTENDS Naturals

CONSTANTS
  Requests,
  Limit     \* runs of the handler for one call

VARIABLES status, runs

vars == <<status, runs>>

Init ==
  /\ status = [c \in Requests |-> "idle"]
  /\ runs = [c \in Requests |-> 0]

Issue(c) ==
  /\ status[c] = "idle"
  /\ status' = [status EXCEPT ![c] = "pending"]
  /\ UNCHANGED runs

Run(c) ==
  /\ status[c] # "idle"
  /\ runs[c] < Limit
  /\ runs' = [runs EXCEPT ![c] = @ + 1]
  /\ UNCHANGED status

Answer(c) ==
  /\ status[c] = "pending"
  /\ runs[c] > 0
  /\ status' = [status EXCEPT ![c] = "answered"]
  /\ UNCHANGED runs

Fail(c) ==
  /\ status[c] \in {"idle", "pending"}
  /\ status' = [status EXCEPT ![c] = "failed"]
  /\ UNCHANGED runs

Next == \E c \in Requests : Issue(c) \/ Run(c) \/ Answer(c) \/ Fail(c)

Spec == Init /\ [][Next]_vars

=============================================================================
