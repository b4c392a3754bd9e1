----------------------------- MODULE MCJsServer -----------------------------
(* Instances of JsServer: a service on the stream, bound to its consumer or   *)
(* with one of its own, and one of core NATS, which use the work queue.       *)
EXTENDS JsServer, TLC

CONSTANTS sayHello, ping, h1, h2, p1, p2

Kinds == (sayHello :> "bound" @@ ping :> "core")

StreamKinds == (sayHello :> "stream" @@ ping :> "core")

Owners == [m \in WorkMsgs |-> IF m \in {h1, h2} THEN sayHello ELSE ping]

Registers == [s \in Services |-> 1]

=============================================================================
