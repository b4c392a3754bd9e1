------------------------------ MODULE Defaults ------------------------------
(***************************************************************************)
(* The limits the code configures, in seconds and messages, for the MC     *)
(* modules: they divide the times by their own tick.                       *)
(***************************************************************************)
EXTENDS Naturals

\* Mutants: messages outlive the AckWait of the server; the duplicate window
\* is shorter than the life of a message.
LongLivedConfig == [MaxAge |-> 40, Duplicates |-> 10, MaxMsgs |-> 100]
ShortWindowConfig == [MaxAge |-> 10, Duplicates |-> 5, MaxMsgs |-> 100]

\* StreamDefaultConfig of go/nats/natsclient/nats_client.go.
StreamDefaultConfig == [MaxAge |-> 10, Duplicates |-> 10, MaxMsgs |-> 100]

\* The options of Register for a consumer it creates itself.
RegisterSubOpts == [MaxDeliver |-> 10, MaxAckPending |-> 10]

\* External: neither Register nor ConsumerDefaultConfig sets AckWait, so the
\* NATS server uses 30 s.
ServerAckWait == 30

=============================================================================
