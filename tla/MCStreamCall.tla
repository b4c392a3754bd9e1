---------------------------- MODULE MCStreamCall ----------------------------
(* Instances of StreamCall.  A tick is five seconds. *)
EXTENDS StreamCall, TLC

CONSTANTS c1, c2, n1, id1, s1, s2

D == INSTANCE Defaults

TickSeconds == 5

DefaultMaxAge == D!StreamDefaultConfig.MaxAge \div TickSeconds
DefaultDuplicates == D!StreamDefaultConfig.Duplicates \div TickSeconds
DefaultAckWait == D!ServerAckWait \div TickSeconds

\* c1 is first made with Qos0 and a MsgId (upgraded to Qos2), c2 retries it.
RetryQos == (c1 :> 0 @@ c2 :> 2)
RetryMsgId == (c1 :> id1 @@ c2 :> id1)
PlainMsgId == (c1 :> NoId)
Qos1 == (c1 :> 1)

\* c2 asks for Qos0 on the subject of a stream.
CoreQos == (c1 :> 1 @@ c2 :> 0)
NoMsgIds == [c \in Calls |-> NoId]

PlainAnswers == [c \in Calls |-> "response"]
OddAnswers == (c1 :> "acklike" @@ c2 :> "garbled")

SubSymmetry == Permutations(Subs)

=============================================================================
