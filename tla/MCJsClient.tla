----------------------------- MODULE MCJsClient -----------------------------
(* An instance of JsClient: two calls share a RequestOpt with Qos2 and a     *)
(* MsgId.  The Qos0 of a call is what a failed lookup leaves to the next.    *)
(* The assumptions check the codec on a few messages.                        *)
EXTENDS JsClient

CONSTANTS a1, b1, n1, o1

SharedOpts == [c \in Calls |-> o1]

Qualities == (o1 :> 2)

SameAndMixed ==
  {<<"protobuf", "protobuf">>, <<"json", "json">>, <<"json", "protobuf">>,
   <<"string", "string">>}

\* The handler of one call fails, that of the other does not.
Returns == (a1 :> {response(1, "busy", <<3>>)} @@ b1 :> {response(0, "", <<>>)})

Some == {response(r, t, a) : r \in 0 .. 4, t \in {"", "busy"}, a \in {<<>>, <<7, 8>>}}
          \cup {NoFields, [result |-> 2], [message |-> "busy"]}

\* Protobuf and JSON keep every field a message owns; no encoding of a Response
\* passes for one of another encoding that has fields.
ASSUME RoundTrip ==
  \A m \in Some :
    /\ decode("protobuf", ResponseFields, encode("protobuf", ResponseFields, m)) =
         {<<"message", m>>}
    /\ decode("json", ResponseFields, encode("json", ResponseFields, m)) =
         {<<"object", toObject(m)>>}
    /\ decode("protobuf", ResponseFields, encode("string", ResponseFields, m)) = {Throws}
    /\ verify(m)

\* A status without data passes for a Response that says Success.
ASSUME EmptyIsSuccess ==
  \A value \in decode("protobuf", ResponseFields, NoData) :
    ResponseResult[Field(value[2], "result") + 1] = "Success"

=============================================================================
