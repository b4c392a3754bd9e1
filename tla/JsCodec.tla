------------------------------ MODULE JsCodec ------------------------------
(***************************************************************************)
(* What the two sides of the JavaScript RPC send each other: the Request   *)
(* and Response of js/nrpc/nrpc.pb.js and the three encodings of           *)
(* js/nrpc/nrpc.js.                                                        *)
(*                                                                         *)
(* A message is the function of the fields it owns; what it does not own   *)
(* has the default of its prototype.  Bytes are a sequence of the JSON     *)
(* objects whose text they hold, empty for no bytes.  A payload says how   *)
(* it was written, and a decoded value what came of it: bytes written in   *)
(* another encoding throw, or make something of the wrong kind.            *)
(***************************************************************************)
EXTENDS Integers, Sequences, SequencesExt

EncodeTypes == {"string", "json", "protobuf"}

ResponseResult == <<"Success", "Failed", "NotAck", "InProgress", "Term">>

\* The fields of a message, by their id.
RequestFields == <<"name", "data">>
ResponseFields == <<"result", "data", "message">>

NoFields == [f \in {} |-> 0]

Default(f) ==
  CASE f = "result" -> 0
    [] f = "data" -> <<>>
    [] OTHER -> ""

Field(message, f) == IF f \in DOMAIN message THEN message[f] ELSE Default(f)

\* Buffer.from(JSON.stringify(data)): the arguments by name, or by position.
request(name, names, args) ==
  [name |-> name,
   data |-> << [n \in Range(names) |->
                  args[CHOOSE i \in DOMAIN names : names[i] = n]] >>]

response(result, message, args) ==
  [result |-> result,
   message |-> message,
   data |-> << [i \in 0 .. Len(args) - 1 |-> args[i + 1]] >>]

\* Called with the bytes of a message, which own no field: it never complains.
verify(message) ==
  "result" \in DOMAIN message => message["result"] \in 0 .. 4

-----------------------------------------------------------------------------
(* Protobuf *)

\* The fields a message owns, by their id.
Written(fields, message) ==
  SelectSeq([id \in DOMAIN fields |-> id], LAMBDA id : fields[id] \in DOMAIN message)

encodeFields(fields, message) ==
  LET written == Written(fields, message) IN
  [i \in DOMAIN written |-> <<written[i], message[fields[written[i]]]>>]

\* A field that comes twice is the latest; an unknown one is skipped.
decodeFields(fields, wire) ==
  FoldLeft(LAMBDA message, entry :
             IF entry[1] \in DOMAIN fields
             THEN (fields[entry[1]] :> entry[2]) @@ message
             ELSE message,
           NoFields, wire)

-----------------------------------------------------------------------------
(* JSON *)

\* toJSON: an enum value by its name, bytes as base64; only what is owned.
toObject(message) ==
  [f \in DOMAIN message |->
     CASE f = "result" /\ message[f] \in 0 .. 4 -> ResponseResult[message[f] + 1]
       [] f = "data" -> [base64 |-> message[f]]
       [] OTHER -> message[f]]

-----------------------------------------------------------------------------
(* The encodings *)

\* StringCodec encodes the text of an object, "[object Object]".
encode(encodeType, fields, message) ==
  CASE encodeType = "string" -> <<"text">>
    [] encodeType = "json" -> <<"json", toObject(message)>>
    [] encodeType = "protobuf" -> <<"protobuf", encodeFields(fields, message)>>

\* Only the writer of Protobuf gives a Buffer; the codecs of the NATS library
\* give a Uint8Array.
IsBuffer(encodeType) == encodeType = "protobuf"

\* The answer that nobody is subscribed has no data.
NoData == <<"protobuf", <<>>>>

Throws == <<"throws">>

\* What decode may give.  Text always reads as a string and never as JSON or
\* Protobuf; JSON read as Protobuf starts with a group, which may end.
decode(encodeType, fields, payload) ==
  CASE encodeType = "string" -> {<<"string", payload>>}
    [] encodeType = "json" ->
         IF payload[1] = "json" THEN {<<"object", payload[2]>>} ELSE {Throws}
    [] encodeType = "protobuf" ->
         CASE payload[1] = "protobuf" -> {<<"message", decodeFields(fields, payload[2])>>}
           [] payload[1] = "json" -> {Throws, <<"garbage">>}
           [] payload[1] = "text" -> {Throws}

=============================================================================
