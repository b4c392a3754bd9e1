------------------------------ MODULE Messages ------------------------------
(***************************************************************************)
(* What client, broker and service call a message: a message is the one    *)
(* publish of one call, and carries a Nats-Msg-Id header or none.          *)
(***************************************************************************)

CONSTANTS
  Msgs,    \* the messages that may be published
  MsgIds,  \* values of the Nats-Msg-Id header
  NoId     \* the header is absent

ASSUME MessagesAssumption == NoId \notin MsgIds

=============================================================================
