--------------------------- MODULE MCConversation ---------------------------
(* Two asks of one conversation on a pool of two connections. *)
EXTENDS Conversation

CONSTANTS a1, a2, c1, c2

TwoAsks == {a1, a2}
TwoConns == {c1, c2}
=============================================================================
