--------------------------- MODULE MCConversation ---------------------------
(* Conversation on a small instance: two turns of one conversation, whose  *)
(* user got new claims between them, and a deletion of it.                 *)
EXTENDS Conversation, TLC

CONSTANTS scope1, t1, t2, d1, old, new

OneUser == [c \in Scope |-> "user"]
OneConversation == [t \in Turn |-> scope1]
VerifiedClaims == [t \in Turn |-> IF t = t2 THEN new ELSE old]

Mutations == Turn \X (1 .. 3)
Events == Turn \X {"claims", "message", "answer"}
=============================================================================
