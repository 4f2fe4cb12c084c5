--------------------------- MODULE MCConversation ---------------------------
(* Small instances of Conversation for TLC. *)
EXTENDS Conversation, TLC

CONSTANTS u1, u2, d1, d2

(* Users are alike, and so are drivers. *)
Alike == Permutations(Users) \cup Permutations(Drivers)
=============================================================================
