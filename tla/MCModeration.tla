---------------------------- MODULE MCModeration ----------------------------
(* Instances of Moderation for TLC: the people and chats of the .cfg files. *)
EXTENDS Moderation

CONSTANTS u1, u2, main, other

\* The bot starts with an empty database in chats without applicants.
NobodyYet == {}
=============================================================================
