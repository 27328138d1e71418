----------------------------- MODULE MCProcess -----------------------------
(* Instances of Process for TLC. *)
EXTENDS Process

CONSTANTS p1, p2

\* Every database a release may find.
AllDatabases == {Empty, First, Second, Current, Later}
=============================================================================
