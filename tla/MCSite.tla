------------------------------- MODULE MCSite -------------------------------
(* Instances of Site for TLC. *)
EXTENDS Site, TLC

CONSTANTS u1, u2
=============================================================================
