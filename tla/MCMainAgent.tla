---------------------------- MODULE MCMainAgent ----------------------------
(* Two channels for one place: two users' messages and a system event meet  *)
(* on the first, so that a queue holds several of them.                     *)
EXTENDS MainAgent

CONSTANTS c1, c2, u1, u2, s1, v1

MCChannelOf == [m \in Message |-> IF m = v1 THEN c2 ELSE c1]
=============================================================================
