----------------------------- MODULE MCRealtime -----------------------------
(***************************************************************************)
(* Instances of module Realtime for TLC.                                   *)
(***************************************************************************)
EXTENDS Realtime

CONSTANTS c1, c2, c3, c4, u1, u2

\* Three sessions of one user and one of another.
LaptopAndPhone == [c \in Connections |-> IF c = c3 THEN u2 ELSE u1]
=============================================================================
