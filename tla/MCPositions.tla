---------------------------- MODULE MCPositions -----------------------------
(***************************************************************************)
(* Instances of module Positions for TLC.                                  *)
(***************************************************************************)
EXTENDS Positions

CONSTANTS d1, d2

\* One device reports twice, another once in between.
TwoDevices == <<d1, d2, d1>>
=============================================================================
