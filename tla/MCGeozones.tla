----------------------------- MODULE MCGeozones -----------------------------
(***************************************************************************)
(* Instances of module Geozones for TLC.                                   *)
(***************************************************************************)
EXTENDS Geozones

CONSTANTS u1, u2, n1, n2, c1, c2, r1, r2

\* One user with two geozones, another with one that has the name of one of
\* the first user's, and an id to spare.
ThreeZones ==
    LET zone(u, n) == [user |-> u, name |-> n, center |-> c1, radius |-> r1, bounds |-> <<c1, r1>>]
    IN  <<zone(u1, n1), zone(u1, n2), zone(u2, n1), NoZone>>

\* A name, another name with a new centre, or a new radius.
SomePatches == {[name |-> n1], [name |-> n2, center |-> c2], [radius |-> r2]}
=============================================================================
