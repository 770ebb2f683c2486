----------------------------- MODULE MCAlerting -----------------------------
(***************************************************************************)
(* Instances of module Alerting for TLC.                                   *)
(***************************************************************************)
EXTENDS Alerting

CONSTANTS d1, d2, z1, z2, u1, u2

\* Two zones of two users.
TwoOwners == [z \in Zones |-> IF z = z1 THEN u1 ELSE u2]

\* Pings of one device outside or in either zone, so that two batches see it in
\* zones that are no subset of each other, and of another that is parked in
\* the second zone.
SomePings ==
    {[device |-> d1, zones |-> s] : s \in {{}, {z1}, {z2}}}
        \cup {[device |-> d2, zones |-> {z2}]}

\* A device parked in one zone.
ParkedPings == {[device |-> d1, zones |-> {z1}]}
=============================================================================
