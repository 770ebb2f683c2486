--------------------------- MODULE DeliveryLedger ---------------------------
(***************************************************************************)
(* What the write path promises about each stream entry, with no mention   *)
(* of Redis, consumers or acknowledgements.  An entry that was accepted is *)
(* open until its pings are rows; it may be given up only once Window      *)
(* newer entries have been accepted after it; and what is a row stays one. *)
(* That an entry may be stored again, the at-least-once half of the        *)
(* promise, is a stuttering step here.                                     *)
(***************************************************************************)
EXTENDS Integers

CONSTANTS
    MaxEntries,     \* bound: entries ever accepted
    Window          \* newest entries the buffer never gives up

Entry == 1..MaxEntries

VARIABLES
    accepted,       \* how many entries have been accepted
    state           \* state[e]: "none", "open", "stored" or "lost"

ledger == <<accepted, state>>

Init == accepted = 0 /\ state = [e \in Entry |-> "none"]

Open == {e \in Entry : state[e] = "open"}

\* A new entry is accepted, and entries that leave the window may be lost.
Accept ==
    /\ accepted < MaxEntries
    /\ accepted' = accepted + 1
    /\ \E S \in SUBSET {e \in Open : accepted + 1 - e >= Window} :
          state' = [e \in Entry |-> IF e = accepted + 1 THEN "open"
                                    ELSE IF e \in S THEN "lost" ELSE state[e]]

\* Some open entries become rows.
Write ==
    /\ \E S \in SUBSET Open : state' = [e \in Entry |-> IF e \in S THEN "stored" ELSE state[e]]
    /\ UNCHANGED accepted

\* Entries outside the window that only a worker's memory still held are lost
\* with it.
Forget ==
    /\ \E S \in SUBSET {e \in Open : accepted - e >= Window} :
          state' = [e \in Entry |-> IF e \in S THEN "lost" ELSE state[e]]
    /\ UNCHANGED accepted

Next == Accept \/ Write \/ Forget

Spec == Init /\ [][Next]_ledger

\* No entry stays open for ever.
Settles == \A e \in Entry : (state[e] = "open") ~> (state[e] \in {"stored", "lost"})
=============================================================================
