---------------------------- MODULE OutputStore ----------------------------
(***************************************************************************)
(* What the output coordinator promises of one root, told without files:   *)
(* at most one build owns the root; the set of committed outputs changes   *)
(* only as a whole, to an intent declared before; a declared intent is     *)
(* never lost, whatever crashes, and is settled before the root is given   *)
(* up.  OutputCoordinator implements it; see OutputRefinement.             *)
(***************************************************************************)
CONSTANTS
    Owners,      \* claims that may own the root
    Inventories, \* possible committed outputs
    Empty,       \* the inventory of a root just claimed
    Nobody       \* no owner, no intent

VARIABLES owner, committed, intent
store == <<owner, committed, intent>>

Init == owner = Nobody /\ committed = Empty /\ intent = Nobody

Acquire ==
    /\ owner = Nobody
    /\ owner' \in Owners
    /\ UNCHANGED <<committed, intent>>
Declare ==
    /\ owner # Nobody /\ intent = Nobody
    /\ intent' \in Inventories
    /\ UNCHANGED <<owner, committed>>
Commit ==
    /\ intent # Nobody
    /\ committed' = intent /\ intent' = Nobody
    /\ UNCHANGED owner
Release ==
    /\ owner # Nobody /\ intent = Nobody
    /\ owner' = Nobody /\ committed' = Empty
    /\ UNCHANGED intent

Next == Acquire \/ Declare \/ Commit \/ Release
Spec == Init /\ [][Next]_store

============================================================================
