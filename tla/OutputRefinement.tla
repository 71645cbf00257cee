-------------------------- MODULE OutputRefinement --------------------------
(***************************************************************************)
(* OutputCoordinator implements OutputStore.  The abstract store is read   *)
(* off the disk: it is what no loss of power can take back any more.       *)
(***************************************************************************)
EXTENDS OutputSafety

(* A claim counts once it cannot be lost, and until its removal cannot be. *)
DurableClaims == {s.claim : s \in stOld}
DurableOwner ==
    IF st.claim # None
    THEN IF None \in DurableClaims THEN None ELSE st.claim
    ELSE IF DurableClaims = {None} THEN None
         ELSE CHOOSE c \in DurableClaims : c # None

(* Of the snapshots an owned root may be left with, the oldest is certain. *)
OwnedSnapshots == {s.snapshot : s \in {v \in stOld : v.claim # None}}
DurableSnapshot ==
    CHOOSE n \in OwnedSnapshots : \A m \in OwnedSnapshots : n.gen <= m.gen
DurableCommitted == IF DurableOwner = None THEN NoMap ELSE DurableSnapshot.entries

(* The transaction that follows it, once it cannot be lost. *)
DurablePending ==
    {x \in Txns : \A r \in TxSurvivors(x) :
        r.pend # None /\ r.pend.base = DurableSnapshot.gen}
DurableIntent ==
    IF DurableOwner = None \/ DurablePending = {} THEN None
    ELSE tx[CHOOSE x \in DurablePending : TRUE].pend.snap.entries

(* An intent that leaves the root without outputs is still an intent.       *)
ASSUME NoneIsNoInventory == None \notin Entries

Store == INSTANCE OutputStore WITH
    Owners <- [build : Builds, token : Nat],
    Inventories <- PartialMaps(Paths, [hash : Contents, target : Targets]),
    Empty <- NoMap, Nobody <- None,
    owner <- DurableOwner, committed <- DurableCommitted, intent <- DurableIntent

(* Claiming, publishing, retiring, recovering and releasing a root are each *)
(* one step of the store or none, whatever is killed or lost on the way.    *)
ImplementsStore == Store!Spec
=============================================================================
