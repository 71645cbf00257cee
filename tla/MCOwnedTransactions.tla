------------------------ MODULE MCOwnedTransactions ------------------------
(* Small instances of OwnedTransactions for TLC.                            *)
EXTENDS OwnedSafety, TLC

(* Two installers meet two accidents; or two installers and a recovery,     *)
(* which takes no lock on the destination, meet one.                        *)
Scenario(installs, recoveries, accidents) ==
    [install |-> installs, create |-> 0, recover |-> recoveries, accidents |-> accidents]
OwnersBudgets == {Scenario(2, 0, 2), Scenario(2, 1, 1)}
============================================================================
