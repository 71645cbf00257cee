--------------------------- MODULE InstallSafety ---------------------------
(* The types of InstallProtoc and what an installation may rely on.         *)
EXTENDS InstallProtoc

Installations == InstallTxns \cup {Installed, Stranger}
InstallSteps ==
    Resting \cup {"recover", "restore", "displace", "put_back", "end_recovery", "sweep", "extract",
                 "verify", "replace", "bind", "backup", "promote", "commit", "committed", "remove", "undo", "cleanup"}

(* The installer is at a step of the code; paths and records name           *)
(* installations.                                                           *)
InstallTypeOK ==
    /\ step \in InstallSteps
    /\ run \in [txn : OrNone(InstallTxns), rec : OrNone(InstallTxns), was : BOOLEAN,
                back : {None, "sweep", "bind", "cleanup"}, ok : BOOLEAN]
    /\ {destination, rollback} \subseteq OrNone(Installations)
    /\ sibling \in [InstallTxns ->
          [kind : {None, "transaction", "recovery"}, staging : OrNone(Installations),
           previous : OrNone(Installations), displaced : OrNone(Installations)]]
    /\ bound \in [InstallTxns -> OrNone(Installations)]
    /\ whole \subseteq Installations /\ found \in OrNone(Installations)

(* Wherever the installer fails or is killed, a complete installation, once *)
(* there, is at the destination or at the rollback path, from which the     *)
(* next run restores it; only the user takes both, and a run that found     *)
(* none takes back the one it has just promoted.                            *)
NeverWithout ==
    [][{destination, rollback} \cap whole # {}
        => \/ {destination, rollback}' \cap whole' # {}
           \/ instSuffered'["edits"] > 0
           \/ step = "undo" /\ ~run.was]_instVars

(* What is at the destination was complete and ran once, or is the user's.  *)
LiveIsWhole == destination \in whole \cup {None, Stranger}

(* The installer's own rollback can be recovered: some sibling has recorded *)
(* its identity, and it is the running installer's or nobody's.             *)
RollbackOwned ==
    rollback \notin {None, Stranger} =>
        \E x \in InstallTxns : bound[x] = rollback /\ sibling[x].kind # None

(* A run in which one operation failed has put back what it replaced before *)
(* it cleans up; only a failure to remove what is already replaced leaves   *)
(* the new installation in place.                                           *)
FailureRestores ==
    [][step' = "cleanup" /\ ~run'.ok /\ step # "remove"
        /\ instSuffered'["fails"] = 1 /\ instSuffered'["kills"] + instSuffered'["edits"] = 0
        => rollback' = None /\ destination' = found]_instVars

(* A directory at the rollback path that nobody recorded is never taken for *)
(* a backup: it stays there until a swap that found the path free commits,  *)
(* and only the swap itself, or the undoing of a first installation, moves  *)
(* what is at the destination meanwhile.                                    *)
UnownedKept ==
    [][rollback = Stranger /\ (\A x \in InstallTxns : bound[x] # Stranger) /\ instBudget' = instBudget
        => /\ rollback' = Stranger \/ step = "commit"
           /\ destination' = destination \/ step = "promote" \/ (step = "undo" /\ ~run.was)]_instVars

(* A run that succeeds leaves no rollback and no sibling behind.            *)
SuccessIsClean ==
    step = "done" /\ instSuffered["fails"] + instSuffered["edits"] = 0 =>
        /\ rollback = None /\ destination \in whole
        /\ \A x \in InstallTxns : sibling[x] = NoSibling

(* Every run ends: neither recovery nor the undoing of a swap loops.        *)
InstallEnds == step \notin Resting ~> step \in Resting

(* Whatever fails or is killed: a complete installation stays within reach, *)
(* nothing else becomes live, only what is owned is moved, and a run ends   *)
(* with what it replaced restored or with nothing left over.                *)
InstallationKept ==
    /\ [](LiveIsWhole /\ RollbackOwned /\ SuccessIsClean)
    /\ NeverWithout /\ FailureRestores /\ UnownedKept
============================================================================
