------------------------- MODULE EnvironmentSafety -------------------------
(***************************************************************************)
(* The types of ManagedEnvironment and what provisioning promises of the   *)
(* directory at the environment's path.                                    *)
(***************************************************************************)
EXTENDS ManagedEnvironment

Steps == {"none", "ok", "refused", "claim", "mkdir", "print", "bind_print", "bind", "move",
          "rename", "moved", "cleanup", "aside", "erase", "forget"}
Stages == {"idle", "done", "failed", "lock", "recover", "create", "venv", "backup", "install",
           "prepare", "promote", "relocate", "commit", "cleanup", "restore"}

(* Every configure and helper is at a step of the code, and directories,    *)
(* journals and leases name environments, transactions and processes.       *)
EnvTypeOK ==
    /\ cmake \in [Configures -> Stages] /\ helper \in [Configures -> Steps]
    /\ envLock \in OrNone(Configures) /\ owner \in [Transactions -> OrNone(Configures)]
    /\ live \in OrNone(Environments) /\ marked \subseteq Environments
    /\ tree \in [Transactions ->
          [at : OrNone({"path", "aside"}), print : BOOLEAN, staging : OrNone(Environments),
           previous : OrNone(Environments), discarded : OrNone(Environments)]]
    /\ journal \in [Transactions -> OrNone(Journals)]
    /\ health \in [Environments -> OrNone(Builds)]
    /\ suffered \subseteq Accidents

(* The guard of the CMake function and the leases of the transactions keep  *)
(* two configures from working on one directory: no transaction has two     *)
(* helpers, and without orphans only the lock's holder runs one.            *)
OneHelper ==
    /\ \A p, q \in Configures :
        p # q /\ {helper[p], helper[q]} \cap {"none", "claim", "ok", "refused"} = {}
            => task[p].txn # task[q].txn
    /\ "orphans" \notin suffered => \A p \in Configures : helper[p] # "none" => envLock = p

(* A helper erases the directory it moved out of the way only when its      *)
(* replacement was verified in place and committed, or when it was itself   *)
(* an unverified replacement: the previous environment is never lost,       *)
(* wherever helper and configure are killed (_recover_owner), unless one of *)
(* several accidents left a helper running without its configure.           *)
PreviousOutlives ==
    [][\A x \in Transactions :
        tree[x] # NoTree /\ tree'[x] = NoTree /\ tree[x].previous # None
            => journal[x].committed # None /\ health[journal[x].committed] = "usable"]_envVars

(* Between a backup and its commit the previous environment is where its    *)
(* transaction says or back at its path.                                    *)
PreviousFound ==
    suffered \cap {"edits", "orphans"} = {} =>
        \A x \in Transactions :
            journal[x] # None /\ journal[x].previous # None /\ journal[x].loc = "original"
                => journal[x].previous \in {live, tree[x].previous}

(* A helper that is not cut short between its rename and the check of what  *)
(* it renamed never erases what the user put at the path: a directory that  *)
(* is not the one the transaction recorded stays where the rename took it.  *)
TheirsKept ==
    [][Theirs \notin Present \/ Theirs \in Present' \/ envBudget'["edits"] < envBudget["edits"]
       \/ suffered \cap {"timeouts", "kills", "fails"} # {}]_envVars

(* When no configure runs and the last one succeeded, the environment at    *)
(* the path is a verified one.                                              *)
UsedIsUsable ==
    /\ suffered \cap {"edits", "orphans"} = {}
    /\ \E p \in Configures : cmake[p] = "done"
    /\ \A p \in Configures : cmake[p] \in {"idle", "done"}
    => IsReady

(* Recovery never gives up on what crashes and failures alone have left: it *)
(* ends well unless it is itself cut short.                                 *)
RecoveryAccepts ==
    [][\A p \in Configures :
        task[p].cmd = "recover" /\ helper'[p] = "refused" /\ envBudget' = envBudget
            => helper[p] = "refused" \/ suffered \cap {"edits", "orphans"} # {}]_envVars

(* Every configure ends.                                                    *)
ConfigureEnds ==
    \A p \in Configures : cmake[p] = "lock" ~> cmake[p] \in {"done", "failed"}

(* Whatever is killed, fails or is left running: helpers exclude each       *)
(* other, no previous environment is lost, nor what a user put there, what  *)
(* is reported as usable is, and recovery accepts what any of it left.      *)
EnvironmentSafe ==
    /\ [](OneHelper /\ PreviousFound /\ UsedIsUsable)
    /\ PreviousOutlives /\ TheirsKept /\ RecoveryAccepts
============================================================================
