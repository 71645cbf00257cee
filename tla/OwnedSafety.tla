---------------------------- MODULE OwnedSafety ----------------------------
(***************************************************************************)
(* What owned_transactions.py promises of one destination.                 *)
(***************************************************************************)
EXTENDS OwnedTransactions

OrNone(S) == S \cup {None}
Idle == {"idle"}
Serving == {"lock", "lock_open", "list", "prune", "claim", "create", "entries",
    "rmdir_state", "unlock"}
Acting == {"marker", "lease", "lease_sync", "tmp", "publish", "publish_sync", "trim",
    "trim_sync", "journaled", "stage", "child", "rename", "unstage", "create_sync", "bind",
    "work", "acquire", "detach", "move", "moved", "empty", "recheck", "rmdir",
    "rmdir_sync", "retire", "unlink", "unlink_sync", "files"}
Labels == Idle \cup Serving \cup Acting
JobRecords == [cmd : OrNone(Commands), tok : OrNone(Tokens), fresh : OrNone(Tokens),
    todo : SUBSET Tokens, loc : OrNone(Locations), gen : 0..4,
    part : {"recovering", "owning", "leaving"}, dirty : BOOLEAN,
    next : {None, "listed", "entries"}]
Files == [marker : {"none", "empty", "lease"}, jr : [Gens -> OrNone(Locations)], tmp : Nat]
Names == [orig : {"none", "own", "foreign"}, clean : {"none", "own", "foreign"},
          stage : {"none", "empty", "full"}]

(* Every variable holds a value of the kind the code gives it, and what is  *)
(* on disk is among what a loss of power may leave of it.                   *)
TypeOK ==
    /\ pc \in [Procs -> Labels] /\ job \in [Procs -> JobRecords]
    /\ registry \in OrNone(Procs) /\ lockFile \in OrNone(Inodes) /\ stateDir \in BOOLEAN
    /\ flock \in [Inodes -> OrNone(Procs)] /\ lease \in [Tokens -> OrNone(Procs)]
    /\ \A t \in Tokens : /\ st[t] \in stOld[t] /\ stOld[t] \subseteq Files
                         /\ at[t] \in atOld[t] /\ atOld[t] \subseteq Names
    /\ touched \subseteq drawn /\ drawn \subseteq Tokens

(* locked_destination excludes: although its lock file is deleted and made  *)
(* again, no two installers are between taking and releasing the lock.      *)
Locked(p) == /\ job[p].cmd = "install" /\ job[p].part # "leaving"
             /\ pc[p] \notin {"idle", "lock", "lock_open"}
DestinationExclusive == \A p, q \in Procs : Locked(p) /\ Locked(q) => p = q

(* An owner that lives, or a recovery that took it over, is alone: no two   *)
(* processes are ever at work on the same sibling, its journal or its lease, *)
(* not even while the lease is unlocked for its deletion.                   *)
OneOwner == \A p, q \in Procs :
    pc[p] \in Acting /\ pc[q] \in Acting /\ job[p].tok = job[q].tok => p = q

(* What may be found of a token: after a kill, a failure or interference,   *)
(* what is there; before any, also what a loss of power leaves.  A recovery *)
(* trusts what it finds, synced or not, so that a loss of power on top of   *)
(* the others takes back what it built on; no promise covers the two.       *)
Disturbed(t) == t \in touched \/ happened \cap {"kill", "fail"} # {}
Lost == "loss" \in happened
Remains(t) == IF Disturbed(t) THEN {st[t]} \X {at[t]} ELSE stOld[t] \X atOld[t]
Promised == {t \in Tokens : ~(Disturbed(t) /\ Lost)}

(* No sibling is forgotten: whatever is left of it, a directory that was    *)
(* made has its lease and a journal, so that a recovery finds it.           *)
Traced == \A t \in Promised : \A left \in Remains(t) :
    left[2].orig = "own" \/ left[2].clean = "own"
        => left[1].marker = "lease" /\ Journals(left[1]) # {}

(* Recovery never gets stuck on its own: of a sibling nobody interfered     *)
(* with, the journal agrees with the names, unless the identity was never   *)
(* recorded.                                                                *)
Resumable == \A t \in Promised \ touched : \A left \in Remains(t) :
    left[1].marker # "none" /\ Journals(left[1]) # {} /\ Latest(left[1]) # "creating"
        => Found(Latest(left[1]), left[2]) # "refused"

(* The state directory goes only when it is empty and its lock is free: no  *)
(* lease, no journal and no waiter is lost with it.                         *)
StateDirKept == ~stateDir =>
    /\ lockFile = None /\ \A i \in Inodes : flock[i] = None
    /\ \A t \in Tokens : st[t] = NoFiles

(* A directory that is not ours may be moved aside by a rename that comes   *)
(* too late, and is then left alone: the program never removes one.         *)
Others(t) == {name \in {"orig", "clean"} : at[t][name] = "foreign"}
ForeignKept == [][\A t \in Tokens :
    budget'["accidents"] = budget["accidents"]
        => Cardinality(Others(t)') >= Cardinality(Others(t))]_vars

(* Every command comes to its end, whoever is killed around it and whatever *)
(* locks its victims held.                                                  *)
CommandsEnd == \A p \in Procs : pc[p] # "idle" ~> pc[p] = "idle"

(* A recovery finds whatever is left and can act on it, and neither what it *)
(* needs nor a waiter is lost with the state directory.                     *)
RecoveryPossible == Traced /\ Resumable /\ StateDirKept
============================================================================
