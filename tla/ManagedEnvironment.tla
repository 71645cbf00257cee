------------------------- MODULE ManagedEnvironment -------------------------
(***************************************************************************)
(* The Python environment a configure provisions for the plugin:           *)
(* _protocyte_ensure_python_environment (ProtocyteFunctions.cmake) and the *)
(* helper it runs for each step, ProtocyteManagedEnvironment.py.           *)
(*                                                                         *)
(* A configure holds one CMake lock and runs the helper command by         *)
(* command; the helper locks nothing between two commands but claims the   *)
(* dead owner of its transaction anew (owned_transactions.py, here one     *)
(* step per call: module OwnedTransactions looks inside).  Helpers are     *)
(* killed by their timeout, configures by the user, with their helper or   *)
(* without it, and the user may change the live directory at any moment.   *)
(* An environment is named by its identity; the one a transaction builds   *)
(* has the name of the transaction.                                        *)
(***************************************************************************)
EXTENDS Absent, Naturals, Sequences

CONSTANTS
    Configures,      \* the configures of one build tree
    Transactions,    \* the transactions they may create
    Old,             \* the environment that was there before
    Theirs,          \* a directory the user puts in its place
    EnvScenarios     \* what was there before, and how often which accident happens

VARIABLES
    cmake,       \* where each configure is
    helper,      \* where its helper is
    task,        \* the command of the helper and what it has left to do
    envLock,     \* the holder of the lock of the environment
    live,        \* the directory at the environment's path
    tree,        \* the directory of each transaction
    journal,     \* what the transaction's owner recorded
    owner,       \* the process that holds the owner's lease
    health,      \* how far each environment is built
    marked,      \* the environments with a .protocyte-ready of this fingerprint
    envBudget,   \* accidents left
    suffered     \* history: the kinds of accident so far

fsVars == <<live, tree, journal, owner, health, marked>>
luck == <<envBudget, suffered>>
envVars == <<cmake, helper, task, envLock, fsVars, luck>>

Environments == Transactions \cup {Old, Theirs}
Accidents == {"configures", "timeouts", "kills", "orphans", "fails", "edits"}
Builds == {"partial", "staged", "usable"}
Slots == {"staging", "previous", "discarded"}
Journals ==
    [loc : {"creating", "original", "detaching", "cleanup"}, print : BOOLEAN, tainted : BOOLEAN,
     previous : OrNone(Environments), candidate : OrNone(Transactions),
     committed : OrNone(Environments)]
(* Processes, environments and what there is not are different things, and  *)
(* only what was there before can be ready before the first configure.      *)
ASSUME EnvAssumption ==
    /\ None \notin Configures \cup Environments \cup {"path", "aside"} \cup Builds \cup Journals
    /\ Old # Theirs /\ {Old, Theirs} \cap Transactions = {}
    /\ EnvScenarios \subseteq
          [live : OrNone({Old}), health : OrNone(Builds), marked : SUBSET {Old},
           budget : [Accidents -> Nat]]
NoTree == [at |-> None, print |-> FALSE, staging |-> None, previous |-> None, discarded |-> None]
Unbound == [loc |-> "creating", print |-> FALSE, previous |-> None, candidate |-> None,
            committed |-> None, tainted |-> FALSE]
NoTask == [cmd |-> None, txn |-> None, todo |-> <<>>, left |-> {}]

Suffer(kind) ==
    /\ envBudget[kind] > 0 /\ envBudget' = [envBudget EXCEPT ![kind] = @ - 1]
    /\ suffered' = suffered \cup {kind}
At(x, slot) == IF slot = "live" THEN live ELSE tree[x][slot]
Present == ({live} \cup {tree[x][slot] : x \in Transactions, slot \in Slots}) \ {None}
ReadyLive == live \in marked

---------------------------------------------------------------------------
(* The helper: one command, then the answer. *)

Run(p, cmd, x) ==
    /\ helper' = [helper EXCEPT ![p] = "claim"]
    /\ task' = [task EXCEPT ![p] = [cmd |-> cmd, txn |-> x, todo |-> <<>>,
        left |-> IF cmd = "recover" THEN {y \in Transactions : journal[y] # None} ELSE {}]]
Close(p) == owner' = [x \in Transactions |-> IF owner[x] = p THEN None ELSE owner[x]]
(* main: the answer, or an error, ends the helper and with it its lease.    *)
Answers(p, answer) ==
    /\ helper' = [helper EXCEPT ![p] = answer]
    /\ Close(p) /\ UNCHANGED <<cmake, task, envLock, luck>>
Refuses(p) == Answers(p, "refused") /\ UNCHANGED <<live, tree, journal, health, marked>>

Bind(label, e) == [op |-> "bind", label |-> label, env |-> e]
Move(src, dst, e) == [op |-> "move", src |-> src, dst |-> dst, env |-> e]
CleanUp == [op |-> "cleanup"]
(* The next operation of the command; recover goes on to the next owner.    *)
Continue(p, x, ops) ==
    /\ task' = [task EXCEPT ![p].txn = x, ![p].todo = ops, ![p].left = @ \ {x}]
    /\ helper' = [helper EXCEPT ![p] = IF ops # <<>> THEN Head(ops).op
                                       ELSE IF task[p].cmd = "recover" THEN "claim"
                                       ELSE IF task[p].cmd = "abort" THEN "refused" ELSE "ok"]
    /\ IF ops = <<>> THEN Close(p) ELSE owner' = [owner EXCEPT ![x] = p]
    /\ UNCHANGED <<cmake, envLock, health, marked, luck>>
GoTo(p, label) ==
    /\ helper' = [helper EXCEPT ![p] = label]
    /\ UNCHANGED <<cmake, task, envLock, live, health, marked, luck>>

(* A new name is random; names mean nothing, so any one stands for all.     *)
Fresh == {x \in Transactions : journal[x] = None /\ tree[x] = NoTree /\ x \notin Present}
CreateOwner(p) ==
    LET x == CHOOSE y \in Fresh : TRUE IN
    /\ helper[p] = "claim" /\ task[p].cmd = "create" /\ Fresh # {}
    /\ journal' = [journal EXCEPT ![x] = Unbound]
    /\ owner' = [owner EXCEPT ![x] = p]
    /\ task' = [task EXCEPT ![p].txn = x]
    /\ helper' = [helper EXCEPT ![p] = "mkdir"]
    /\ UNCHANGED <<cmake, envLock, live, tree, health, marked, luck>>
CreateDirectory(p) ==
    LET x == task[p].txn IN
    /\ helper[p] = "mkdir" /\ GoTo(p, "print")
    /\ tree' = [tree EXCEPT ![x].at = "path"]
    /\ journal' = [journal EXCEPT ![x].loc = "original"]
    /\ UNCHANGED owner
CreateFingerprint(p) ==
    /\ helper[p] = "print" /\ GoTo(p, "bind_print")
    /\ tree' = [tree EXCEPT ![task[p].txn].print = TRUE]
    /\ UNCHANGED <<journal, owner>>
BindFingerprint(p) ==
    /\ helper[p] = "bind_print" /\ Continue(p, task[p].txn, <<>>)
    /\ journal' = [journal EXCEPT ![task[p].txn].print = TRUE]
    /\ UNCHANGED <<live, tree>>

(* _claim_transaction and _reject_tainted, for every command but create and *)
(* recover: the transaction is dead, where it was, and of this fingerprint. *)
Claimable(x) ==
    /\ journal[x] # None /\ owner[x] = None
    /\ tree[x].at = "path" /\ tree[x].print /\ journal[x].print /\ ~journal[x].tainted
Restoring(x) ==
    (IF live = None THEN <<>> ELSE <<Move("live", "discarded", journal[x].candidate)>>)
    \o (IF journal[x].previous = None THEN <<>>
        ELSE <<Move("previous", "live", journal[x].previous)>>)
    \o <<CleanUp>>
(* What a command demands, and what it then does, operation by operation.   *)
Demands(cmd, x) ==
    \/ cmd = "backup" /\ ReadyLive
    \/ cmd = "prepare" /\ tree[x].staging \in marked
    \/ cmd = "promote" /\ journal[x].candidate # None
    \/ cmd = "commit" /\ ReadyLive /\ journal[x].candidate = live
    \/ cmd = "restore" /\ (live # None => journal[x].candidate # None)
    \/ cmd = "cleanup"
(* Faulty: the backup is moved before its identity is recorded.             *)
OperationsMovedFirst(cmd, x) ==
    CASE cmd = "backup" -> <<Move("live", "previous", live), Bind("previous", live)>>
      [] cmd = "prepare" -> <<Bind("candidate", tree[x].staging)>>
      [] cmd = "promote" -> <<Move("staging", "live", journal[x].candidate)>>
      [] cmd = "commit" -> <<Bind("committed", live)>>
      [] cmd = "restore" -> Restoring(x)
      [] cmd = "cleanup" -> <<CleanUp>>
Operations(cmd, x) ==
    CASE cmd = "backup" -> <<Bind("previous", live), Move("live", "previous", live)>>
      [] cmd = "prepare" -> <<Bind("candidate", tree[x].staging)>>
      [] cmd = "promote" -> <<Move("staging", "live", journal[x].candidate)>>
      [] cmd = "commit" -> <<Bind("committed", live)>>
      [] cmd = "restore" -> Restoring(x)
      [] cmd = "cleanup" -> <<CleanUp>>
Command(p) ==
    LET x == task[p].txn cmd == task[p].cmd IN
    /\ helper[p] = "claim" /\ cmd \notin {"create", "recover"}
    /\ IF Claimable(x) /\ Demands(cmd, x)
       THEN /\ Continue(p, x, Operations(cmd, x)) /\ UNCHANGED <<live, tree, journal>>
       ELSE Refuses(p)

BindIdentity(p) ==
    LET x == task[p].txn op == Head(task[p].todo) IN
    /\ helper[p] = "bind"
    /\ Continue(p, x, Tail(task[p].todo))
    /\ journal' = [journal EXCEPT ![x][op.label] = op.env]
    /\ UNCHANGED <<live, tree>>

(* _move_owned_directory: look, rename whatever has the name by then, look  *)
(* again; a surprise taints the transaction, which nobody touches any more. *)
MoveOf(p) == Head(task[p].todo)
CheckMove(p) ==
    LET x == task[p].txn m == MoveOf(p) IN
    /\ helper[p] = "move"
    /\ IF At(x, m.src) = m.env /\ m.env # None /\ At(x, m.dst) = None
       THEN GoTo(p, "rename") /\ UNCHANGED <<tree, journal, owner>>
       ELSE Refuses(p)
Renamed(x, m) ==
    /\ live' = IF m.src = "live" THEN None ELSE IF m.dst = "live" THEN At(x, m.src) ELSE live
    /\ tree' = [tree EXCEPT ![x] = [slot \in DOMAIN @ |->
          IF slot = m.src THEN None ELSE IF slot = m.dst THEN At(x, m.src) ELSE @[slot]]]
Rename(p) ==
    LET x == task[p].txn m == MoveOf(p) IN
    /\ helper[p] = "rename"
    /\ IF At(x, m.src) # None /\ At(x, m.dst) = None
       THEN /\ Renamed(x, m)
            /\ helper' = [helper EXCEPT ![p] = "moved"]
            /\ UNCHANGED <<cmake, task, envLock, journal, owner, health, marked, luck>>
       ELSE Refuses(p)
CheckMoved(p) ==
    LET x == task[p].txn m == MoveOf(p) IN
    /\ helper[p] = "moved"
    /\ \/ /\ At(x, m.dst) = m.env /\ At(x, m.src) = None
          /\ Continue(p, x, Tail(task[p].todo))
          /\ UNCHANGED <<live, tree, journal>>
       \/ /\ At(x, m.dst) = None /\ Refuses(p)
       \/ /\ At(x, m.dst) # None /\ (At(x, m.dst) # m.env \/ At(x, m.src) # None)
          /\ journal' = [journal EXCEPT ![x].tainted = TRUE]
          /\ Answers(p, "refused") /\ UNCHANGED <<live, tree, health, marked>>

(* _cleanup_owner, then the owner's own cleanup: set aside, erase, forget.  *)
Cleanup(p) ==
    LET x == task[p].txn IN
    /\ helper[p] = "cleanup"
    /\ IF ~journal[x].tainted /\ tree[x].at = "path"
       THEN /\ GoTo(p, "aside") /\ journal' = [journal EXCEPT ![x].loc = "detaching"]
            /\ UNCHANGED <<tree, owner>>
       ELSE Refuses(p)
SetAside(p) ==
    LET x == task[p].txn IN
    /\ helper[p] = "aside" /\ GoTo(p, "erase")
    /\ tree' = [tree EXCEPT ![x].at = "aside"]
    /\ journal' = [journal EXCEPT ![x].loc = "cleanup"]
    /\ UNCHANGED owner
Erase(p) ==
    /\ helper[p] = "erase" /\ GoTo(p, "forget")
    /\ tree' = [tree EXCEPT ![task[p].txn] = NoTree]
    /\ UNCHANGED <<journal, owner>>
Forget(p) ==
    LET x == task[p].txn IN
    /\ helper[p] = "forget"
    /\ Continue(p, x, IF task[p].todo = <<>> THEN <<>> ELSE Tail(task[p].todo))
    /\ journal' = [journal EXCEPT ![x] = None]
    /\ UNCHANGED <<live, tree>>

(* _recover: every transaction that was there and is dead, one by one.      *)
Dead(p) == {x \in task[p].left : journal[x] # None /\ owner[x] = None}
(* _recover_owner: keep what was committed, restore what was not; what      *)
(* recovery cannot tell apart it leaves to the user.                        *)
CanRecover(x) ==
    LET j == journal[x] IN
    \/ j.previous = None /\ ~(live # None /\ j.candidate # None /\ j.committed \notin {None, live})
    \/ /\ j.previous # None /\ tree[x].previous # None
       /\ \/ live = None
          \/ live = j.candidate /\ j.committed \in {None, live}
    \/ j.previous # None /\ tree[x].previous = None /\ live = j.previous
Recovering(x) ==
    LET j == journal[x]
        discards == live # None /\ j.candidate # None /\ j.committed = None
                    /\ (j.previous = None \/ tree[x].previous # None)
        restores == j.previous # None /\ tree[x].previous # None
                    /\ (live = None \/ j.committed = None)
    IN (IF discards THEN <<Move("live", "discarded", j.candidate)>> ELSE <<>>)
       \o (IF restores THEN <<Move("previous", "live", j.previous)>> ELSE <<>>)
       \o <<CleanUp>>
RecoverOwner(p) ==
    /\ helper[p] = "claim" /\ task[p].cmd = "recover"
    /\ \E x \in Dead(p) :
        /\ journal[x].loc = "original" /\ journal[x].print
        /\ IF Claimable(x) /\ CanRecover(x)
           THEN Continue(p, x, Recovering(x)) /\ UNCHANGED <<live, tree, journal>>
           ELSE Refuses(p)
(* _resume_incomplete_owner_cleanup *)
ResumeCleanup(p) ==
    /\ helper[p] = "claim" /\ task[p].cmd = "recover"
    /\ \E x \in Dead(p) :
        LET loc == journal[x].loc
            bound == {journal[x].previous, journal[x].candidate, journal[x].committed} # {None}
        IN
        /\ ~(loc = "original" /\ journal[x].print)
        /\ IF journal[x].tainted \/ (loc = "original" /\ bound) \/ (loc = "creating" /\ tree[x] # NoTree)
           THEN Refuses(p)
           ELSE /\ helper' = [helper EXCEPT ![p] = CASE loc = "creating" -> "forget"
                                 [] loc = "original" -> "cleanup"
                                 [] loc \in {"detaching", "cleanup"} ->
                                       IF tree[x].at = "path" THEN "aside" ELSE "erase"]
                /\ task' = [task EXCEPT ![p].txn = x, ![p].left = @ \ {x}]
                /\ owner' = [owner EXCEPT ![x] = p]
                /\ UNCHANGED <<cmake, envLock, live, tree, journal, health, marked, luck>>
NothingToRecover(p) ==
    /\ helper[p] = "claim" /\ task[p].cmd = "recover" /\ Dead(p) = {}
    /\ Answers(p, "ok") /\ UNCHANGED <<live, tree, journal, health, marked>>

HelperStep(p) ==
    \/ CreateOwner(p) \/ CreateDirectory(p) \/ CreateFingerprint(p) \/ BindFingerprint(p)
    \/ Command(p) \/ BindIdentity(p) \/ CheckMove(p) \/ Rename(p) \/ CheckMoved(p)
    \/ Cleanup(p) \/ SetAside(p) \/ Erase(p) \/ Forget(p)
    \/ RecoverOwner(p) \/ ResumeCleanup(p) \/ NothingToRecover(p)

---------------------------------------------------------------------------
(* The configure *)

Enter(p, label) == cmake' = [cmake EXCEPT ![p] = label]
(* GUARD FUNCTION: the lock goes when the function is left, however that is. *)
Leaves(p, label) == Enter(p, label) /\ envLock' = IF envLock = p THEN None ELSE envLock
Idle(p) == helper' = [helper EXCEPT ![p] = "none"] /\ task' = [task EXCEPT ![p] = NoTask]

StartConfiguring(p) ==
    /\ cmake[p] \in {"idle", "done", "failed"} /\ helper[p] = "none"
    /\ Suffer("configures") /\ Enter(p, "lock")
    /\ UNCHANGED <<helper, task, envLock, fsVars>>
Lock(p) ==
    /\ cmake[p] = "lock" /\ envLock = None
    /\ envLock' = p /\ Enter(p, "recover") /\ Run(p, "recover", None)
    /\ UNCHANGED <<fsVars, luck>>
(* _protocyte_python_environment_is_ready: the marker and a verification.   *)
IsReady == ReadyLive /\ health[live] = "usable"
Recovered(p) ==
    /\ cmake[p] = "recover" /\ helper[p] = "ok"
    /\ \/ IsReady /\ Leaves(p, "done") /\ Idle(p)
       \/ ~IsReady /\ Enter(p, "create") /\ Run(p, "create", None) /\ UNCHANGED envLock
    /\ UNCHANGED <<fsVars, luck>>
Created(p) ==
    /\ cmake[p] = "create" /\ helper[p] = "ok"
    /\ Enter(p, "venv") /\ helper' = [helper EXCEPT ![p] = "none"]
    /\ UNCHANGED <<task, envLock, fsVars, luck>>
Rollback(p) == Enter(p, "restore") /\ Run(p, "restore", task[p].txn) /\ UNCHANGED envLock
Then(p, cmd) == Enter(p, cmd) /\ Run(p, cmd, task[p].txn) /\ UNCHANGED envLock
(* The virtual environment and its pip; then the backup, if there is        *)
(* anything at the path to back up.                                         *)
CreateVenv(p) ==
    LET x == task[p].txn IN
    /\ cmake[p] = "venv" /\ tree[x].at = "path"
    /\ tree' = [tree EXCEPT ![x].staging = x]
    /\ health' = [health EXCEPT ![x] = "partial"]
    /\ \/ live # None /\ Then(p, "backup")
       \/ live = None /\ Enter(p, "install") /\ UNCHANGED <<helper, task, envLock>>
       \/ Rollback(p)
    /\ UNCHANGED <<live, journal, owner, marked, luck>>
VenvFails(p) ==
    /\ cmake[p] = "venv" /\ Rollback(p) /\ UNCHANGED <<fsVars, luck>>
BackedUp(p) ==
    /\ cmake[p] = "backup" /\ helper[p] = "ok"
    /\ Enter(p, "install") /\ helper' = [helper EXCEPT ![p] = "none"]
    /\ UNCHANGED <<task, envLock, fsVars, luck>>
(* Project and pip, verification, and the marker, all in staging.           *)
Install(p) ==
    LET x == task[p].txn IN
    /\ cmake[p] = "install"
    /\ \/ /\ tree[x].at = "path" /\ tree[x].staging = x
          /\ health' = [health EXCEPT ![x] = "staged"] /\ marked' = marked \cup {x}
          /\ Then(p, "prepare")
       \/ Rollback(p) /\ UNCHANGED <<health, marked>>
    /\ UNCHANGED <<live, tree, journal, owner, luck>>
Prepared(p) ==
    /\ cmake[p] = "prepare" /\ helper[p] = "ok" /\ Then(p, "promote")
    /\ UNCHANGED <<fsVars, luck>>
Promoted(p) ==
    /\ cmake[p] = "promote" /\ helper[p] = "ok"
    /\ Enter(p, "relocate") /\ helper' = [helper EXCEPT ![p] = "none"]
    /\ UNCHANGED <<task, envLock, fsVars, luck>>
(* pip rewrites the entry points in place, and the result is verified.      *)
Relocate(p) ==
    /\ cmake[p] = "relocate"
    /\ \/ /\ live \in Transactions /\ health' = [health EXCEPT ![live] = "usable"]
          /\ Then(p, "commit")
       \/ Rollback(p) /\ UNCHANGED health
    /\ UNCHANGED <<live, tree, journal, owner, marked, luck>>
Committed(p) ==
    /\ cmake[p] = "commit" /\ helper[p] = "ok" /\ Then(p, "cleanup")
    /\ UNCHANGED <<fsVars, luck>>
CleanedUp(p) ==
    /\ cmake[p] = "cleanup" /\ helper[p] = "ok"
    /\ Leaves(p, "done") /\ Idle(p) /\ UNCHANGED <<fsVars, luck>>
(* A failed prepare or promote is rolled back; a failed recover, create,    *)
(* backup, commit or cleanup is left to the next configure.                 *)
Fails(p) ==
    /\ \/ helper[p] = "refused" /\ cmake[p] \in {"prepare", "promote"} /\ Rollback(p)
       \/ /\ \/ helper[p] = "refused" /\ cmake[p] \in {"recover", "create", "backup", "commit", "cleanup"}
             \/ helper[p] \in {"ok", "refused"} /\ cmake[p] = "restore"
          /\ Leaves(p, "failed") /\ Idle(p)
    /\ UNCHANGED <<fsVars, luck>>
ConfigureStep(p) ==
    \/ Lock(p) \/ Recovered(p) \/ Created(p) \/ CreateVenv(p) \/ VenvFails(p) \/ BackedUp(p)
    \/ Install(p) \/ Prepared(p) \/ Promoted(p) \/ Relocate(p) \/ Committed(p) \/ CleanedUp(p)
    \/ Fails(p)

---------------------------------------------------------------------------
(* Accidents *)

Working(p) == helper[p] \notin {"none", "ok", "refused"}
(* The helper exceeds its minute and is killed: configure sees a failure.   *)
TimesOut(p) ==
    /\ Working(p) /\ Suffer("timeouts")
    /\ helper' = [helper EXCEPT ![p] = "refused"]
    /\ Close(p)
    /\ UNCHANGED <<cmake, task, envLock, live, tree, journal, health, marked>>
(* A file operation of the helper fails; create then removes what it made.  *)
OperationFails(p) ==
    /\ Working(p) /\ Suffer("fails")
    /\ \/ /\ task[p].cmd = "create" /\ helper[p] \in {"print", "bind_print"}
          /\ helper' = [helper EXCEPT ![p] = "cleanup"]
          /\ task' = [task EXCEPT ![p].cmd = "abort"] /\ UNCHANGED owner
       \/ /\ ~(task[p].cmd = "create" /\ helper[p] \in {"print", "bind_print"})
          /\ helper' = [helper EXCEPT ![p] = "refused"]
          /\ Close(p) /\ UNCHANGED task
    /\ UNCHANGED <<cmake, envLock, live, tree, journal, health, marked>>
(* The configure is killed with its helper, or alone.                       *)
KillConfigure(p) ==
    /\ cmake[p] \notin {"idle", "done", "failed"} /\ Suffer("kills")
    /\ Leaves(p, "failed") /\ Idle(p) /\ Close(p)
    /\ UNCHANGED <<live, tree, journal, health, marked>>
OrphanHelper(p) ==
    /\ cmake[p] \notin {"idle", "done", "failed"} /\ Working(p) /\ Suffer("orphans")
    /\ Leaves(p, "failed") /\ UNCHANGED <<helper, task, fsVars>>
OrphanEnds(p) ==
    /\ cmake[p] = "failed" /\ helper[p] \in {"ok", "refused"}
    /\ Idle(p) /\ UNCHANGED <<cmake, envLock, fsVars, luck>>
(* The user replaces the live directory with one of theirs, or deletes it.  *)
UserReplaces(e) ==
    /\ Suffer("edits") /\ live # e
    /\ live' = e /\ UNCHANGED <<cmake, helper, task, envLock, tree, journal, owner, health, marked>>

EnvInit(s) ==
    /\ cmake = [p \in Configures |-> "idle"] /\ helper = [p \in Configures |-> "none"]
    /\ task = [p \in Configures |-> NoTask] /\ envLock = None
    /\ live = s.live /\ tree = [x \in Transactions |-> NoTree]
    /\ journal = [x \in Transactions |-> None] /\ owner = [x \in Transactions |-> None]
    /\ health = [e \in Environments |-> IF e = Old THEN s.health ELSE None]
    /\ marked = s.marked /\ envBudget = s.budget /\ suffered = {}
EnvNext ==
    \/ \E p \in Configures :
        \/ StartConfiguring(p) \/ ConfigureStep(p) \/ HelperStep(p)
        \/ TimesOut(p) \/ OperationFails(p) \/ KillConfigure(p)
        \/ OrphanHelper(p) \/ OrphanEnds(p)
    \/ \E e \in {Theirs, None} : UserReplaces(e)
EnvSpec == (\E s \in EnvScenarios : EnvInit(s)) /\ [][EnvNext]_envVars
EnvFairness ==
    \A p \in Configures : WF_envVars(HelperStep(p)) /\ WF_envVars(ConfigureStep(p))
============================================================================
