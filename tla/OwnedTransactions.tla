------------------------- MODULE OwnedTransactions -------------------------
(***************************************************************************)
(* .github/scripts/owned_transactions.py for ONE destination: transaction  *)
(* siblings (private directories next to the destination) whose owner may  *)
(* die at any point.  An owner is a lease file, locked while its process   *)
(* lives, and a journal of numbered generations that says where its        *)
(* directory is.  Whoever finds a lease unlocked takes it over, finishes   *)
(* the removal the journal describes, and retires the lease.               *)
(*                                                                         *)
(* As in OutputCoordinator, stOld and atOld hold what a power loss may     *)
(* leave of the two directories, each token's entries in order; a sync     *)
(* reduces them to the present.  Somebody else may put a directory where a *)
(* sibling goes, or take a sibling away.                                   *)
(*                                                                         *)
(* Abstracted: an identity (device, inode, type) is "own" or not; link,    *)
(* owner, mode and mount checks succeed; the directory of a destination    *)
(* outlives a power loss, which loses it only by losing the whole state    *)
(* root; a foreign directory is not empty.  This is the POSIX branch.      *)
(***************************************************************************)
EXTENDS Integers, FiniteSetsExt

CONSTANTS
    Procs,      \* operating-system processes
    Tokens,     \* uuid4 tokens; each is drawn once
    Inodes,     \* inodes the destination's lock file may get
    None,       \* an absent file, lock holder or value
    Budgets     \* scenarios: how often each command, how many accidents, happen

Commands == {"install", "create", "recover"}
Accidents == {"kill", "loss", "fail", "foreign"}
Locations == {"creating", "original", "detaching", "cleanup"}
Gens == 1..4    \* a journal has at most one generation per location

ASSUME TokensAssumption == None \notin Procs \cup Tokens \cup Inodes \cup Locations
ASSUME InodesAssumption == Inodes # {}
ASSUME BudgetsAssumption == Budgets \subseteq [Commands \cup {"accidents"} -> Nat]

VARIABLES
    pc, job,            \* control state and locals of each process
    registry,           \* holder of registry.lock
    lockFile, flock,    \* inode named destination.lock; holder of each inode's lock
    stateDir,           \* does the destination's state directory exist?
    lease,              \* holder of the lock on each token's lease file
    st, stOld,          \* lease and journal files of each token
    at, atOld,          \* the sibling's names in the destination's parent
    touched,            \* history: tokens somebody else interfered with
    drawn,              \* tokens drawn
    happened, budget    \* history: kinds of accident; commands and accidents left

kernel == <<registry, lockFile, flock, stateDir, lease>>
state == <<st, stOld>>
names == <<at, atOld, touched>>
env == <<happened, budget>>
vars == <<pc, job, kernel, state, names, drawn, env>>

---------------------------------------------------------------------------
(* Data *)

NoJournal == [g \in Gens |-> None]
NoFiles == [marker |-> "none", jr |-> NoJournal, tmp |-> 0]
Absent == [orig |-> "none", clean |-> "none", stage |-> "none"]
NoJob == [cmd |-> None, tok |-> None, fresh |-> None, todo |-> {}, loc |-> None,
          gen |-> 0, part |-> "recovering", dirty |-> FALSE, next |-> None]

Journals(s) == {g \in Gens : s.jr[g] # None}
Latest(s) == s.jr[Max(Journals(s))]
Obsolete(s) == {g \in Journals(s) : Cardinality({h \in Journals(s) : h > g}) >= 2}
WithoutJournals(s, old) == [s EXCEPT !.jr = [g \in Gens |-> IF g \in old THEN None ELSE @[g]]]

(* What _acquire_directory makes of the journal's location and the names:   *)
(* nothing left, the sibling's name, or a refusal.                          *)
Found(loc, a) ==
    CASE loc = "creating" /\ a = Absent -> "gone"
      [] loc \in {"detaching", "cleanup"} /\ a.clean = "own" -> "cleanup"
      [] loc \in {"original", "detaching"} /\ a.orig = "own" /\ a.clean = "none" -> "original"
      [] loc = "cleanup" /\ a.orig = "none" /\ a.clean = "none" -> "gone"
      [] OTHER -> "refused"

Abandoned == {t \in Tokens : /\ st[t].marker # "none" /\ Journals(st[t]) = {}
                             /\ at[t] = Absent /\ lease[t] = None}
Orphans == {t \in Tokens : st[t].marker = "none" /\ st[t] # NoFiles}
Markers == {t \in Tokens : st[t].marker # "none"}

---------------------------------------------------------------------------
(* Control *)

Goto(p, label) == pc' = [pc EXCEPT ![p] = label] /\ UNCHANGED job
GotoWith(p, label, j) == pc' = [pc EXCEPT ![p] = label] /\ job' = [job EXCEPT ![p] = j]
(* Kernel locks: one registry, one lock per lock-file inode and per lease.  *)
Enter(p) == registry = None /\ registry' = p
Exit == registry' = None
Freed(locks, p) == [x \in DOMAIN locks |-> IF locks[x] = p THEN None ELSE locks[x]]

Leave(p) == GotoWith(p, "idle", NoJob)
(* What follows the end of a transaction, in success or through an error.   *)
Finish(p) == IF job[p].cmd = "install" THEN Goto(p, "unlock") ELSE Leave(p)
(* close(remove_marker=False): the lease is free, the files stay.           *)
Fail(p) == lease' = Freed(lease, p) /\ Finish(p)

WriteFiles(t, new) ==
    /\ st' = [st EXCEPT ![t] = new]
    /\ stOld' = [stOld EXCEPT ![t] = @ \cup {new}]
SyncFiles == stOld' = [t \in Tokens |-> {st[t]}] /\ UNCHANGED st
WriteNames(t, new) ==
    /\ at' = [at EXCEPT ![t] = new]
    /\ atOld' = [atOld EXCEPT ![t] = @ \cup {new}]
    /\ UNCHANGED touched
SyncNames == atOld' = [t \in Tokens |-> {at[t]}] /\ UNCHANGED <<at, touched>>
Spend(what) == budget[what] > 0 /\ budget' = [budget EXCEPT ![what] = @ - 1]
Accident(kind) == Spend("accidents") /\ happened' = happened \cup {kind}

Start(p, cmd) ==
    /\ pc[p] = "idle" /\ Spend(cmd)
    /\ \/ /\ cmd = "recover"
          /\ GotoWith(p, "list", [NoJob EXCEPT !.cmd = cmd])
          /\ UNCHANGED drawn
       \/ /\ cmd # "recover" /\ drawn # Tokens
          /\ LET t == CHOOSE x \in Tokens \ drawn : TRUE
             IN  /\ GotoWith(p, IF cmd = "install" THEN "lock" ELSE "create",
                             [NoJob EXCEPT !.cmd = cmd, !.fresh = t])
                 /\ drawn' = drawn \cup {t}
    /\ UNCHANGED <<kernel, state, names, happened>>

---------------------------------------------------------------------------
(* locked_destination: the lock of a destination lives in its state         *)
(* directory, which is made and pruned under the registry.                  *)

EnterLock(p) ==
    /\ pc[p] = "lock" /\ Enter(p)
    /\ stateDir' = TRUE
    /\ Goto(p, "lock_open")
    /\ UNCHANGED <<lockFile, flock, lease, state, names, drawn, env>>

TryDestinationLock(p) ==
    /\ pc[p] = "lock_open" /\ Exit
    /\ lockFile' = IF lockFile # None THEN lockFile
                   ELSE CHOOSE i \in Inodes : flock[i] = None
    /\ IF flock[lockFile'] = None
       THEN flock' = [flock EXCEPT ![lockFile'] = p] /\ Goto(p, "list")
       ELSE UNCHANGED flock /\ Goto(p, "lock")
    /\ UNCHANGED <<stateDir, lease, state, names, drawn, env>>

EnterUnlock(p) ==
    /\ pc[p] = "unlock" /\ Enter(p)
    /\ GotoWith(p, "prune", [job[p] EXCEPT !.part = "leaving", !.next = "entries"])
    /\ UNCHANGED <<lockFile, flock, stateDir, lease, state, names, drawn, env>>

(* _prune_abandoned_owner_state, one file group at a time: first leases     *)
(* that never got a journal, then journals that lost their lease.           *)
PruneOwner(p) ==
    /\ pc[p] = "prune"
    /\ \E t \in Abandoned : WriteFiles(t, [st[t] EXCEPT !.marker = "none"])
    /\ GotoWith(p, "prune", [job[p] EXCEPT !.dirty = TRUE])
    /\ UNCHANGED <<kernel, names, drawn, env>>

PruneOrphan(p) ==
    /\ pc[p] = "prune" /\ Abandoned = {}
    /\ \E t \in Orphans : WriteFiles(t, NoFiles)
    /\ GotoWith(p, "prune", [job[p] EXCEPT !.dirty = TRUE])
    /\ UNCHANGED <<kernel, names, drawn, env>>

Pruned(p) ==
    /\ pc[p] = "prune" /\ Abandoned = {} /\ Orphans = {}
    /\ IF job[p].dirty THEN SyncFiles ELSE UNCHANGED state
    /\ IF job[p].next = "entries"
       THEN /\ GotoWith(p, "entries", [job[p] EXCEPT !.dirty = FALSE])
            /\ UNCHANGED registry
       ELSE /\ GotoWith(p, "claim", [job[p] EXCEPT !.dirty = FALSE, !.todo = Markers])
            /\ Exit
    /\ UNCHANGED <<lockFile, flock, stateDir, lease, names, drawn, env>>

(* Faulty: only the holder of a released destination leaves the registry.   *)
AfterPruneHeld(p) ==
    CASE job[p].part = "recovering" -> Goto(p, "claim") /\ Exit
      [] job[p].part = "owning" -> Finish(p) /\ UNCHANGED registry
      [] OTHER -> Leave(p) /\ Exit

(* The registry is left: the recovery goes on to the next owner, a finished *)
(* transaction releases the destination, a released destination is done.    *)
AfterPrune(p) ==
    /\ Exit
    /\ CASE job[p].part = "recovering" -> Goto(p, "claim")
         [] job[p].part = "owning" -> Finish(p)
         [] OTHER -> Leave(p)

(* Faulty: the lock file goes whoever holds its lock.                       *)
MayPruneLockHeld(p) == job[p].part \in {"recovering", "owning", "leaving"}

(* _prune_destination_state: with nothing but the lock file left, the file  *)
(* goes if nobody else holds its lock.                                      *)
OnlyLockFile == \A t \in Tokens : st[t] = NoFiles
MayPruneLock(p) ==
    lockFile # None => flock[lockFile] = IF job[p].part = "leaving" THEN p ELSE None
PruneLockFile(p) ==
    /\ pc[p] = "entries"
    /\ flock' = IF job[p].part = "leaving" THEN Freed(flock, p) ELSE flock
    /\ IF OnlyLockFile /\ MayPruneLock(p)
       THEN lockFile' = None /\ Goto(p, "rmdir_state") /\ UNCHANGED registry
       ELSE AfterPrune(p) /\ UNCHANGED lockFile
    /\ UNCHANGED <<stateDir, lease, state, names, drawn, env>>

RemoveStateDir(p) ==
    /\ pc[p] = "rmdir_state"
    /\ stateDir' = FALSE
    /\ AfterPrune(p)
    /\ UNCHANGED <<lockFile, flock, lease, state, names, drawn, env>>

---------------------------------------------------------------------------
(* recover_owned_siblings: list the leases, claim the dead ones, clean up.  *)

EnterList(p) ==
    /\ pc[p] = "list" /\ Enter(p)
    /\ GotoWith(p, "prune", [job[p] EXCEPT !.next = "listed"])
    /\ UNCHANGED <<lockFile, flock, stateDir, lease, state, names, drawn, env>>

(* Faulty: a live owner's lease is taken like a dead one's.                 *)
ClaimLive(p) ==
    /\ pc[p] = "claim" /\ registry = None
    /\ \E t \in job[p].todo :
        LET rest == job[p].todo \ {t}
        IN  IF st[t].marker = "lease" /\ Journals(st[t]) # {}
            THEN /\ lease' = [lease EXCEPT ![t] = p]
                 /\ GotoWith(p, "acquire", [job[p] EXCEPT !.todo = rest, !.tok = t,
                              !.loc = Latest(st[t]), !.gen = Max(Journals(st[t]))])
            ELSE GotoWith(p, "claim", [job[p] EXCEPT !.todo = rest]) /\ UNCHANGED lease
    /\ UNCHANGED <<registry, lockFile, flock, stateDir, state, names, drawn, env>>

(* _claim_dead_owner: a lease that is gone or locked is not ours; a dead    *)
(* one without its byte or without a journal is refused.                    *)
Claim(p) ==
    /\ pc[p] = "claim" /\ registry = None
    /\ \E t \in job[p].todo :
        LET rest == job[p].todo \ {t}
            loc == Latest(st[t])
        IN  \/ /\ st[t].marker = "none" \/ lease[t] # None
               /\ GotoWith(p, "claim", [job[p] EXCEPT !.todo = rest])
               /\ UNCHANGED lease
            \/ /\ st[t].marker # "none" /\ lease[t] = None
               /\ st[t].marker = "empty" \/ Journals(st[t]) = {}
               /\ Fail(p)
            \/ /\ st[t].marker = "lease" /\ lease[t] = None /\ Journals(st[t]) # {}
               /\ lease' = [lease EXCEPT ![t] = p]
               /\ GotoWith(p, "acquire", [job[p] EXCEPT !.todo = rest, !.tok = t,
                               !.loc = loc, !.gen = Max(Journals(st[t]))])
    /\ UNCHANGED <<registry, lockFile, flock, stateDir, state, names, drawn, env>>

Recovered(p) ==
    /\ pc[p] = "claim" /\ job[p].todo = {}
    /\ IF job[p].cmd = "install" THEN Goto(p, "create") ELSE Leave(p)
    /\ UNCHANGED <<kernel, state, names, drawn, env>>

---------------------------------------------------------------------------
(* create_owned_sibling: the lease and the first journal under the          *)
(* registry, then the directory, then the journal of its identity.          *)

EnterCreate(p) ==
    /\ pc[p] = "create" /\ Enter(p)
    /\ stateDir' = TRUE
    /\ GotoWith(p, "marker", [job[p] EXCEPT !.part = "owning", !.tok = job[p].fresh,
                                            !.loc = "creating", !.gen = 0])
    /\ UNCHANGED <<lockFile, flock, lease, state, names, drawn, env>>

CreateMarker(p) ==
    LET t == job[p].tok
    IN  /\ pc[p] = "marker"
        /\ WriteFiles(t, [st[t] EXCEPT !.marker = "empty"])
        /\ Goto(p, "lease")
        /\ UNCHANGED <<kernel, names, drawn, env>>

TakeLease(p) ==
    LET t == job[p].tok
    IN  /\ pc[p] = "lease"
        /\ WriteFiles(t, [st[t] EXCEPT !.marker = "lease"])
        /\ lease' = [lease EXCEPT ![t] = p]
        /\ Goto(p, "lease_sync")
        /\ UNCHANGED <<registry, lockFile, flock, stateDir, names, drawn, env>>

SyncLease(p) ==
    /\ pc[p] = "lease_sync" /\ SyncFiles
    /\ Goto(p, "tmp")
    /\ UNCHANGED <<kernel, names, drawn, env>>

(* _publish_journal: a temporary file renamed to the next generation, never *)
(* over an existing one, and generations but the last two removed.          *)
WriteJournal(p) ==
    LET t == job[p].tok
    IN  /\ pc[p] = "tmp"
        /\ WriteFiles(t, [st[t] EXCEPT !.tmp = @ + 1])
        /\ Goto(p, "publish")
        /\ UNCHANGED <<kernel, names, drawn, env>>

PublishJournal(p) ==
    LET t == job[p].tok
        g == job[p].gen + 1
    IN  /\ pc[p] = "publish" /\ st[t].jr[g] = None
        /\ WriteFiles(t, [st[t] EXCEPT !.jr[g] = job[p].loc, !.tmp = @ - 1])
        /\ Goto(p, "publish_sync")
        /\ UNCHANGED <<kernel, names, drawn, env>>

(* Faulty: the directory is not synced after the rename.                    *)
SyncJournalSkipped(p) ==
    /\ pc[p] = "publish_sync"
    /\ Goto(p, IF Obsolete(st[job[p].tok]) = {} THEN "journaled" ELSE "trim")
    /\ UNCHANGED <<kernel, state, names, drawn, env>>

SyncJournal(p) ==
    /\ pc[p] = "publish_sync" /\ SyncFiles
    /\ Goto(p, IF Obsolete(st[job[p].tok]) = {} THEN "journaled" ELSE "trim")
    /\ UNCHANGED <<kernel, names, drawn, env>>

TrimJournals(p) ==
    LET t == job[p].tok
    IN  /\ pc[p] = "trim"
        /\ WriteFiles(t, WithoutJournals(st[t], Obsolete(st[t])))
        /\ Goto(p, "trim_sync")
        /\ UNCHANGED <<kernel, names, drawn, env>>

SyncTrim(p) ==
    /\ pc[p] = "trim_sync" /\ SyncFiles
    /\ Goto(p, "journaled")
    /\ UNCHANGED <<kernel, names, drawn, env>>

(* The step the new journal allows.                                         *)
Journaled(p) ==
    LET next == [creating |-> "stage", original |-> "work", detaching |-> "detach",
                 cleanup |-> "empty"]
    IN  /\ pc[p] = "journaled"
        /\ GotoWith(p, next[job[p].loc], [job[p] EXCEPT !.gen = @ + 1])
        /\ registry' = IF job[p].loc = "creating" THEN None ELSE registry
        /\ UNCHANGED <<lockFile, flock, stateDir, lease, state, names, drawn, env>>

(* Faulty: the temporary file is unlinked even after it was renamed.        *)
JournalFailsTwice(p) ==
    LET t == job[p].tok
    IN  /\ pc[p] \in {"publish", "publish_sync", "trim", "trim_sync"}
        /\ Accident("fail")
        /\ WriteFiles(t, [st[t] EXCEPT !.tmp = @ - 1])
        /\ Fail(p)
        /\ UNCHANGED <<registry, lockFile, flock, stateDir, names, drawn>>

(* A publication that fails, before its rename or after it: what it leaves  *)
(* in memory is ahead of, or behind, what is on disk.                       *)
JournalFails(p) ==
    LET t == job[p].tok
        early == pc[p] = "publish"
    IN  /\ pc[p] \in {"publish", "publish_sync", "trim", "trim_sync"}
        /\ IF early /\ st[t].jr[job[p].gen + 1] # None THEN UNCHANGED env ELSE Accident("fail")
        /\ IF early THEN WriteFiles(t, [st[t] EXCEPT !.tmp = @ - 1]) ELSE UNCHANGED state
        /\ CASE job[p].loc = "creating" -> Goto(p, "unlink") /\ lease' = Freed(lease, p)
             [] job[p].loc = "original" -> Goto(p, "acquire") /\ UNCHANGED lease
             [] OTHER -> Fail(p)
        /\ UNCHANGED <<registry, lockFile, flock, stateDir, names, drawn>>

(* _posix_create_owned_directory: made inside a private staging directory   *)
(* and renamed to its name, never over an existing one.                     *)
MakeStage(p) ==
    LET t == job[p].tok
    IN  /\ pc[p] = "stage"
        /\ WriteNames(t, [at[t] EXCEPT !.stage = "empty"])
        /\ Goto(p, "child")
        /\ UNCHANGED <<kernel, state, drawn, env>>

MakeChild(p) ==
    LET t == job[p].tok
    IN  /\ pc[p] = "child"
        /\ WriteNames(t, [at[t] EXCEPT !.stage = "full"])
        /\ Goto(p, "rename")
        /\ UNCHANGED <<kernel, state, drawn, env>>

PublishSibling(p) ==
    LET t == job[p].tok
    IN  /\ pc[p] = "rename" /\ at[t].orig = "none"
        /\ WriteNames(t, [at[t] EXCEPT !.orig = "own", !.stage = "empty"])
        /\ Goto(p, "unstage")
        /\ UNCHANGED <<kernel, state, drawn, env>>

RemoveStage(p) ==
    LET t == job[p].tok
    IN  /\ pc[p] = "unstage"
        /\ IF at[t].orig = "own"
           THEN Goto(p, "create_sync")
           ELSE Goto(p, "acquire")          \* opened back, it is not ours
        /\ WriteNames(t, [at[t] EXCEPT !.stage = "none"])
        /\ UNCHANGED <<kernel, state, drawn, env>>

SyncCreate(p) ==
    /\ pc[p] = "create_sync" /\ SyncNames
    /\ Goto(p, "bind")
    /\ UNCHANGED <<kernel, state, drawn, env>>

(* The identity of the open directory is bound, if the name still leads to it. *)
BindIdentity(p) ==
    /\ pc[p] = "bind"
    /\ GotoWith(p, IF at[job[p].tok].orig = "own" THEN "tmp" ELSE "acquire",
                [job[p] EXCEPT !.loc = "original"])
    /\ UNCHANGED <<kernel, state, names, drawn, env>>

(* A failed creation removes what is still in staging and cleans up.        *)
CreationFails(p) ==
    LET t == job[p].tok
    IN  /\ pc[p] \in {"stage", "child", "rename", "unstage", "create_sync"}
        /\ IF pc[p] = "rename" /\ at[t].orig # "none" THEN UNCHANGED env ELSE Accident("fail")
        /\ WriteNames(t, [at[t] EXCEPT !.stage = "none"])
        /\ Goto(p, "acquire")
        /\ UNCHANGED <<kernel, state, drawn>>

(* The client is done with its directory: install_protoc cleans it up, or   *)
(* keeps it for a later recovery while its rollback exists; the managed     *)
(* environment helper leaves it to its next command.                        *)
WorkDone(p) ==
    /\ pc[p] = "work"
    /\ \/ job[p].cmd = "install" /\ Goto(p, "acquire") /\ UNCHANGED lease
       \/ Fail(p)
    /\ UNCHANGED <<registry, lockFile, flock, stateDir, state, names, drawn, env>>

---------------------------------------------------------------------------
(* OwnedSibling.cleanup: detach the directory under another name, empty and *)
(* remove it, retire the lease.                                             *)

AcquireDirectory(p) ==
    LET found == Found(job[p].loc, at[job[p].tok])
        j == job[p]
    IN  /\ pc[p] = "acquire"
        /\ \/ found = "gone" /\ Goto(p, "retire")
           \/ found = "cleanup" /\ j.loc = "cleanup" /\ Goto(p, "empty")
           \/ found = "cleanup" /\ j.loc # "cleanup"
              /\ GotoWith(p, "tmp", [j EXCEPT !.loc = "cleanup"])
           \/ found = "original" /\ j.loc = "detaching" /\ Goto(p, "detach")
           \/ found = "original" /\ j.loc = "original"
              /\ GotoWith(p, "tmp", [j EXCEPT !.loc = "detaching"])
        /\ UNCHANGED <<kernel, state, names, drawn, env>>

(* The checks on the way that fail: nothing is removed, the lease is closed *)
(* and its files stay.                                                      *)
Refuse(p) ==
    LET a == at[job[p].tok]
    IN  /\ \/ pc[p] = "acquire" /\ Found(job[p].loc, a) = "refused"
           \/ pc[p] = "detach" /\ (a.clean # "none" \/ a.orig # "own")
           \/ pc[p] = "move" /\ (a.clean # "none" \/ a.orig = "none")
           \/ pc[p] \in {"moved", "empty", "recheck", "rmdir"} /\ a.clean # "own"
        /\ Fail(p)
        /\ UNCHANGED <<registry, lockFile, flock, stateDir, state, names, drawn, env>>

CheckDetach(p) ==
    LET a == at[job[p].tok]
    IN  /\ pc[p] = "detach" /\ a.clean = "none" /\ a.orig = "own"
        /\ Goto(p, "move")
        /\ UNCHANGED <<kernel, state, names, drawn, env>>

(* The rename takes whatever bears the name by now; it is checked after.    *)
Detach(p) ==
    LET t == job[p].tok
    IN  /\ pc[p] = "move" /\ at[t].clean = "none" /\ at[t].orig # "none"
        /\ WriteNames(t, [at[t] EXCEPT !.orig = "none", !.clean = at[t].orig])
        /\ Goto(p, "moved")
        /\ UNCHANGED <<kernel, state, drawn, env>>

SyncDetach(p) ==
    /\ pc[p] = "moved" /\ at[job[p].tok].clean = "own" /\ SyncNames
    /\ GotoWith(p, "tmp", [job[p] EXCEPT !.loc = "cleanup"])
    /\ UNCHANGED <<kernel, state, drawn, env>>

(* remove_tree: through the open directory, verified before and after.      *)
EmptyTree(p) ==
    /\ pc[p] \in {"empty", "recheck"} /\ at[job[p].tok].clean = "own"
    /\ Goto(p, IF pc[p] = "empty" THEN "recheck" ELSE "rmdir")
    /\ UNCHANGED <<kernel, state, names, drawn, env>>

(* Faulty: whatever bears the name is emptied and removed.                  *)
RemoveTreeByName(p) ==
    LET t == job[p].tok
    IN  /\ pc[p] = "rmdir" /\ at[t].clean # "none"
        /\ WriteNames(t, [at[t] EXCEPT !.clean = "none"])
        /\ Goto(p, "rmdir_sync")
        /\ UNCHANGED <<kernel, state, drawn, env>>

RemoveTree(p) ==
    LET t == job[p].tok
    IN  /\ pc[p] = "rmdir" /\ at[t].clean = "own"
        /\ WriteNames(t, [at[t] EXCEPT !.clean = "none"])
        /\ Goto(p, "rmdir_sync")
        /\ UNCHANGED <<kernel, state, drawn, env>>

SyncRemove(p) ==
    /\ pc[p] = "rmdir_sync" /\ SyncNames
    /\ Goto(p, "retire")
    /\ UNCHANGED <<kernel, state, drawn, env>>

(* close(remove_marker=True): the lease goes first, durably, so that no     *)
(* recovery ever meets a lease whose journal is half removed.               *)
EnterRetire(p) ==
    /\ pc[p] = "retire" /\ Enter(p)
    /\ lease' = Freed(lease, p)
    /\ Goto(p, "unlink")
    /\ UNCHANGED <<lockFile, flock, stateDir, state, names, drawn, env>>

UnlinkMarker(p) ==
    LET t == job[p].tok
    IN  /\ pc[p] = "unlink"
        /\ WriteFiles(t, [st[t] EXCEPT !.marker = "none"])
        /\ Goto(p, "unlink_sync")
        /\ UNCHANGED <<kernel, names, drawn, env>>

SyncUnlink(p) ==
    /\ pc[p] = "unlink_sync" /\ SyncFiles
    /\ Goto(p, "files")
    /\ UNCHANGED <<kernel, names, drawn, env>>

RemoveJournals(p) ==
    LET t == job[p].tok
    IN  /\ pc[p] = "files"
        /\ WriteFiles(t, NoFiles)
        /\ GotoWith(p, "prune", [job[p] EXCEPT !.next = "entries", !.dirty = TRUE])
        /\ UNCHANGED <<kernel, names, drawn, env>>

---------------------------------------------------------------------------
(* What happens to the processes and their files *)

(* The kernel drops every lock of a killed process.                         *)
Kill(p) ==
    /\ pc[p] # "idle" /\ Accident("kill")
    /\ Leave(p)
    /\ registry' = IF registry = p THEN None ELSE registry
    /\ flock' = Freed(flock, p) /\ lease' = Freed(lease, p)
    /\ UNCHANGED <<lockFile, stateDir, state, names, drawn>>

PowerLoss ==
    /\ Accident("loss")
    /\ \E s \in [Tokens -> UNION {stOld[t] : t \in Tokens}],
          a \in [Tokens -> UNION {atOld[t] : t \in Tokens}] :
        /\ \A t \in Tokens : s[t] \in stOld[t] /\ a[t] \in atOld[t]
        /\ st' = s /\ stOld' = [t \in Tokens |-> {s[t]}]
        /\ stateDir' = (stateDir \/ \E t \in Tokens : s[t] # NoFiles)
        /\ at' = a /\ atOld' = [t \in Tokens |-> {a[t]}]
    /\ pc' = [p \in Procs |-> "idle"] /\ job' = [p \in Procs |-> NoJob]
    /\ registry' = None
    /\ flock' = [i \in Inodes |-> None] /\ lease' = [t \in Tokens |-> None]
    /\ UNCHANGED <<lockFile, touched, drawn>>

(* Somebody else puts something at a name, or takes what bears it.          *)
Interfere ==
    /\ Accident("foreign")
    /\ \E t \in drawn, name \in {"orig", "clean"}, what \in {"none", "foreign"} :
        LET new == [at[t] EXCEPT ![name] = what]
        IN  /\ at[t] # new
            /\ at' = [at EXCEPT ![t] = new]
            /\ atOld' = [atOld EXCEPT ![t] = @ \cup {new}]
            /\ touched' = touched \cup {t}
    /\ UNCHANGED <<pc, job, kernel, state, drawn>>

---------------------------------------------------------------------------
Init ==
    /\ pc = [p \in Procs |-> "idle"] /\ job = [p \in Procs |-> NoJob]
    /\ registry = None /\ lockFile = None /\ stateDir = FALSE
    /\ flock = [i \in Inodes |-> None] /\ lease = [t \in Tokens |-> None]
    /\ st = [t \in Tokens |-> NoFiles] /\ stOld = [t \in Tokens |-> {NoFiles}]
    /\ at = [t \in Tokens |-> Absent] /\ atOld = [t \in Tokens |-> {Absent}]
    /\ touched = {} /\ drawn = {} /\ happened = {} /\ budget \in Budgets

Locking(p) == \/ EnterLock(p) \/ TryDestinationLock(p) \/ EnterUnlock(p)
              \/ PruneOwner(p) \/ PruneOrphan(p) \/ Pruned(p)
              \/ PruneLockFile(p) \/ RemoveStateDir(p)
Recovering(p) == EnterList(p) \/ Claim(p) \/ Recovered(p)
Journaling(p) == \/ WriteJournal(p) \/ PublishJournal(p) \/ SyncJournal(p)
                 \/ TrimJournals(p) \/ SyncTrim(p) \/ Journaled(p)
Creating(p) == \/ EnterCreate(p) \/ CreateMarker(p) \/ TakeLease(p) \/ SyncLease(p)
               \/ MakeStage(p) \/ MakeChild(p) \/ PublishSibling(p) \/ RemoveStage(p)
               \/ SyncCreate(p) \/ BindIdentity(p) \/ WorkDone(p)
Cleaning(p) == \/ AcquireDirectory(p) \/ Refuse(p) \/ CheckDetach(p) \/ Detach(p)
               \/ SyncDetach(p) \/ EmptyTree(p) \/ RemoveTree(p) \/ SyncRemove(p)
               \/ EnterRetire(p) \/ UnlinkMarker(p) \/ SyncUnlink(p) \/ RemoveJournals(p)
Step(p) == \/ Locking(p) \/ Recovering(p) \/ Journaling(p) \/ Creating(p) \/ Cleaning(p)
           \/ JournalFails(p) \/ CreationFails(p)
Next == \/ \E p \in Procs : Step(p) \/ Kill(p) \/ \E cmd \in Commands : Start(p, cmd)
        \/ PowerLoss \/ Interfere
Spec == Init /\ [][Next]_vars

(* Every lock is polled: a waiter that sleeps 50 ms between two attempts    *)
(* eventually meets a registry that is held for microseconds.  Failures are *)
(* accidents, which nothing forces.                                         *)
Progress(p) == Step(p) /\ UNCHANGED env
FairSpec == Spec /\ \A p \in Procs : SF_vars(Progress(p))
============================================================================
