----------------------------- MODULE OwnedProofs -----------------------------
(***************************************************************************)
(* Proofs about OwnedTransactions.                                         *)
(*                                                                         *)
(* The destination lock excludes.  The invariant is about inodes: only the *)
(* one that bears the name is ever locked, so a lock file made again can   *)
(* be locked only when no lock on the deleted one is left.                 *)
(*                                                                         *)
(* Owners are alone, and a directory that is not ours is never removed.    *)
(* The invariant says what a process at a label knows of its token, and    *)
(* that two processes know of different tokens: either one holds the lease *)
(* of its own, or is the only one that can come to it.                     *)
(***************************************************************************)
EXTENDS OwnedSafety, FiniteSetTheorems, TLAPS

(* The locals of a process are a record with these fields.                 *)
Fields == {"cmd", "tok", "fresh", "todo", "loc", "gen", "part", "dirty", "next"}
(* Before the destination lock is taken, and while it is being released.   *)
Outside == {"idle", "lock", "lock_open"}
Releasing == {"prune", "entries", "rmdir_state"}

(* What the variables are as functions, as far as the argument needs it.   *)
Shaped ==
    /\ DOMAIN pc = Procs /\ DOMAIN job = Procs
    /\ \A p \in Procs : DOMAIN job[p] = Fields
    /\ flock \in [Inodes -> OrNone(Procs)] /\ lockFile \in OrNone(Inodes)
(* A process that releases the lock is past everything but the pruning.    *)
Leaving == \A p \in Procs :
    job[p].part = "leaving" => pc[p] \in Releasing /\ job[p].next = "entries"
(* Nobody holds the lock of a file that was deleted.                       *)
NamedOnly == \A i \in Inodes : flock[i] # None => i = lockFile
(* Whoever is past the lock holds that of the file that has the name now.  *)
Holds == \A p \in Procs : Locked(p) => lockFile # None /\ flock[lockFile] = p
LockInv == Shaped /\ Leaving /\ NamedOnly /\ Holds

(* Only p moves, and within the command it runs.                           *)
OnlyMoves(p) ==
    /\ DOMAIN pc' = Procs /\ DOMAIN job' = Procs
    /\ DOMAIN job'[p] = Fields
    /\ \A q \in Procs \ {p} : pc'[q] = pc[q] /\ job'[q] = job[q]
KeepsLock == UNCHANGED <<lockFile, flock>>
Moved(p) ==
    /\ KeepsLock /\ OnlyMoves(p)
    /\ pc'[p] = "idle" \/ job'[p].cmd = job[p].cmd
    /\ job'[p].part # "leaving"

(* The invariant gives mutual exclusion: one inode has one holder.         *)
LEMMA LockInvExcludes == LockInv => DestinationExclusive
BY DEF LockInv, Holds, DestinationExclusive

(* At the start nobody is past the lock.                                   *)
LEMMA LockInit == Init => LockInv
BY DEF Init, LockInv, Shaped, Leaving, NamedOnly, Holds, Locked, OrNone, NoJob, Fields

(* A step of one process that leaves the lock alone keeps the invariant,   *)
(* unless it takes the process past the lock or back from its release.     *)
LEMMA Kept ==
    ASSUME LockInv, NEW p \in Procs, KeepsLock, OnlyMoves(p),
           Locked(p)' => Locked(p),
           job'[p].part = "leaving" => pc'[p] \in Releasing /\ job'[p].next = "entries"
    PROVE  LockInv'
<1>1. Shaped'
    BY DEF LockInv, Shaped, KeepsLock, OnlyMoves
<1>2. Leaving'
    BY DEF LockInv, Leaving, OnlyMoves
<1>3. NamedOnly'
    BY DEF LockInv, NamedOnly, KeepsLock
<1>4. Holds'
  <2>1. \A q \in Procs \ {p} : Locked(q)' => Locked(q)
    BY DEF Locked, OnlyMoves
  <2> QED BY <2>1 DEF LockInv, Holds, KeepsLock
<1> QED BY <1>1, <1>2, <1>3, <1>4 DEF LockInv

(* So does a process inside that moves on inside, or ends.                 *)
LEMMA MovedKeeps ==
    ASSUME LockInv, NEW p \in Procs, pc[p] \notin Outside \cup Releasing, Moved(p)
    PROVE  LockInv'
<1>1. job[p].part # "leaving"
    BY DEF LockInv, Leaving
<1>2. Locked(p)' => Locked(p)
    BY <1>1 DEF Locked, Moved, Outside
<1> QED BY <1>2, Kept DEF Moved

(* A step that starts inside and moves.                                    *)
Inside(p) == pc[p] \notin Outside \cup Releasing

(* Every step of listing and claiming leases is one of these.              *)
LEMMA RecoveringMoves ==
    ASSUME LockInv, NEW p \in Procs, Recovering(p)
    PROVE  Inside(p) /\ Moved(p)
<1> USE DEF Inside, Moved, KeepsLock, OnlyMoves, LockInv, Shaped, Leaving, Outside,
        Releasing, Fields, NoJob, Goto, GotoWith, Leave, Finish, Fail, kernel
<1>1. CASE EnterList(p)
    BY <1>1 DEF EnterList
<1>2. CASE Claim(p)
  <2>1. /\ pc[p] = "claim" /\ UNCHANGED <<lockFile, flock>>
        /\ DOMAIN job[p] = Fields /\ job[p].part # "leaving"
    BY <1>2 DEF Claim
  <2> HIDE DEF GotoWith, Fail
  <2>2. PICK t \in job[p].todo :
            \/ \E rest : GotoWith(p, "claim", [job[p] EXCEPT !.todo = rest])
            \/ Fail(p)
            \/ \E rest, l, g : GotoWith(p, "acquire",
                   [job[p] EXCEPT !.todo = rest, !.tok = t, !.loc = l, !.gen = g])
    BY <1>2 DEF Claim
  <2>3. CASE \E rest : GotoWith(p, "claim", [job[p] EXCEPT !.todo = rest])
    BY <2>1, <2>3 DEF GotoWith
  <2>4. CASE Fail(p)
    BY <2>1, <2>4 DEF GotoWith, Fail
  <2>5. CASE \E rest, l, g : GotoWith(p, "acquire",
                   [job[p] EXCEPT !.todo = rest, !.tok = t, !.loc = l, !.gen = g])
    BY <2>1, <2>5 DEF GotoWith
  <2> QED BY <2>2, <2>3, <2>4, <2>5
<1>3. CASE Recovered(p)
    BY <1>3 DEF Recovered
<1> QED BY <1>1, <1>2, <1>3 DEF Recovering

(* Every step of publishing a journal is one of these.                     *)
LEMMA JournalingMoves ==
    ASSUME LockInv, NEW p \in Procs, Journaling(p)
    PROVE  Inside(p) /\ Moved(p)
<1> USE DEF Inside, Moved, KeepsLock, OnlyMoves, LockInv, Shaped, Leaving, Outside,
        Releasing, Fields, NoJob, Goto, GotoWith, Leave, Finish, Fail, kernel
<1>1. CASE WriteJournal(p)
    BY <1>1 DEF WriteJournal
<1>2. CASE PublishJournal(p)
    BY <1>2 DEF PublishJournal
<1>3. CASE SyncJournal(p)
    BY <1>3 DEF SyncJournal
<1>4. CASE TrimJournals(p)
    BY <1>4 DEF TrimJournals
<1>5. CASE SyncTrim(p)
    BY <1>5 DEF SyncTrim
<1>6. CASE Journaled(p)
    BY <1>6 DEF Journaled
<1> QED BY <1>1, <1>2, <1>3, <1>4, <1>5, <1>6 DEF Journaling

(* Every step of creating a sibling is one of these.                       *)
LEMMA CreatingMoves ==
    ASSUME LockInv, NEW p \in Procs, Creating(p)
    PROVE  Inside(p) /\ Moved(p)
<1> USE DEF Inside, Moved, KeepsLock, OnlyMoves, LockInv, Shaped, Leaving, Outside,
        Releasing, Fields, NoJob, Goto, GotoWith, Leave, Finish, Fail, kernel
<1>1. CASE EnterCreate(p)
    BY <1>1 DEF EnterCreate
<1>2. CASE CreateMarker(p)
    BY <1>2 DEF CreateMarker
<1>3. CASE TakeLease(p)
    BY <1>3 DEF TakeLease
<1>4. CASE SyncLease(p)
    BY <1>4 DEF SyncLease
<1>5. CASE MakeStage(p)
    BY <1>5 DEF MakeStage
<1>6. CASE MakeChild(p)
    BY <1>6 DEF MakeChild
<1>7. CASE PublishSibling(p)
    BY <1>7 DEF PublishSibling
<1>8. CASE RemoveStage(p)
    BY <1>8 DEF RemoveStage
<1>9. CASE SyncCreate(p)
    BY <1>9 DEF SyncCreate
<1>10. CASE BindIdentity(p)
    BY <1>10 DEF BindIdentity
<1>11. CASE WorkDone(p)
    BY <1>11 DEF WorkDone
<1> QED BY <1>1, <1>2, <1>3, <1>4, <1>5, <1>6, <1>7, <1>8, <1>9, <1>10, <1>11 DEF Creating

(* Every step of cleaning a sibling up is one of these.                    *)
LEMMA CleaningMoves ==
    ASSUME LockInv, NEW p \in Procs, Cleaning(p)
    PROVE  Inside(p) /\ Moved(p)
<1> USE DEF Inside, Moved, KeepsLock, OnlyMoves, LockInv, Shaped, Leaving, Outside,
        Releasing, Fields, NoJob, Goto, GotoWith, Leave, Finish, Fail, kernel
<1>1. CASE AcquireDirectory(p)
    BY <1>1 DEF AcquireDirectory
<1>2. CASE Refuse(p)
    BY <1>2 DEF Refuse
<1>3. CASE CheckDetach(p)
    BY <1>3 DEF CheckDetach
<1>4. CASE Detach(p)
    BY <1>4 DEF Detach
<1>5. CASE SyncDetach(p)
    BY <1>5 DEF SyncDetach
<1>6. CASE EmptyTree(p)
    BY <1>6 DEF EmptyTree
<1>7. CASE RemoveTree(p)
    BY <1>7 DEF RemoveTree
<1>8. CASE SyncRemove(p)
    BY <1>8 DEF SyncRemove
<1>9. CASE EnterRetire(p)
    BY <1>9 DEF EnterRetire
<1>10. CASE UnlinkMarker(p)
    BY <1>10 DEF UnlinkMarker
<1>11. CASE SyncUnlink(p)
    BY <1>11 DEF SyncUnlink
<1>12. CASE RemoveJournals(p)
    BY <1>12 DEF RemoveJournals
<1> QED BY <1>1, <1>2, <1>3, <1>4, <1>5, <1>6, <1>7, <1>8, <1>9, <1>10, <1>11, <1>12 DEF Cleaning

(* So is a failure while a journal is published or a directory made.       *)
LEMMA FailureMoves ==
    ASSUME LockInv, NEW p \in Procs, JournalFails(p) \/ CreationFails(p)
    PROVE  Inside(p) /\ Moved(p)
<1> USE DEF Inside, Moved, KeepsLock, OnlyMoves, LockInv, Shaped, Leaving, Outside,
        Releasing, Fields, NoJob, Goto, GotoWith, Leave, Finish, Fail, kernel
<1>1. CASE JournalFails(p)
    BY <1>1 DEF JournalFails
<1>2. CASE CreationFails(p)
    BY <1>2 DEF CreationFails
<1> QED BY <1>1, <1>2

(* A process that takes the lock holds that of the file that has the name: *)
(* if the file is new, no lock is held, and any inode will do.             *)
LEMMA LockTaken ==
    ASSUME LockInv, NEW p \in Procs, TryDestinationLock(p)
    PROVE  LockInv'
<1>1. /\ DOMAIN pc' = Procs /\ UNCHANGED job /\ pc[p] = "lock_open"
      /\ \A q \in Procs \ {p} : pc'[q] = pc[q]
    BY DEF TryDestinationLock, LockInv, Shaped, Goto
<1>2. None \notin Inodes /\ None \notin Procs
    BY TokensAssumption
<1>3. lockFile' \in Inodes /\ (lockFile # None => lockFile' = lockFile)
  <2>1. CASE lockFile # None
    BY <2>1 DEF TryDestinationLock, LockInv, Shaped, OrNone
  <2>2. CASE lockFile = None
    <3>1. \A i \in Inodes : flock[i] = None
        BY <1>2, <2>2 DEF LockInv, NamedOnly
    <3>2. Inodes # {}
        BY InodesAssumption
    <3> QED BY <2>2, <3>1, <3>2 DEF TryDestinationLock
  <2> QED BY <2>1, <2>2
<1>4. CASE flock[lockFile'] = None
  <2>1. flock' = [flock EXCEPT ![lockFile'] = p]
    BY <1>4 DEF TryDestinationLock
  <2>2. Shaped'
    BY <1>1, <1>3, <2>1 DEF LockInv, Shaped, OrNone
  <2>3. NamedOnly'
    BY <1>2, <1>3, <2>1 DEF LockInv, NamedOnly, Shaped
  <2>4. Leaving'
    BY <1>1 DEF LockInv, Leaving, Releasing
  <2>5. \A q \in Procs \ {p} : ~Locked(q)
    BY <1>2, <1>3, <1>4 DEF LockInv, Holds
  <2>6. Holds'
    BY <1>1, <1>2, <1>3, <2>1, <2>5 DEF Holds, Locked, LockInv, Shaped
  <2> QED BY <2>2, <2>3, <2>4, <2>6 DEF LockInv
<1>5. CASE flock[lockFile'] # None
  <2>1. UNCHANGED flock /\ pc' = [pc EXCEPT ![p] = "lock"]
    BY <1>5 DEF TryDestinationLock, Goto
  <2>2. lockFile' = lockFile
    BY <1>2, <1>3, <1>5 DEF LockInv, NamedOnly, Shaped
  <2>3. Shaped'
    BY <1>1, <2>1, <2>2 DEF LockInv, Shaped
  <2>4. NamedOnly' /\ Leaving'
    BY <1>1, <2>1, <2>2 DEF LockInv, NamedOnly, Leaving, Releasing
  <2>5. Holds'
    BY <1>1, <2>1, <2>2 DEF LockInv, Holds, Locked, Shaped
  <2> QED BY <2>3, <2>4, <2>5 DEF LockInv
<1> QED BY <1>4, <1>5

(* A process may free the lock it holds once it is no longer past it.      *)
LEMMA LockFreed ==
    ASSUME LockInv, NEW p \in Procs, OnlyMoves(p), ~Locked(p)',
           job'[p].part = "leaving" => pc'[p] \in Releasing /\ job'[p].next = "entries",
           flock' = Freed(flock, p), UNCHANGED lockFile
    PROVE  LockInv'
<1>1. flock' \in [Inodes -> OrNone(Procs)]
    BY DEF LockInv, Shaped, Freed, OrNone
<1>2. \A i \in Inodes : flock'[i] = IF flock[i] = p THEN None ELSE flock[i]
    BY DEF LockInv, Shaped, Freed
<1>3. Shaped'
    BY <1>1 DEF LockInv, Shaped, OnlyMoves
<1>4. Leaving'
    BY DEF LockInv, Leaving, OnlyMoves
<1>5. NamedOnly'
    BY <1>2 DEF LockInv, NamedOnly
<1>6. Holds'
  <2>1. \A q \in Procs \ {p} : Locked(q)' => Locked(q)
    BY DEF Locked, OnlyMoves
  <2> QED BY <1>2, <2>1 DEF LockInv, Holds, Shaped, OrNone
<1> QED BY <1>3, <1>4, <1>5, <1>6 DEF LockInv

(* What a process does after pruning: it goes on inside or it ends.        *)
LEMMA AfterPruneMoves ==
    ASSUME LockInv, NEW p \in Procs, pc[p] \in {"entries", "rmdir_state"}, AfterPrune(p)
    PROVE  OnlyMoves(p) /\ (Locked(p)' => Locked(p)) /\ job'[p].part # "leaving"
<1>1. DOMAIN pc = Procs /\ DOMAIN job = Procs /\ DOMAIN job[p] = Fields
    BY DEF LockInv, Shaped
<1>2. CASE job[p].part = "recovering"
    BY <1>1, <1>2 DEF AfterPrune, Goto, OnlyMoves, Locked
<1>3. CASE job[p].part = "owning"
    BY <1>1, <1>3 DEF AfterPrune, Finish, Leave, Goto, GotoWith, OnlyMoves, Locked, NoJob, Fields
<1>4. CASE job[p].part \notin {"recovering", "owning"}
    BY <1>1, <1>4 DEF AfterPrune, Leave, GotoWith, OnlyMoves, Locked, NoJob, Fields
<1> QED BY <1>2, <1>3, <1>4

(* The lock file is deleted only when no other process holds its lock.     *)
LEMMA LockFilePruned ==
    ASSUME LockInv, NEW p \in Procs, PruneLockFile(p)
    PROVE  LockInv'
<1>1. /\ DOMAIN pc = Procs /\ DOMAIN job = Procs /\ DOMAIN job[p] = Fields
      /\ pc[p] = "entries" /\ flock \in [Inodes -> OrNone(Procs)]
      /\ None \notin Procs /\ None \notin Inodes
    BY TokensAssumption DEF PruneLockFile, LockInv, Shaped
<1>2. CASE OnlyLockFile /\ MayPruneLock(p)
  <2>1. /\ lockFile' = None /\ pc' = [pc EXCEPT ![p] = "rmdir_state"] /\ UNCHANGED job
        /\ flock' = IF job[p].part = "leaving" THEN Freed(flock, p) ELSE flock
    BY <1>2 DEF PruneLockFile, Goto
  <2>2. \A i \in Inodes : flock[i] \in {None, IF job[p].part = "leaving" THEN p ELSE None}
    BY <1>1, <1>2 DEF MayPruneLock, LockInv, NamedOnly
  <2>3. \A i \in Inodes : flock'[i] = None
    BY <1>1, <2>1, <2>2 DEF Freed
  <2>4. flock' \in [Inodes -> OrNone(Procs)]
    BY <1>1, <2>1 DEF Freed, OrNone
  <2>5. Shaped' /\ NamedOnly' /\ Leaving'
    BY <1>1, <2>1, <2>3, <2>4 DEF LockInv, Shaped, NamedOnly, Leaving, Releasing, OrNone
  <2>6. \A q \in Procs : ~Locked(q)'
    <3>1. ASSUME NEW q \in Procs, Locked(q)'  PROVE FALSE
      <4>1. Locked(q) /\ job[q].part # "leaving"
        BY <1>1, <2>1, <3>1 DEF Locked
      <4>2. lockFile \in Inodes /\ flock[lockFile] = q
        BY <4>1 DEF LockInv, Holds, Shaped, OrNone
      <4> QED BY <1>1, <2>2, <4>1, <4>2
    <3> QED BY <3>1
  <2> QED BY <2>5, <2>6 DEF LockInv, Holds
<1>3. CASE ~(OnlyLockFile /\ MayPruneLock(p))
  <2>1. AfterPrune(p) /\ UNCHANGED lockFile
    BY <1>3 DEF PruneLockFile
  <2>2. OnlyMoves(p) /\ (Locked(p)' => Locked(p)) /\ job'[p].part # "leaving"
    BY <1>1, <2>1, AfterPruneMoves
  <2>3. CASE job[p].part = "leaving"
    <3>1. ~Locked(p)
        BY <2>3 DEF Locked
    <3>2. flock' = Freed(flock, p)
        BY <2>3 DEF PruneLockFile
    <3> QED BY <2>1, <2>2, <3>1, <3>2, LockFreed
  <2>4. CASE job[p].part # "leaving"
    <3>1. KeepsLock
        BY <2>1, <2>4 DEF PruneLockFile, KeepsLock
    <3> QED BY <2>2, <3>1, Kept
  <2> QED BY <2>3, <2>4
<1> QED BY <1>2, <1>3

(* Every step of the lock itself, and of the pruning, keeps the invariant. *)
LEMMA LockingKeeps ==
    ASSUME LockInv, NEW p \in Procs, Locking(p)
    PROVE  LockInv'
<1>1. DOMAIN pc = Procs /\ DOMAIN job = Procs /\ DOMAIN job[p] = Fields
    BY DEF LockInv, Shaped
<1>2. job[p].part = "leaving" => pc[p] \in Releasing /\ job[p].next = "entries"
    BY DEF LockInv, Leaving
<1>3. CASE EnterLock(p)
  <2>1. KeepsLock /\ OnlyMoves(p) /\ ~Locked(p)' /\ job'[p].part # "leaving"
    BY <1>1, <1>2, <1>3 DEF EnterLock, Goto, KeepsLock, OnlyMoves, Locked, Releasing
  <2> QED BY <2>1, Kept
<1>4. CASE TryDestinationLock(p)
    BY <1>4, LockTaken
<1>5. CASE EnterUnlock(p)
  <2>1. /\ KeepsLock /\ pc' = [pc EXCEPT ![p] = "prune"]
        /\ job' = [job EXCEPT ![p] = [@ EXCEPT !.part = "leaving", !.next = "entries"]]
    BY <1>5 DEF EnterUnlock, GotoWith, KeepsLock
  <2>2. OnlyMoves(p) /\ ~Locked(p)' /\ pc'[p] \in Releasing /\ job'[p].next = "entries"
    BY <1>1, <2>1 DEF OnlyMoves, Locked, Fields, Releasing
  <2> QED BY <2>1, <2>2, Kept
<1>6. CASE PruneOwner(p) \/ PruneOrphan(p)
  <2>1. /\ KeepsLock /\ pc[p] = "prune" /\ pc' = [pc EXCEPT ![p] = "prune"]
        /\ job' = [job EXCEPT ![p] = [@ EXCEPT !.dirty = TRUE]]
    BY <1>6 DEF PruneOwner, PruneOrphan, GotoWith, KeepsLock, kernel
  <2>2. /\ OnlyMoves(p) /\ pc'[p] = pc[p] /\ job'[p].cmd = job[p].cmd
        /\ job'[p].part = job[p].part /\ job'[p].next = job[p].next
    BY <1>1, <2>1 DEF OnlyMoves, Fields
  <2> QED BY <1>2, <2>1, <2>2, Kept DEF Locked
<1>7. CASE Pruned(p)
  <2>1. KeepsLock /\ pc[p] = "prune"
    BY <1>7 DEF Pruned, KeepsLock
  <2>2. CASE job[p].next = "entries"
    <3>1. /\ pc' = [pc EXCEPT ![p] = "entries"]
          /\ job' = [job EXCEPT ![p] = [@ EXCEPT !.dirty = FALSE]]
        BY <1>7, <2>2 DEF Pruned, GotoWith
    <3>2. /\ OnlyMoves(p) /\ pc'[p] = "entries" /\ job'[p].cmd = job[p].cmd
          /\ job'[p].part = job[p].part /\ job'[p].next = job[p].next
        BY <1>1, <3>1 DEF OnlyMoves, Fields
    <3> QED BY <1>2, <2>1, <3>2, Kept DEF Locked, Releasing
  <2>3. CASE job[p].next # "entries"
    <3>1. /\ pc' = [pc EXCEPT ![p] = "claim"]
          /\ job' = [job EXCEPT ![p] = [@ EXCEPT !.dirty = FALSE, !.todo = Markers]]
        BY <1>7, <2>3 DEF Pruned, GotoWith
    <3>2. /\ OnlyMoves(p) /\ pc'[p] = "claim" /\ job'[p].cmd = job[p].cmd
          /\ job'[p].part = job[p].part
        BY <1>1, <3>1 DEF OnlyMoves, Fields
    <3> QED BY <1>2, <2>1, <2>3, <3>2, Kept DEF Locked
  <2> QED BY <2>2, <2>3
<1>8. CASE PruneLockFile(p)
    BY <1>8, LockFilePruned
<1>9. CASE RemoveStateDir(p)
  <2>1. KeepsLock /\ pc[p] = "rmdir_state" /\ AfterPrune(p)
    BY <1>9 DEF RemoveStateDir, KeepsLock
  <2> QED BY <2>1, AfterPruneMoves, Kept
<1> QED BY <1>3, <1>4, <1>5, <1>6, <1>7, <1>8, <1>9 DEF Locking

(* A command starts before the lock, or without it.                        *)
LEMMA StartKeeps ==
    ASSUME LockInv, NEW p \in Procs, NEW cmd \in Commands, Start(p, cmd)
    PROVE  LockInv'
<1>1. KeepsLock /\ DOMAIN pc = Procs /\ DOMAIN job = Procs
    BY DEF Start, KeepsLock, kernel, LockInv, Shaped
<1>2. CASE cmd = "recover"
  <2>1. pc' = [pc EXCEPT ![p] = "list"] /\ job' = [job EXCEPT ![p] = [NoJob EXCEPT !.cmd = cmd]]
    BY <1>2 DEF Start, GotoWith
  <2>2. OnlyMoves(p) /\ ~Locked(p)' /\ job'[p].part # "leaving"
    BY <1>1, <1>2, <2>1 DEF OnlyMoves, Locked, NoJob, Fields
  <2> QED BY <1>1, <2>2, Kept
<1>3. CASE cmd # "recover"
  <2>1. PICK t : /\ pc' = [pc EXCEPT ![p] = IF cmd = "install" THEN "lock" ELSE "create"]
                 /\ job' = [job EXCEPT ![p] = [NoJob EXCEPT !.cmd = cmd, !.fresh = t]]
    BY <1>3 DEF Start, GotoWith
  <2>2. OnlyMoves(p) /\ ~Locked(p)' /\ job'[p].part # "leaving"
    BY <1>1, <2>1 DEF OnlyMoves, Locked, NoJob, Fields
  <2> QED BY <1>1, <2>2, Kept
<1> QED BY <1>2, <1>3

(* A killed process leaves every lock; a loss of power takes them all.     *)
LEMMA AccidentKeeps ==
    ASSUME LockInv, (\E p \in Procs : Kill(p)) \/ PowerLoss \/ Interfere
    PROVE  LockInv'
<1>1. ASSUME NEW p \in Procs, Kill(p)  PROVE LockInv'
  <2>1. /\ pc' = [pc EXCEPT ![p] = "idle"] /\ job' = [job EXCEPT ![p] = NoJob]
        /\ flock' = Freed(flock, p) /\ UNCHANGED lockFile
    BY <1>1 DEF Kill, Leave, GotoWith
  <2>2. OnlyMoves(p) /\ ~Locked(p)' /\ job'[p].part # "leaving"
    BY <2>1 DEF LockInv, Shaped, OnlyMoves, Locked, NoJob, Fields
  <2> QED BY <2>1, <2>2, LockFreed
<1>2. CASE PowerLoss
  <2>1. /\ pc' = [p \in Procs |-> "idle"] /\ job' = [p \in Procs |-> NoJob]
        /\ flock' = [i \in Inodes |-> None] /\ UNCHANGED lockFile
    BY <1>2 DEF PowerLoss
  <2> QED BY <2>1 DEF LockInv, Shaped, Leaving, NamedOnly, Holds, Locked, OrNone, NoJob, Fields
<1>3. CASE Interfere
    BY <1>3 DEF Interfere, kernel, LockInv, Shaped, Leaving, NamedOnly, Holds, Locked
<1> QED BY <1>1, <1>2, <1>3

(* LockInv is inductive.                                                   *)
LEMMA LockStep == LockInv /\ [Next]_vars => LockInv'
<1> SUFFICES ASSUME LockInv, [Next]_vars PROVE LockInv'
  OBVIOUS
<1>1. ASSUME NEW p \in Procs, Step(p)  PROVE LockInv'
  <2>1. CASE Locking(p)
    BY <2>1, LockingKeeps
  <2>2. CASE Recovering(p) \/ Journaling(p) \/ Creating(p) \/ Cleaning(p)
             \/ JournalFails(p) \/ CreationFails(p)
    <3>1. Inside(p) /\ Moved(p)
        BY <2>2, RecoveringMoves, JournalingMoves, CreatingMoves, CleaningMoves, FailureMoves
    <3> QED BY <3>1, MovedKeeps DEF Inside
  <2> QED BY <1>1, <2>1, <2>2 DEF Step
<1>2. CASE UNCHANGED vars
    BY <1>2 DEF vars, kernel, LockInv, Shaped, Leaving, NamedOnly, Holds, Locked
<1> QED BY <1>1, <1>2, StartKeeps, AccidentKeeps DEF Next

(* The destination lock excludes, although its file is deleted and made    *)
(* again while others wait for it: for any number of processes, siblings,  *)
(* commands and accidents, no two installers are ever between              *)
(* _try_destination_lock and _release_destination_lock.                    *)
THEOREM DestinationLockExcludes == Spec => []DestinationExclusive
<1>1. Spec => []LockInv
    BY LockInit, LockStep, PTL DEF Spec
<1> QED BY <1>1, LockInvExcludes, PTL
---------------------------------------------------------------------------
(* One owner *)

(* The steps that announce a sibling, publish a journal, make the directory, *)
(* and close the lease for good; while Publishing the first journal, while  *)
(* Opening and while Closing the registry is held.                          *)
Opening == {"marker", "lease"}
Publishing == {"tmp", "publish", "publish_sync", "trim", "trim_sync", "journaled"}
Making == {"stage", "child", "rename", "unstage", "create_sync", "bind"}
Moving == {"detach", "move", "moved"}
Closing == {"unlink", "unlink_sync", "files"}
Leased == Acting \ (Opening \cup Closing)
Registered(label, j) ==
    \/ label \in {"lock_open", "prune", "entries", "rmdir_state", "lease_sync"}
                    \cup Opening \cup Closing
    \/ label \in Publishing /\ j.loc = "creating"
(* A token is drawn and waits for its turn to be made a sibling.            *)
Waiting(j) == j.part = "recovering" /\ j.fresh # None

(* The journal of a location has at most its number as generation.          *)
Rank == [creating |-> 1, original |-> 2, detaching |-> 3, cleanup |-> 4]
Ranked(s) == s \in Files /\ \A g \in Gens : s.jr[g] # None => g <= Rank[s.jr[g]]

(* What the locals of a process are at each label.                          *)
Local(label, j) ==
    /\ label \in Labels /\ j \in JobRecords
    /\ label \in Acting => j.tok \in Tokens /\ j.loc \in Locations /\ j.gen <= Rank[j.loc]
    /\ label \in Opening \cup {"lease_sync"} \cup Publishing => j.gen < Rank[j.loc]
    /\ label \in Opening \cup {"lease_sync"} \cup Making => j.loc = "creating"
    /\ label \in Moving => j.loc = "detaching"
    /\ label = "create" \/ (label # "idle" /\ j.cmd = "install") => j.fresh # None
    /\ label \in {"lock", "lock_open", "list", "claim", "create"} => j.part = "recovering"
    /\ label = "prune" /\ j.next # "entries" => j.part = "recovering"
(* and what of the locks and files it may rely on there.                    *)
Knows(p) ==
    LET t == job[p].tok
    IN  /\ Registered(pc[p], job[p]) => registry = p
        /\ pc[p] \in Leased => lease[t] = p /\ st[t].marker = "lease"
        /\ pc[p] \in Opening \cup Closing => lease[t] = None
        /\ pc[p] = "publish" => st[t].tmp > 0
        /\ Waiting(job[p]) => /\ lease[job[p].fresh] = None
                              /\ st[job[p].fresh].marker = "none"

FilesOK ==
    /\ DOMAIN st = Tokens /\ DOMAIN stOld = Tokens
    /\ \A t \in Tokens : st[t] \in stOld[t] /\ \A s \in stOld[t] : Ranked(s)
    /\ \A t \in Tokens \ drawn : \A s \in stOld[t] : s.marker = "none"
NamesOK ==
    /\ DOMAIN at = Tokens /\ DOMAIN atOld = Tokens
    /\ \A t \in Tokens : at[t] \in atOld[t] /\ atOld[t] \subseteq Names
    /\ touched \subseteq drawn
LocksOK ==
    /\ registry \in OrNone(Procs) /\ stateDir \in BOOLEAN
    /\ lease \in [Tokens -> OrNone(Procs)] /\ \A t \in Tokens \ drawn : lease[t] = None
    /\ drawn \subseteq Tokens
Disk == FilesOK /\ NamesOK /\ LocksOK
(* A token that waits is nobody else's.                                     *)
Apart ==
    /\ \A p \in Procs : {job[p].tok, job[p].fresh} \subseteq OrNone(drawn)
    /\ \A p, q \in Procs : Waiting(job[p]) =>
           /\ job[q].tok # job[p].fresh
           /\ p # q => job[q].fresh # job[p].fresh
OwnerInv ==
    /\ LockInv /\ Disk /\ Apart
    /\ pc \in [Procs -> Labels] /\ job \in [Procs -> JobRecords]
    /\ \A p \in Procs : Local(pc[p], job[p]) /\ Knows(p)

(* Whoever acts without a lease has the registry, so that nobody claims it. *)
LEMMA OwnersApart == OwnerInv => OneOwner
<1> SUFFICES ASSUME OwnerInv, NEW p \in Procs, NEW q \in Procs, pc[p] \in Acting,
                    pc[q] \in Acting, job[p].tok = job[q].tok
             PROVE  p = q
  BY DEF OneOwner
<1>0. None \notin Procs
  BY TokensAssumption
<1>1. ASSUME NEW r \in Procs, pc[r] \in Acting
      PROVE  \/ lease[job[r].tok] = r
             \/ lease[job[r].tok] = None /\ registry = r
  BY <1>1 DEF OwnerInv, Knows, Leased, Registered
<1> QED BY <1>0, <1>1

(* Only p moves.                                                            *)
Moves(p) == /\ pc' = [pc EXCEPT ![p] = pc'[p]] /\ job' = [job EXCEPT ![p] = job'[p]]
(* It takes the registry when it is free, frees its own leases, and takes   *)
(* those that nobody holds, of files made before or of a sibling it makes.  *)
TakesLocks(p) ==
    /\ registry' = registry \/ registry \in {None, p}
    /\ \A t \in Tokens :
        \/ lease'[t] = lease[t]
        \/ lease[t] = p /\ lease'[t] = None
        \/ /\ lease[t] = None /\ registry \in {None, p}
           /\ st[t].marker = "lease" \/ (pc[p] = "lease" /\ t = job[p].tok)
(* It changes the files of the sibling it is at work on, and removes others *)
(* that nobody holds.                                                       *)
WritesFiles(p) ==
    \A t \in Tokens :
        \/ st'[t] = st[t]
        \/ pc[p] \in Acting /\ t = job[p].tok
        \/ st'[t].marker = "none" /\ (lease[t] = None \/ st[t].marker = "none")
(* Its token stays, goes, is one that has files, or is the one that waited. *)
Binds(p) ==
    \/ job'[p] = NoJob
    \/ /\ job'[p].fresh = job[p].fresh /\ (Waiting(job'[p]) => Waiting(job[p]))
       /\ \/ job'[p].tok = job[p].tok
          \/ job'[p].tok \in Tokens /\ st[job'[p].tok].marker # "none"
          \/ Waiting(job[p]) /\ ~Waiting(job'[p]) /\ job'[p].tok = job[p].fresh
Sound(p) ==
    /\ drawn' = drawn /\ Moves(p) /\ TakesLocks(p) /\ WritesFiles(p) /\ Binds(p)
    /\ Disk' /\ Local(pc'[p], job'[p]) /\ Knows(p)'

(* What another process does leaves what q knows.                           *)
LEMMA OthersKeepKnowing ==
    ASSUME OwnerInv, NEW p \in Procs, NEW q \in Procs, q # p,
           Moves(p), TakesLocks(p), WritesFiles(p)
    PROVE  Knows(q)'
<1>0. /\ None \notin Procs /\ None \notin Tokens
      /\ pc'[q] = pc[q] /\ job'[q] = job[q] /\ job[q] \in JobRecords
      /\ Knows(q) /\ Local(pc[q], job[q])
      /\ \A t \in Tokens : lease[t] \in OrNone(Procs)
  BY TokensAssumption DEF Moves, OwnerInv, Disk, LocksOK
<1>1. Registered(pc[q], job[q]) => registry = q /\ registry' = q
  BY <1>0 DEF Knows, TakesLocks
<1>2. ASSUME pc[q] \in Acting
      PROVE  job[q].tok \in Tokens /\ (pc[p] \in Acting => job[q].tok # job[p].tok)
  BY <1>0, <1>2, OwnersApart DEF OneOwner, Local
<1>3. ASSUME pc[q] \in Leased
      PROVE  lease'[job[q].tok] = q /\ st'[job[q].tok] = st[job[q].tok]
  <2>1. pc[q] \in Acting /\ lease[job[q].tok] = q /\ st[job[q].tok].marker = "lease"
    BY <1>0, <1>3 DEF Knows, Leased
  <2> QED BY <1>0, <1>2, <2>1 DEF TakesLocks, WritesFiles
<1>4. ASSUME pc[q] \in Opening \cup Closing
      PROVE  lease'[job[q].tok] = None
  <2>1. pc[q] \in Acting /\ lease[job[q].tok] = None /\ registry = q
    BY <1>0, <1>4 DEF Knows, Opening, Closing, Acting, Registered
  <2> QED BY <1>0, <1>2, <2>1 DEF TakesLocks
<1>5. ASSUME Waiting(job[q])
      PROVE  lease'[job[q].fresh] = None /\ st'[job[q].fresh].marker = "none"
  <2>1. /\ lease[job[q].fresh] = None /\ st[job[q].fresh].marker = "none"
        /\ job[p].tok # job[q].fresh
    BY <1>0, <1>5 DEF Knows, OwnerInv, Apart
  <2>2. job[q].fresh \in Tokens
    BY <1>0, <1>5 DEF Waiting, JobRecords, OrNone
  <2> QED BY <1>0, <2>1, <2>2 DEF TakesLocks, WritesFiles
<1>6. pc[q] = "publish" => st'[job[q].tok] = st[job[q].tok]
  BY <1>3 DEF Leased, Opening, Closing, Acting
<1> QED BY <1>0, <1>1, <1>3, <1>4, <1>5, <1>6 DEF Knows

(* and tokens that wait are still nobody else's.                            *)
LEMMA TokensStayApart ==
    ASSUME OwnerInv, NEW p \in Procs, drawn' = drawn, Moves(p), Binds(p)
    PROVE  Apart'
<1>0. /\ None \notin Tokens /\ Apart /\ job \in [Procs -> JobRecords] /\ DOMAIN job' = Procs
      /\ \A q \in Procs : q # p => job'[q] = job[q]
      /\ \A t \in Tokens \ drawn : st[t].marker = "none"
  BY TokensAssumption DEF OwnerInv, Moves, Disk, FilesOK
<1>1. \A q \in Procs : Waiting(job[q]) => st[job[q].fresh].marker = "none"
  BY DEF OwnerInv, Knows
<1>2. \A q \in Procs : {job'[q].tok, job'[q].fresh} \subseteq OrNone(drawn')
  BY <1>0 DEF Apart, Binds, NoJob, OrNone
<1>3. ASSUME NEW q \in Procs, NEW r \in Procs, Waiting(job'[q])
      PROVE  /\ job'[r].tok # job'[q].fresh
             /\ q # r => job'[r].fresh # job'[q].fresh
  <2>1. Waiting(job[q]) /\ job'[q].fresh = job[q].fresh
    BY <1>0, <1>3 DEF Binds, Waiting, NoJob
  <2>2. job[q].fresh # None /\ st[job[q].fresh].marker = "none"
    BY <1>1, <2>1 DEF Waiting
  <2>3. q # r => job'[r].fresh # job'[q].fresh
    BY <1>0, <2>1, <2>2 DEF Apart, Binds, NoJob
  <2>4. job'[r].tok # job'[q].fresh
    BY <1>0, <1>3, <2>1, <2>2 DEF Apart, Binds, NoJob
  <2> QED BY <2>3, <2>4
<1> QED BY <1>2, <1>3 DEF Apart

(* So a sound step keeps the invariant.                                     *)
LEMMA SoundKeeps ==
    ASSUME OwnerInv, LockInv', NEW p \in Procs, Sound(p)
    PROVE  OwnerInv'
<1>1. pc' \in [Procs -> Labels] /\ job' \in [Procs -> JobRecords]
  BY DEF OwnerInv, Sound, Moves, Local
<1>2. ASSUME NEW q \in Procs  PROVE Local(pc'[q], job'[q]) /\ Knows(q)'
  <2>1. CASE q = p
    BY <2>1 DEF Sound
  <2>2. CASE q # p
    <3>1. pc'[q] = pc[q] /\ job'[q] = job[q]
      BY <2>2 DEF Sound, Moves, OwnerInv
    <3> QED BY <2>2, <3>1, OthersKeepKnowing DEF Sound, OwnerInv
  <2> QED BY <2>1, <2>2
<1> QED BY <1>1, <1>2, TokensStayApart DEF OwnerInv, Sound

(* It holds at the start.                                                   *)
LEMMA OwnerInit == Init => OwnerInv
<1> SUFFICES ASSUME Init PROVE OwnerInv
  OBVIOUS
<1>1. Disk
  <2>1. Ranked(NoFiles) /\ NoFiles.marker = "none"
    BY DEF Ranked, Files, NoFiles, NoJournal, OrNone
  <2>2. FilesOK
    BY <2>1 DEF Init, FilesOK
  <2>3. NamesOK
    BY DEF Init, NamesOK, Names, Absent
  <2>4. LocksOK
    BY DEF Init, LocksOK, OrNone
  <2> QED BY <2>2, <2>3, <2>4 DEF Disk
<1>2. pc \in [Procs -> Labels] /\ job \in [Procs -> JobRecords]
  BY DEF Init, Labels, Idle, JobRecords, NoJob, OrNone
<1>3. ASSUME NEW p \in Procs  PROVE Local(pc[p], job[p]) /\ Knows(p)
  <2>1. pc[p] = "idle" /\ job[p] = NoJob /\ job[p] \in JobRecords /\ pc[p] \in Labels
    BY <1>2 DEF Init
  <2> QED BY <2>1 DEF Local, Knows, NoJob, Waiting, Registered, Acting, Opening, Publishing,
     Making, Moving, Closing, Leased
<1>4. Apart
  BY DEF Init, Apart, NoJob, Waiting, OrNone
<1> QED BY <1>1, <1>2, <1>3, <1>4, LockInit DEF OwnerInv

(* A write, and a sync, of the files of a state directory                   *)
LEMMA FilesWritten ==
    ASSUME FilesOK, NEW t \in Tokens, NEW new, WriteFiles(t, new), Ranked(new),
           t \in drawn \/ new.marker = "none", drawn' = drawn
    PROVE  /\ FilesOK' /\ st'[t] = new
           /\ \A u \in Tokens : u # t => st'[u] = st[u]
<1>1. /\ st' = [st EXCEPT ![t] = new] /\ stOld' = [stOld EXCEPT ![t] = @ \cup {new}]
      /\ DOMAIN st = Tokens /\ DOMAIN stOld = Tokens
  BY DEF WriteFiles, FilesOK
<1>2. \A u \in Tokens : /\ st'[u] = IF u = t THEN new ELSE st[u]
                        /\ stOld'[u] = IF u = t THEN stOld[u] \cup {new} ELSE stOld[u]
  BY <1>1
<1> QED BY <1>1, <1>2 DEF FilesOK

LEMMA FilesSynced ==
    ASSUME FilesOK, SyncFiles, drawn' = drawn
    PROVE  FilesOK' /\ st' = st
BY DEF FilesOK, SyncFiles

(* and of the names of its sibling                                          *)
LEMMA NamesWritten ==
    ASSUME NamesOK, NEW t \in Tokens, NEW new \in Names, WriteNames(t, new), drawn' = drawn
    PROVE  NamesOK'
<1>1. /\ at' = [at EXCEPT ![t] = new] /\ atOld' = [atOld EXCEPT ![t] = @ \cup {new}]
      /\ DOMAIN at = Tokens /\ DOMAIN atOld = Tokens /\ touched' = touched
  BY DEF WriteNames, NamesOK
<1>2. \A u \in Tokens : /\ at'[u] = IF u = t THEN new ELSE at[u]
                        /\ atOld'[u] = IF u = t THEN atOld[u] \cup {new} ELSE atOld[u]
  BY <1>1
<1> QED BY <1>1, <1>2 DEF NamesOK

LEMMA NamesSynced ==
    ASSUME NamesOK, SyncNames, drawn' = drawn
    PROVE  NamesOK'
BY DEF NamesOK, SyncNames

(* What does not change is still in order.                                  *)
LEMMA DiskKept ==
    ASSUME Disk, drawn' = drawn
    PROVE  /\ UNCHANGED state => FilesOK'
           /\ UNCHANGED names => NamesOK'
           /\ lease' = lease /\ registry' \in {registry, None} \cup Procs /\ stateDir' \in BOOLEAN
                => LocksOK'
BY DEF Disk, FilesOK, NamesOK, LocksOK, state, names, OrNone

(* What every step of a process starts from.                                *)
LEMMA At ==
    ASSUME OwnerInv, NEW p \in Procs
    PROVE  /\ pc \in [Procs -> Labels] /\ job \in [Procs -> JobRecords] /\ job[p] \in JobRecords
           /\ Local(pc[p], job[p]) /\ Knows(p) /\ Disk /\ None \notin Procs /\ None \notin Tokens
           /\ lease \in [Tokens -> OrNone(Procs)]
           /\ job[p].tok \in OrNone(drawn) /\ job[p].fresh \in OrNone(drawn) /\ drawn \subseteq Tokens
BY TokensAssumption DEF OwnerInv, Disk, LocksOK, Apart

(* Locks it lets go of are in order.                                        *)
LEMMA LeasesFreed ==
    ASSUME OwnerInv, NEW p \in Procs, lease' = Freed(lease, p)
    PROVE  /\ lease' \in [Tokens -> OrNone(Procs)]
           /\ \A t \in Tokens : lease'[t] = IF lease[t] = p THEN None ELSE lease[t]
<1>1. lease \in [Tokens -> OrNone(Procs)]
  BY At
<1> QED BY <1>1 DEF Freed, OrNone

(* A step that writes no files takes no lease: it moves on as an owner or   *)
(* as none, or lets its lease go.                                           *)
Quietly(p, label, j) ==
    /\ pc' = [pc EXCEPT ![p] = label] /\ job' = [job EXCEPT ![p] = j]
    /\ drawn' = drawn /\ FilesOK' /\ st' = st /\ NamesOK' /\ stateDir' \in BOOLEAN
    /\ registry' \in OrNone(Procs) /\ (registry' = registry \/ registry \in {None, p})
    /\ lease' = lease \/ lease' = Freed(lease, p)
    /\ \/ j = NoJob /\ label \notin Acting
       \/ /\ j.tok = job[p].tok /\ j.fresh = job[p].fresh
          /\ Waiting(j) => Waiting(job[p])
    /\ Registered(label, j) => registry' = p
    /\ label \in Leased => pc[p] \in Leased /\ lease' = lease /\ label # "publish"
    /\ label \in Opening \cup Closing => \/ pc[p] \in Opening \cup Closing
                                         \/ pc[p] \in Leased /\ lease' = Freed(lease, p)
LEMMA QuietStep ==
    ASSUME OwnerInv, NEW p \in Procs, NEW label, NEW j, Quietly(p, label, j), Local(label, j)
    PROVE  Sound(p)
<1> USE DEF Quietly
<1>0. /\ pc \in [Procs -> Labels] /\ job \in [Procs -> JobRecords] /\ job[p] \in JobRecords
      /\ Local(pc[p], job[p]) /\ Knows(p) /\ Disk /\ None \notin Procs /\ None \notin Tokens
      /\ lease \in [Tokens -> OrNone(Procs)]
  BY At
<1>1. pc'[p] = label /\ job'[p] = j /\ Moves(p)
  BY <1>0 DEF Moves
<1>2. /\ lease' \in [Tokens -> OrNone(Procs)]
      /\ \A t \in Tokens : lease'[t] = lease[t] \/ (lease[t] = p /\ lease'[t] = None)
  BY <1>0, LeasesFreed
<1>3. TakesLocks(p) /\ WritesFiles(p)
  BY <1>2 DEF TakesLocks, WritesFiles
<1>4. Binds(p)
  BY <1>1 DEF Binds
<1>5. Disk'
  BY <1>0, <1>2 DEF Disk, LocksOK
<1>6. Knows(p)'
  <2>1. label \in Leased => lease'[j.tok] = p /\ st'[j.tok].marker = "lease"
    <3>1. label \in Leased => j.tok = job[p].tok
      BY DEF Leased
    <3> QED BY <1>0, <3>1 DEF Knows
  <2>2. label \in Opening \cup Closing => lease'[j.tok] = None
    <3>1. label \in Acting => j.tok \in Tokens
      BY DEF Local
    <3>2. pc[p] \in Opening \cup Closing => lease[job[p].tok] = None
      BY <1>0 DEF Knows
    <3>3. pc[p] \in Leased => lease[job[p].tok] = p
      BY <1>0 DEF Knows
    <3>4. Opening \cup Closing \subseteq Acting /\ Leased \subseteq Acting
      BY DEF Opening, Closing, Acting, Leased
    <3> QED BY <1>2, <3>1, <3>2, <3>3, <3>4, LeasesFreed
  <2>3. Waiting(j) => lease'[j.fresh] = None /\ st'[j.fresh].marker = "none"
    <3>1. ASSUME Waiting(j)
          PROVE  j.fresh = job[p].fresh /\ j.fresh \in Tokens /\ lease[j.fresh] = None
                 /\ st[j.fresh].marker = "none"
      BY <1>0, <3>1 DEF Waiting, NoJob, Knows, JobRecords, OrNone
    <3> QED BY <1>2, <3>1
  <2>4. label # "publish"
    BY DEF Leased, Opening, Closing, Acting
  <2> QED BY <1>1, <2>1, <2>2, <2>3, <2>4 DEF Knows
<1> QED BY <1>1, <1>3, <1>4, <1>5, <1>6 DEF Sound

(* A step that writes the files of its sibling: registry and names stay.    *)
Writes(p, label, j, t, new) ==
    /\ pc[p] \in Acting /\ t = job[p].tok /\ WriteFiles(t, new)
    /\ pc' = [pc EXCEPT ![p] = label] /\ job' = [job EXCEPT ![p] = j]
    /\ drawn' = drawn /\ UNCHANGED names /\ UNCHANGED <<stateDir, registry>>
    /\ \/ lease' = lease \/ lease' = Freed(lease, p)
       \/ pc[p] = "lease" /\ lease' = [lease EXCEPT ![t] = p]
    /\ j = NoJob \/ (j.tok = t /\ j.fresh = job[p].fresh /\ (Waiting(j) => Waiting(job[p])))
    /\ label \in Acting => j # NoJob
    /\ Registered(label, j) => registry = p
    /\ label \in Leased => lease'[t] = p /\ new.marker = "lease"
    /\ label \in Opening \cup Closing => lease'[t] = None
    /\ label = "publish" => new.tmp > 0
LEMMA WritingStep ==
    ASSUME OwnerInv, NEW p \in Procs, NEW label, NEW j, NEW t, NEW new,
           Writes(p, label, j, t, new), Ranked(new), Local(label, j)
    PROVE  Sound(p)
<1> USE DEF Writes
<1>0. /\ pc \in [Procs -> Labels] /\ job \in [Procs -> JobRecords] /\ job[p] \in JobRecords
      /\ Local(pc[p], job[p]) /\ Knows(p) /\ Disk /\ None \notin Procs /\ None \notin Tokens
      /\ lease \in [Tokens -> OrNone(Procs)] /\ job[p].tok \in OrNone(drawn)
  BY At
<1>1. pc'[p] = label /\ job'[p] = j /\ Moves(p)
  BY <1>0 DEF Moves
<1>2. t \in Tokens /\ t \in drawn
  BY <1>0 DEF Local, OrNone
<1>3. FilesOK' /\ st'[t] = new /\ \A u \in Tokens : u # t => st'[u] = st[u]
  BY <1>0, <1>2, FilesWritten DEF Disk
<1>4. ASSUME pc[p] = "lease"  PROVE registry = p /\ lease[t] = None
  BY <1>0, <1>4 DEF Knows, Registered, Opening, Closing
<1>5. /\ lease' \in [Tokens -> OrNone(Procs)]
      /\ \A u \in Tokens : \/ lease'[u] = lease[u]
                           \/ lease[u] = p /\ lease'[u] = None
                           \/ u = t /\ pc[p] = "lease"
  BY <1>0, <1>2, LeasesFreed DEF OrNone
<1>6. TakesLocks(p) /\ WritesFiles(p)
  BY <1>3, <1>4, <1>5 DEF TakesLocks, WritesFiles
<1>7. Binds(p)
  BY <1>1 DEF Binds
<1>8. Disk'
  BY <1>0, <1>2, <1>3, <1>5, DiskKept DEF Disk, LocksOK
<1>9. Waiting(j) => lease'[j.fresh] = None /\ st'[j.fresh].marker = "none"
  <2>1. ASSUME Waiting(j)
        PROVE  j.fresh \in Tokens /\ j.fresh # t /\ lease[j.fresh] = None
               /\ st[j.fresh].marker = "none"
    BY <1>0, <2>1 DEF Waiting, Knows, JobRecords, OrNone, OwnerInv, Apart, NoJob
  <2> QED BY <1>0, <1>3, <1>5, <2>1
<1>10. Knows(p)'
  <2>1. label \in Acting => j.tok = t
    OBVIOUS
  <2>2. Leased \cup Opening \cup Closing \subseteq Acting /\ "publish" \in Acting
    BY DEF Leased, Opening, Closing, Acting
  <2> QED BY <1>1, <1>3, <1>9, <2>1, <2>2 DEF Knows
<1> QED BY <1>1, <1>6, <1>7, <1>8, <1>10 DEF Sound

(* Every step of the lock and of the pruning is sound.                      *)
LEMMA LockingSound ==
    ASSUME OwnerInv, NEW p \in Procs, Locking(p)
    PROVE  Sound(p)
<1>0. /\ pc \in [Procs -> Labels] /\ job \in [Procs -> JobRecords] /\ job[p] \in JobRecords
      /\ Local(pc[p], job[p]) /\ Knows(p) /\ Disk /\ None \notin Procs /\ None \notin Tokens
      /\ FilesOK /\ NamesOK /\ registry \in OrNone(Procs) /\ stateDir \in BOOLEAN
  BY At DEF Disk, LocksOK
<1>1. Registered(pc[p], job[p]) => registry = p
  BY <1>0 DEF Knows
<1> USE DEF Quietly, Registered, Opening, Publishing, Making, Moving, Closing, Leased, Acting,
            Goto, GotoWith, Enter, Exit, Waiting, OrNone
<1>2. CASE EnterLock(p)
  <2>1. Quietly(p, "lock_open", job[p])
    BY <1>0, <1>2, DiskKept DEF EnterLock, state
  <2>2. Local("lock_open", job[p])
    BY <1>0, <1>2 DEF EnterLock, Local, Labels, Idle, Serving
  <2> QED BY <2>1, <2>2, QuietStep
<1>3. CASE TryDestinationLock(p)
  <2>1. PICK label \in {"list", "lock"} : Goto(p, label)
    BY <1>3 DEF TryDestinationLock
  <2>2. Quietly(p, label, job[p])
    BY <1>0, <1>1, <1>3, <2>1, DiskKept DEF TryDestinationLock, state
  <2>3. Local(label, job[p])
    BY <1>0, <1>3, <2>1 DEF TryDestinationLock, Local, Labels, Idle, Serving
  <2> QED BY <2>2, <2>3, QuietStep
<1>4. CASE EnterUnlock(p)
  <2> DEFINE j == [job[p] EXCEPT !.part = "leaving", !.next = "entries"]
  <2>1. Quietly(p, "prune", j)
    BY <1>0, <1>4, DiskKept DEF EnterUnlock, JobRecords, state
  <2>2. Local("prune", j)
    BY <1>0, <1>4 DEF EnterUnlock, Local, Labels, Idle, Serving, JobRecords
  <2> QED BY <2>1, <2>2, QuietStep
<1>5. CASE Pruned(p)
  <2>1. /\ pc[p] = "prune" /\ registry = p /\ FilesOK' /\ st' = st
        /\ UNCHANGED <<lockFile, flock, stateDir, lease, names, drawn>>
    BY <1>0, <1>1, <1>5, FilesSynced, DiskKept DEF Pruned, state
  <2>2. CASE job[p].next = "entries"
    <3> DEFINE j == [job[p] EXCEPT !.dirty = FALSE]
    <3>1. Quietly(p, "entries", j)
      BY <1>0, <1>5, <2>1, <2>2, DiskKept DEF Pruned, JobRecords
    <3>2. Local("entries", j)
      BY <1>0, <2>1 DEF Local, Labels, Idle, Serving, JobRecords
    <3> QED BY <3>1, <3>2, QuietStep
  <2>3. CASE job[p].next # "entries"
    <3> DEFINE j == [job[p] EXCEPT !.dirty = FALSE, !.todo = Markers]
    <3>1. Quietly(p, "claim", j)
      BY <1>0, <1>5, <2>1, <2>3, DiskKept DEF Pruned, JobRecords
    <3>2. Local("claim", j)
      BY <1>0, <2>1, <2>3 DEF Local, Labels, Idle, Serving, JobRecords, Markers
    <3> QED BY <3>1, <3>2, QuietStep
  <2> QED BY <2>2, <2>3
<1>6. ASSUME pc[p] \in {"entries", "rmdir_state"}, AfterPrune(p), stateDir' \in BOOLEAN,
             UNCHANGED <<lease, state, names, drawn>>
      PROVE  Sound(p)
  <2>1. PICK label \in {"claim", "unlock", "idle"}, j \in {job[p], NoJob} :
            /\ GotoWith(p, label, j)
            /\ IF label = "idle" THEN j = NoJob ELSE j = job[p]
            /\ label = "claim" => job[p].part = "recovering"
    <3>1. \A label : Goto(p, label) => GotoWith(p, label, job[p])
      BY <1>0
    <3> HIDE DEF Goto, GotoWith
    <3>2. CASE job[p].part = "recovering"
      BY <1>6, <3>1, <3>2 DEF AfterPrune
    <3>3. CASE job[p].part # "recovering"
      <4>1. Goto(p, "unlock") \/ Leave(p)
        BY <1>6, <3>3 DEF AfterPrune, Finish
      <4>2. Leave(p) => GotoWith(p, "idle", NoJob)
        BY DEF Leave
      <4> QED BY <3>1, <4>1, <4>2
    <3> QED BY <3>2, <3>3
  <2>2. Quietly(p, label, j)
    BY <1>0, <1>1, <1>6, <2>1, DiskKept DEF AfterPrune, state
  <2>3. Local(label, j)
    <3>1. pc[p] # "idle" /\ NoJob \in JobRecords
      BY <1>6 DEF NoJob, JobRecords
    <3> QED BY <1>0, <2>1, <3>1 DEF Local, Labels, Idle, Serving, NoJob
  <2> QED BY <2>2, <2>3, QuietStep
<1>7. CASE PruneLockFile(p)
  <2>1. CASE Goto(p, "rmdir_state") /\ UNCHANGED registry
    <3>1. Quietly(p, "rmdir_state", job[p])
      BY <1>0, <1>1, <1>7, <2>1, DiskKept DEF PruneLockFile, state
    <3>2. Local("rmdir_state", job[p])
      BY <1>0, <1>7 DEF PruneLockFile, Local, Labels, Idle, Serving
    <3> QED BY <3>1, <3>2, QuietStep
  <2>2. CASE AfterPrune(p)
    BY <1>0, <1>6, <1>7, <2>2 DEF PruneLockFile
  <2> QED BY <1>7, <2>1, <2>2 DEF PruneLockFile
<1>8. CASE RemoveStateDir(p)
  BY <1>6, <1>8 DEF RemoveStateDir
<1>9. ASSUME NEW t \in Tokens, NEW new, WriteFiles(t, new), Ranked(new), new.marker = "none",
             lease[t] = None \/ st[t].marker = "none", pc[p] = "prune",
             GotoWith(p, "prune", [job[p] EXCEPT !.dirty = TRUE]),
             UNCHANGED <<kernel, names, drawn>>
      PROVE  Sound(p)
  <2> DEFINE j == [job[p] EXCEPT !.dirty = TRUE]
  <2>1. FilesOK' /\ st'[t] = new /\ \A u \in Tokens : u # t => st'[u] = st[u]
    BY <1>0, <1>9, FilesWritten
  <2>2. pc'[p] = "prune" /\ job'[p] = j /\ Moves(p)
    BY <1>0, <1>9 DEF Moves
  <2>3. /\ j.tok = job[p].tok /\ j.fresh = job[p].fresh /\ j.part = job[p].part
        /\ j.next = job[p].next /\ j.cmd = job[p].cmd /\ j \in JobRecords
    BY <1>0 DEF JobRecords
  <2>4. TakesLocks(p) /\ WritesFiles(p) /\ Binds(p)
    BY <1>9, <2>1, <2>2, <2>3 DEF TakesLocks, WritesFiles, Binds, kernel
  <2>5. Disk'
    BY <1>0, <1>9, <2>1, DiskKept DEF Disk, kernel
  <2>6. Local("prune", j)
    BY <1>0, <1>9, <2>3 DEF Local
  <2>7. Knows(p)'
    <3>1. Waiting(j) => job[p].fresh \in Tokens /\ lease[j.fresh] = None
                        /\ st[j.fresh].marker = "none"
      BY <1>0, <2>3 DEF Knows, JobRecords
    <3> QED BY <1>1, <1>9, <2>1, <2>2, <2>3, <3>1 DEF Knows, kernel
  <2> QED BY <1>9, <2>2, <2>4, <2>5, <2>6, <2>7 DEF Sound
<1>10. CASE PruneOwner(p)
  <2>1. PICK t \in Abandoned : WriteFiles(t, [st[t] EXCEPT !.marker = "none"])
    BY <1>10 DEF PruneOwner
  <2>2. Ranked([st[t] EXCEPT !.marker = "none"]) /\ lease[t] = None /\ t \in Tokens
        /\ [st[t] EXCEPT !.marker = "none"].marker = "none"
    BY <1>0, <2>1 DEF Abandoned, FilesOK, Ranked, Files
  <2> QED BY <1>9, <1>10, <2>1, <2>2 DEF PruneOwner
<1>11. CASE PruneOrphan(p)
  <2>1. PICK t \in Orphans : WriteFiles(t, NoFiles)
    BY <1>11 DEF PruneOrphan
  <2>2. Ranked(NoFiles) /\ st[t].marker = "none" /\ t \in Tokens /\ NoFiles.marker = "none"
    BY <2>1 DEF Orphans, Ranked, Files, NoFiles, NoJournal
  <2> QED BY <1>9, <1>11, <2>1, <2>2 DEF PruneOrphan
<1> QED BY <1>2, <1>3, <1>4, <1>5, <1>7, <1>8, <1>10, <1>11 DEF Locking

(* The last journal is one of them, and names a location no earlier than it. *)
LEMMA LatestJournal ==
    ASSUME NEW s, Ranked(s), Journals(s) # {}
    PROVE  /\ Max(Journals(s)) \in Gens /\ Latest(s) \in Locations
           /\ Max(Journals(s)) <= Rank[Latest(s)]
           /\ \A h \in Journals(s) : Max(Journals(s)) >= h
<1>1. Journals(s) \subseteq {1, 2, 3, 4}
  BY DEF Journals, Gens
<1>2. \E g \in Journals(s) : \A h \in Journals(s) : g >= h
  <2>1. CASE 4 \in Journals(s)
    BY <1>1, <2>1
  <2>2. CASE 4 \notin Journals(s) /\ 3 \in Journals(s)
    BY <1>1, <2>2
  <2>3. CASE 4 \notin Journals(s) /\ 3 \notin Journals(s) /\ 2 \in Journals(s)
    BY <1>1, <2>3
  <2>4. CASE Journals(s) \subseteq {1}
    BY <2>4
  <2> QED BY <1>1, <2>1, <2>2, <2>3, <2>4
<1>3. Max(Journals(s)) \in Journals(s) /\ \A h \in Journals(s) : Max(Journals(s)) >= h
  BY <1>2 DEF Max
<1> QED BY <1>3 DEF Journals, Latest, Ranked, Files, OrNone

(* An error lets the lease go and ends the transaction.                     *)
LEMMA FailSound ==
    ASSUME OwnerInv, NEW p \in Procs, Fail(p), pc[p] # "idle",
           FilesOK', st' = st, UNCHANGED <<registry, stateDir, names, drawn>>
    PROVE  Sound(p)
<1>0. /\ pc \in [Procs -> Labels] /\ job \in [Procs -> JobRecords] /\ job[p] \in JobRecords
      /\ Local(pc[p], job[p]) /\ Disk /\ registry \in OrNone(Procs) /\ stateDir \in BOOLEAN
  BY At DEF Disk, LocksOK
<1>1. NamesOK'
  BY <1>0, DiskKept
<1> USE DEF Quietly, Registered, Opening, Publishing, Making, Moving, Closing, Leased, Acting
<1>2. CASE Goto(p, "unlock")
  <2>1. Quietly(p, "unlock", job[p])
    BY <1>0, <1>1, <1>2 DEF Goto, Fail
  <2>2. Local("unlock", job[p])
    BY <1>0 DEF Local, Labels, Idle, Serving
  <2> QED BY <2>1, <2>2, QuietStep
<1>3. CASE Leave(p)
  <2>1. Quietly(p, "idle", NoJob)
    BY <1>0, <1>1, <1>3 DEF Leave, GotoWith, Fail
  <2>2. Local("idle", NoJob)
    BY DEF Local, Labels, Idle, NoJob, JobRecords, OrNone
  <2> QED BY <2>1, <2>2, QuietStep
<1> QED BY <1>2, <1>3 DEF Fail, Finish

(* Every step of listing and claiming leases is sound.                      *)
LEMMA RecoveringSound ==
    ASSUME OwnerInv, NEW p \in Procs, Recovering(p)
    PROVE  Sound(p)
<1>0. /\ pc \in [Procs -> Labels] /\ job \in [Procs -> JobRecords] /\ job[p] \in JobRecords
      /\ Local(pc[p], job[p]) /\ Knows(p) /\ Disk /\ None \notin Procs /\ None \notin Tokens
      /\ FilesOK /\ NamesOK /\ registry \in OrNone(Procs) /\ stateDir \in BOOLEAN
      /\ lease \in [Tokens -> OrNone(Procs)]
  BY At DEF Disk, LocksOK
<1> USE DEF Quietly, Registered, Opening, Publishing, Making, Moving, Closing, Leased, Acting,
            Waiting, OrNone
<1>1. CASE EnterList(p)
  <2> DEFINE j == [job[p] EXCEPT !.next = "listed"]
  <2>1. Quietly(p, "prune", j)
    BY <1>0, <1>1, DiskKept DEF EnterList, GotoWith, Enter, JobRecords, state
  <2>2. Local("prune", j)
    BY <1>0, <1>1 DEF EnterList, Local, Labels, Idle, Serving, JobRecords
  <2> QED BY <2>1, <2>2, QuietStep
<1>2. CASE Recovered(p)
  <2>1. CASE job[p].cmd = "install"
    <3>1. Quietly(p, "create", job[p])
      BY <1>0, <1>2, <2>1, DiskKept DEF Recovered, Goto, state, kernel
    <3>2. Local("create", job[p])
      BY <1>0, <1>2, <2>1 DEF Recovered, Local, Labels, Idle, Serving
    <3> QED BY <3>1, <3>2, QuietStep
  <2>2. CASE job[p].cmd # "install"
    <3>1. Quietly(p, "idle", NoJob)
      BY <1>0, <1>2, <2>2, DiskKept DEF Recovered, Leave, GotoWith, state, kernel
    <3>2. Local("idle", NoJob)
      BY DEF Local, Labels, Idle, NoJob, JobRecords
    <3> QED BY <3>1, <3>2, QuietStep
  <2> QED BY <2>1, <2>2
<1>3. CASE Claim(p)
  <2>0. pc[p] = "claim" /\ registry = None /\ UNCHANGED <<registry, stateDir, state, names, drawn>>
    BY <1>3 DEF Claim
  <2>1. PICK t \in job[p].todo :
            \/ /\ GotoWith(p, "claim", [job[p] EXCEPT !.todo = job[p].todo \ {t}])
               /\ UNCHANGED lease
            \/ Fail(p)
            \/ /\ st[t].marker = "lease" /\ lease[t] = None /\ Journals(st[t]) # {}
               /\ lease' = [lease EXCEPT ![t] = p]
               /\ GotoWith(p, "acquire", [job[p] EXCEPT !.todo = job[p].todo \ {t}, !.tok = t,
                               !.loc = Latest(st[t]), !.gen = Max(Journals(st[t]))])
    BY <1>3 DEF Claim
  <2>2. t \in Tokens
    BY <1>0 DEF JobRecords
  <2>3. CASE /\ GotoWith(p, "claim", [job[p] EXCEPT !.todo = job[p].todo \ {t}])
             /\ UNCHANGED lease
    <3> DEFINE j == [job[p] EXCEPT !.todo = job[p].todo \ {t}]
    <3>1. Quietly(p, "claim", j)
      BY <1>0, <2>0, <2>3, DiskKept DEF GotoWith, state, JobRecords
    <3>2. Local("claim", j)
      BY <1>0, <2>0 DEF Local, Labels, Idle, Serving, JobRecords
    <3> QED BY <3>1, <3>2, QuietStep
  <2>4. CASE Fail(p)
    <3>1. FilesOK' /\ st' = st
      BY <1>0, <2>0, DiskKept DEF state
    <3> QED BY <2>0, <2>4, <3>1, FailSound
  <2>5. CASE /\ st[t].marker = "lease" /\ lease[t] = None /\ Journals(st[t]) # {}
             /\ lease' = [lease EXCEPT ![t] = p]
             /\ GotoWith(p, "acquire", [job[p] EXCEPT !.todo = job[p].todo \ {t}, !.tok = t,
                               !.loc = Latest(st[t]), !.gen = Max(Journals(st[t]))])
    <3> DEFINE j == [job[p] EXCEPT !.todo = job[p].todo \ {t}, !.tok = t,
                               !.loc = Latest(st[t]), !.gen = Max(Journals(st[t]))]
    <3>0. /\ st[t] \in stOld[t] /\ Ranked(st[t])
          /\ t \in drawn
      BY <1>0, <2>2, <2>5 DEF FilesOK
    <3>1. pc'[p] = "acquire" /\ job'[p] = j /\ Moves(p)
      BY <1>0, <2>5 DEF GotoWith, Moves
    <3>2. /\ j.tok = t /\ j.fresh = job[p].fresh /\ j.part = job[p].part /\ j.cmd = job[p].cmd
          /\ j.loc = Latest(st[t]) /\ j.gen = Max(Journals(st[t])) /\ j.next = job[p].next
          /\ j \in JobRecords
      <4>1. Latest(st[t]) \in Locations /\ Max(Journals(st[t])) \in 0..4
        BY <3>0, <2>5, LatestJournal DEF Gens
      <4> QED BY <1>0, <2>2, <4>1 DEF JobRecords
    <3>3. Local("acquire", j)
      <4>1. j.tok \in Tokens /\ j.loc \in Locations /\ j.gen <= Rank[j.loc]
        BY <2>2, <2>5, <3>0, <3>2, LatestJournal
      <4>2. j.cmd = "install" => j.fresh # None
        BY <1>0, <2>0, <3>2 DEF Local
      <4> QED BY <3>2, <4>1, <4>2 DEF Local, Labels
    <3>4. TakesLocks(p) /\ WritesFiles(p) /\ Binds(p)
      <4>1. TakesLocks(p)
        <5>1. \A u \in Tokens : u # t => lease'[u] = lease[u]
          BY <1>0, <2>5
        <5>2. registry' = registry /\ registry = None
          BY <2>0
        <5>3. lease[t] = None /\ st[t].marker = "lease"
          BY <2>5
        <5> QED BY <5>1, <5>2, <5>3 DEF TakesLocks
      <4>2. WritesFiles(p)
        BY <2>0 DEF WritesFiles, state
      <4>3. Binds(p)
        BY <2>2, <2>5, <3>1, <3>2 DEF Binds
      <4> QED BY <4>1, <4>2, <4>3
    <3>5. Disk'
      BY <1>0, <2>0, <2>2, <2>5, <3>0, DiskKept DEF Disk, LocksOK
    <3>6. Knows(p)'
      <4>1. Waiting(j) => /\ job[p].fresh \in Tokens /\ lease[j.fresh] = None
                          /\ st[j.fresh].marker = "none"
        BY <1>0, <3>2 DEF Knows, JobRecords
      <4>2. lease'[t] = p /\ \A u \in Tokens : u # t => lease'[u] = lease[u]
        BY <1>0, <2>2, <2>5
      <4> QED BY <2>0, <2>5, <3>1, <3>2, <4>1, <4>2 DEF Knows, state
    <3> QED BY <2>0, <3>1, <3>3, <3>4, <3>5, <3>6 DEF Sound
  <2> QED BY <2>1, <2>3, <2>4, <2>5
<1> QED BY <1>1, <1>2, <1>3 DEF Recovering

(* A journal filed is one more of its files.                                *)
LEMMA JournalFiled ==
    ASSUME NEW s \in Files, NEW g \in Gens, NEW loc \in Locations, s.tmp > 0
    PROVE  /\ [s EXCEPT !.jr[g] = loc, !.tmp = @ - 1] \in Files
           /\ [s EXCEPT !.jr[g] = loc, !.tmp = @ - 1].marker = s.marker
<1>1. s.tmp - 1 \in Nat
  BY DEF Files
<1> QED BY <1>1 DEF Files, OrNone

(* Every step of publishing a journal is sound.                             *)
LEMMA JournalingSound ==
    ASSUME OwnerInv, NEW p \in Procs, Journaling(p)
    PROVE  Sound(p)
<1> DEFINE t == job[p].tok
<1>0. /\ pc \in [Procs -> Labels] /\ job \in [Procs -> JobRecords] /\ job[p] \in JobRecords
      /\ Local(pc[p], job[p]) /\ Knows(p) /\ Disk /\ None \notin Procs /\ None \notin Tokens
      /\ FilesOK /\ NamesOK /\ registry \in OrNone(Procs) /\ stateDir \in BOOLEAN
  BY At DEF Disk, LocksOK
<1> USE DEF Registered, Opening, Publishing, Making, Moving, Closing, Leased, Acting
<1>1. Registered(pc[p], job[p]) => registry = p
  BY <1>0 DEF Knows
<1>2. ASSUME pc[p] \in Publishing
      PROVE  /\ t \in Tokens /\ lease[t] = p /\ st[t].marker = "lease" /\ Ranked(st[t])
             /\ job[p].loc \in Locations /\ job[p].gen \in 0..4 /\ job[p].gen < Rank[job[p].loc]
             /\ job[p].gen + 1 \in Gens /\ job[p].gen + 1 <= Rank[job[p].loc]
  <2>1. /\ t \in Tokens /\ lease[t] = p /\ st[t].marker = "lease" /\ Ranked(st[t])
        /\ job[p].loc \in Locations /\ job[p].gen \in 0..4 /\ job[p].gen < Rank[job[p].loc]
    BY <1>0, <1>2 DEF Local, Knows, FilesOK, JobRecords
  <2>2. Rank[job[p].loc] \in 1..4
    BY <2>1 DEF Rank, Locations
  <2> QED BY <2>1, <2>2 DEF Gens
<1>3. ASSUME NEW label \in Publishing, pc[p] \in Publishing
      PROVE  Local(label, job[p])
  BY <1>0, <1>3 DEF Local, Labels
<1>4. ASSUME NEW label \in {"tmp", "publish_sync", "trim", "trim_sync", "journaled"},
             pc[p] \in Publishing, Goto(p, label), FilesOK', st' = st,
             UNCHANGED <<kernel, names, drawn>>
      PROVE  Sound(p)
  <2>1. Quietly(p, label, job[p])
    BY <1>0, <1>1, <1>4, DiskKept DEF Quietly, Goto, kernel
  <2> QED BY <1>3, <1>4, <2>1, QuietStep
<1>5. ASSUME NEW label \in Publishing, pc[p] \in Publishing, Goto(p, label), NEW new,
             WriteFiles(t, new), Ranked(new), new.marker = "lease",
             label = "publish" => new.tmp > 0, UNCHANGED <<kernel, names, drawn>>
      PROVE  Sound(p)
  <2>1. Writes(p, label, job[p], t, new)
    <3>1. job[p] # NoJob /\ job' = [job EXCEPT ![p] = job[p]]
      BY <1>0, <1>2, <1>5 DEF NoJob, Goto
    <3> QED BY <1>0, <1>1, <1>2, <1>5, <3>1 DEF Writes, Goto, kernel
  <2> QED BY <1>3, <1>5, <2>1, WritingStep
<1>6. CASE WriteJournal(p)
  <2> DEFINE new == [st[t] EXCEPT !.tmp = @ + 1]
  <2>1. pc[p] = "tmp"
    BY <1>6 DEF WriteJournal
  <2>2. Ranked(new) /\ new.marker = "lease" /\ new.tmp > 0
    BY <1>2, <2>1 DEF Ranked, Files
  <2> QED BY <1>5, <1>6, <2>1, <2>2 DEF WriteJournal
<1>7. CASE PublishJournal(p)
  <2> DEFINE g == job[p].gen + 1
             new == [st[t] EXCEPT !.jr[g] = job[p].loc, !.tmp = @ - 1]
  <2>1. pc[p] = "publish" /\ st[t].tmp > 0
    BY <1>0, <1>7 DEF PublishJournal, Knows
  <2>2. /\ st[t] \in Files /\ g \in Gens /\ job[p].loc \in Locations /\ g <= Rank[job[p].loc]
        /\ st[t].marker = "lease"
    BY <1>2, <2>1 DEF Ranked
  <2>3. new.marker = "lease" /\ new \in Files
    BY <2>1, <2>2, JournalFiled
  <2>4. \A h \in Gens : new.jr[h] = IF h = g THEN job[p].loc ELSE st[t].jr[h]
    BY <2>2 DEF Files
  <2>5. Ranked(new)
    BY <1>2, <2>1, <2>2, <2>3, <2>4 DEF Ranked
  <2> QED BY <1>5, <1>7, <2>1, <2>3, <2>5 DEF PublishJournal
<1>8. CASE SyncJournal(p) \/ SyncTrim(p)
  <2>1. FilesOK' /\ st' = st
    BY <1>0, <1>8, FilesSynced DEF SyncJournal, SyncTrim
  <2> QED BY <1>4, <1>8, <2>1 DEF SyncJournal, SyncTrim
<1>9. CASE TrimJournals(p)
  <2> DEFINE new == WithoutJournals(st[t], Obsolete(st[t]))
  <2>1. pc[p] = "trim"
    BY <1>9 DEF TrimJournals
  <2>2. st[t] \in Files /\ Ranked(st[t]) /\ st[t].marker = "lease"
    BY <1>2, <2>1 DEF Ranked
  <2>3. /\ new.marker = "lease" /\ new \in Files
        /\ \A h \in Gens : new.jr[h] = None \/ new.jr[h] = st[t].jr[h]
    BY <2>2 DEF Files, WithoutJournals, OrNone
  <2>4. Ranked(new)
    BY <2>2, <2>3 DEF Ranked
  <2> QED BY <1>5, <1>9, <2>1, <2>3, <2>4 DEF TrimJournals
<1>10. CASE Journaled(p)
  <2> DEFINE next == [creating |-> "stage", original |-> "work", detaching |-> "detach",
                      cleanup |-> "empty"]
             j == [job[p] EXCEPT !.gen = @ + 1]
  <2>1. /\ pc[p] = "journaled" /\ GotoWith(p, next[job[p].loc], j)
        /\ registry' = IF job[p].loc = "creating" THEN None ELSE registry
        /\ UNCHANGED <<lockFile, flock, stateDir, lease, state, names, drawn, env>>
    BY <1>10 DEF Journaled
  <2>2. PICK label \in {"stage", "work", "detach", "empty"} :
            /\ label = next[job[p].loc]
            /\ label = "stage" => job[p].loc = "creating"
            /\ label = "detach" => job[p].loc = "detaching"
    BY <1>2, <2>1 DEF Locations
  <2>3. Quietly(p, label, j)
    BY <1>0, <1>1, <2>1, <2>2, DiskKept DEF Quietly, GotoWith, state, JobRecords, Waiting, OrNone
  <2>4. /\ j.tok = t /\ j.loc = job[p].loc /\ j.gen = job[p].gen + 1 /\ j.cmd = job[p].cmd
        /\ j.fresh = job[p].fresh /\ j \in JobRecords
    <3>1. job[p].gen + 1 \in 0..4
      BY <1>2, <2>1 DEF Gens
    <3> QED BY <1>0, <3>1 DEF JobRecords
  <2>5. Local(label, j)
    BY <1>0, <1>2, <2>1, <2>2, <2>4 DEF Local, Labels
  <2> QED BY <2>3, <2>5, QuietStep
<1> QED BY <1>6, <1>7, <1>8, <1>9, <1>10 DEF Journaling



(* The names of a sibling, changed by somebody at work on it, are names.    *)
LEMMA NamesOf ==
    ASSUME OwnerInv, NEW t \in Tokens
    PROVE  at[t] \in Names
BY DEF OwnerInv, Disk, NamesOK

(* Every step of creating a sibling is sound.                               *)
LEMMA CreatingSound ==
    ASSUME OwnerInv, NEW p \in Procs, Creating(p)
    PROVE  Sound(p)
<1> DEFINE t == job[p].tok
<1>0. /\ pc \in [Procs -> Labels] /\ job \in [Procs -> JobRecords] /\ job[p] \in JobRecords
      /\ Local(pc[p], job[p]) /\ Knows(p) /\ Disk /\ None \notin Procs /\ None \notin Tokens
      /\ FilesOK /\ NamesOK /\ registry \in OrNone(Procs) /\ stateDir \in BOOLEAN
      /\ lease \in [Tokens -> OrNone(Procs)]
  BY At DEF Disk, LocksOK
<1> USE DEF Registered, Opening, Publishing, Making, Moving, Closing, Leased, Acting
<1>1. Registered(pc[p], job[p]) => registry = p
  BY <1>0 DEF Knows
<1>2. ASSUME pc[p] \in Acting
      PROVE  /\ t \in Tokens /\ Ranked(st[t]) /\ at[t] \in Names /\ job[p] # NoJob
             /\ job[p].loc \in Locations /\ job[p].gen \in 0..4 /\ job[p].gen <= Rank[job[p].loc]
             /\ job[p].cmd = "install" => job[p].fresh # None
  BY <1>0, <1>2, NamesOf DEF Local, FilesOK, JobRecords, NoJob
(* The next step with the same locals, on nothing but the names.            *)
<1>3. ASSUME NEW label, Goto(p, label), FilesOK', st' = st, NamesOK',
             UNCHANGED <<kernel, drawn>>, Local(label, job[p]),
             label \in Leased \ (Publishing \cup {"lease_sync"}) \/ (pc[p] = "lease_sync" /\ label = "tmp"),
             pc[p] \in Leased
      PROVE  Sound(p)
  <2>1. Quietly(p, label, job[p])
    <3>1. job' = [job EXCEPT ![p] = job[p]]
      BY <1>0, <1>3 DEF Goto
    <3> QED BY <1>0, <1>1, <1>3, <3>1 DEF Quietly, Goto, kernel
  <2> QED BY <1>3, <2>1, QuietStep
<1>4. ASSUME NEW label \in {"child", "rename", "unstage", "create_sync", "bind", "acquire"},
             pc[p] \in Making
      PROVE  Local(label, job[p])
  BY <1>0, <1>4 DEF Local, Labels
<1>5. CASE EnterCreate(p)
  <2> DEFINE j == [job[p] EXCEPT !.part = "owning", !.tok = job[p].fresh,
                                 !.loc = "creating", !.gen = 0]
  <2>1. /\ pc[p] = "create" /\ registry = None /\ registry' = p /\ GotoWith(p, "marker", j)
        /\ stateDir' = TRUE /\ UNCHANGED <<lockFile, flock, lease, state, names, drawn, env>>
    BY <1>5 DEF EnterCreate, Enter
  <2>2. /\ job[p].fresh \in Tokens /\ Waiting(job[p]) /\ lease[job[p].fresh] = None
    BY <1>0, <2>1 DEF Local, Knows, Waiting, JobRecords, OrNone
  <2>3. /\ j.part = "owning" /\ j.tok = job[p].fresh /\ j.fresh = job[p].fresh
        /\ j.loc = "creating" /\ j.gen = 0 /\ j.cmd = job[p].cmd /\ j.next = job[p].next
        /\ j \in JobRecords
    <3>1. /\ job[p].fresh \in OrNone(Tokens) /\ "creating" \in OrNone(Locations)
          /\ 0 \in 0..4
      BY <2>2 DEF OrNone, Locations
    <3> QED BY <1>0, <3>1 DEF JobRecords
  <2>4. pc'[p] = "marker" /\ job'[p] = j /\ Moves(p)
    BY <1>0, <2>1 DEF GotoWith, Moves
  <2>5. TakesLocks(p) /\ WritesFiles(p)
    BY <2>1 DEF TakesLocks, WritesFiles, state
  <2>6. Binds(p)
    BY <2>2, <2>3, <2>4 DEF Binds, Waiting
  <2>7. Disk'
    BY <1>0, <2>1, DiskKept DEF Disk
  <2>8. Local("marker", j)
    BY <1>0, <2>2, <2>3 DEF Local, Labels, Rank, Locations, OrNone
  <2>9. Knows(p)'
    BY <2>1, <2>2, <2>3, <2>4 DEF Knows, Waiting
  <2> QED BY <2>1, <2>4, <2>5, <2>6, <2>7, <2>8, <2>9 DEF Sound
<1>6. CASE CreateMarker(p)
  <2> DEFINE new == [st[t] EXCEPT !.marker = "empty"]
  <2>1. pc[p] = "marker" /\ lease[t] = None /\ registry = p
    BY <1>0, <1>6 DEF CreateMarker, Knows
  <2>2. Ranked(new)
    BY <1>2, <2>1 DEF Ranked, Files
  <2>3. Writes(p, "lease", job[p], t, new)
    BY <1>0, <1>2, <1>6, <2>1 DEF CreateMarker, Writes, Goto, kernel
  <2>4. Local("lease", job[p])
    BY <1>0, <2>1 DEF Local, Labels
  <2> QED BY <2>2, <2>3, <2>4, WritingStep
<1>7. CASE TakeLease(p)
  <2> DEFINE new == [st[t] EXCEPT !.marker = "lease"]
  <2>1. pc[p] = "lease" /\ registry = p /\ lease' = [lease EXCEPT ![t] = p]
    BY <1>0, <1>1, <1>7 DEF TakeLease
  <2>2. Ranked(new) /\ new.marker = "lease" /\ lease'[t] = p
    BY <1>0, <1>2, <2>1 DEF Ranked, Files
  <2>3. Writes(p, "lease_sync", job[p], t, new)
    BY <1>0, <1>2, <1>7, <2>1, <2>2 DEF TakeLease, Writes, Goto
  <2>4. Local("lease_sync", job[p])
    BY <1>0, <2>1 DEF Local, Labels
  <2> QED BY <2>2, <2>3, <2>4, WritingStep
<1>8. CASE SyncLease(p)
  <2>1. pc[p] = "lease_sync" /\ FilesOK' /\ st' = st /\ NamesOK'
    BY <1>0, <1>8, FilesSynced, DiskKept DEF SyncLease
  <2>2. Local("tmp", job[p])
    BY <1>0, <2>1 DEF Local, Labels
  <2> QED BY <1>3, <1>8, <2>1, <2>2 DEF SyncLease
<1>9. ASSUME NEW label \in {"child", "rename", "unstage", "create_sync", "bind", "acquire"},
             pc[p] \in Making, Goto(p, label), NEW new \in Names, WriteNames(t, new),
             UNCHANGED <<kernel, state, drawn>>
      PROVE  Sound(p)
  <2>1. FilesOK' /\ st' = st /\ NamesOK'
    BY <1>0, <1>2, <1>9, NamesWritten, DiskKept DEF state
  <2> QED BY <1>3, <1>4, <1>9, <2>1
<1>10. CASE MakeStage(p) \/ MakeChild(p)
  <2>1. /\ [at[t] EXCEPT !.stage = "empty"] \in Names /\ [at[t] EXCEPT !.stage = "full"] \in Names
        /\ pc[p] \in Making
    BY <1>2, <1>10 DEF Names, MakeStage, MakeChild
  <2> QED BY <1>9, <1>10, <2>1 DEF MakeStage, MakeChild
<1>11. CASE PublishSibling(p)
  <2>1. [at[t] EXCEPT !.orig = "own", !.stage = "empty"] \in Names /\ pc[p] \in Making
    BY <1>2, <1>11 DEF Names, PublishSibling
  <2> QED BY <1>9, <1>11, <2>1 DEF PublishSibling
<1>12. CASE RemoveStage(p)
  <2>1. [at[t] EXCEPT !.stage = "none"] \in Names /\ pc[p] \in Making
    BY <1>2, <1>12 DEF Names, RemoveStage
  <2>2. PICK label \in {"create_sync", "acquire"} : Goto(p, label)
    BY <1>12 DEF RemoveStage
  <2> QED BY <1>9, <1>12, <2>1, <2>2 DEF RemoveStage
<1>13. CASE SyncCreate(p)
  <2>1. pc[p] = "create_sync" /\ FilesOK' /\ st' = st /\ NamesOK'
    BY <1>0, <1>13, NamesSynced, DiskKept DEF SyncCreate, state
  <2> QED BY <1>3, <1>4, <1>13, <2>1 DEF SyncCreate
<1>14. CASE BindIdentity(p)
  <2> DEFINE j == [job[p] EXCEPT !.loc = "original"]
  <2>1. PICK label \in {"tmp", "acquire"} : pc[p] = "bind" /\ GotoWith(p, label, j)
    BY <1>14 DEF BindIdentity
  <2>2. job[p].loc = "creating" /\ job[p].gen <= 1
    BY <1>0, <1>2, <2>1 DEF Local, Rank
  <2>3. /\ j.tok = t /\ j.loc = "original" /\ j.gen = job[p].gen /\ j.cmd = job[p].cmd
        /\ j.fresh = job[p].fresh /\ j.part = job[p].part /\ j \in JobRecords
    BY <1>0 DEF JobRecords, Locations, OrNone
  <2>4. Quietly(p, label, j)
    BY <1>0, <1>1, <1>14, <2>1, <2>3, DiskKept
    DEF BindIdentity, Quietly, GotoWith, Waiting, state, kernel
  <2>5. Local(label, j)
    BY <1>2, <2>1, <2>2, <2>3 DEF Local, Labels, Rank, Locations
  <2> QED BY <2>4, <2>5, QuietStep
<1>15. CASE WorkDone(p)
  <2>1. /\ pc[p] = "work" /\ FilesOK' /\ st' = st /\ NamesOK'
        /\ UNCHANGED <<registry, stateDir, names, drawn>>
    BY <1>0, <1>15, DiskKept DEF WorkDone, state
  <2>2. CASE Goto(p, "acquire") /\ UNCHANGED lease
    <3>1. Local("acquire", job[p])
      BY <1>0, <2>1 DEF Local, Labels
    <3> QED BY <1>3, <1>15, <2>1, <2>2, <3>1 DEF WorkDone, kernel
  <2>3. CASE Fail(p)
    BY <2>1, <2>3, FailSound
  <2> QED BY <1>15, <2>2, <2>3 DEF WorkDone
<1> QED BY <1>5, <1>6, <1>7, <1>8, <1>10, <1>11, <1>12, <1>13, <1>14, <1>15 DEF Creating


(* An owner that goes on as the owner, with the same locals or the next     *)
(* location, and changes nothing but names, takes a sound step.             *)
LEMMA OwnerGoesOn ==
    ASSUME OwnerInv, NEW p \in Procs, NEW label, NEW j, GotoWith(p, label, j),
           FilesOK', st' = st, NamesOK', UNCHANGED <<kernel, drawn>>,
           j.tok = job[p].tok, j.fresh = job[p].fresh, j.part = job[p].part,
           Local(label, j), pc[p] \in Leased, label \in Leased \ {"lease_sync", "publish"},
           label \in Publishing => j.loc # "creating"
    PROVE  Sound(p)
<1>0. /\ pc \in [Procs -> Labels] /\ job \in [Procs -> JobRecords]
      /\ registry \in OrNone(Procs) /\ stateDir \in BOOLEAN
  BY At DEF Disk, LocksOK
<1>1. Quietly(p, label, j)
  BY <1>0 DEF Quietly, Registered, Opening, Closing, Leased, Acting, GotoWith, kernel, Waiting
<1> QED BY <1>1, QuietStep

(* Every step of cleaning a sibling up is sound.                            *)
LEMMA CleaningSound ==
    ASSUME OwnerInv, NEW p \in Procs, Cleaning(p)
    PROVE  Sound(p)
<1> DEFINE t == job[p].tok
<1>0. /\ pc \in [Procs -> Labels] /\ job \in [Procs -> JobRecords] /\ job[p] \in JobRecords
      /\ Local(pc[p], job[p]) /\ Knows(p) /\ Disk /\ None \notin Procs /\ None \notin Tokens
      /\ FilesOK /\ NamesOK /\ registry \in OrNone(Procs) /\ stateDir \in BOOLEAN
      /\ lease \in [Tokens -> OrNone(Procs)]
  BY At DEF Disk, LocksOK
<1> USE DEF Registered, Opening, Publishing, Making, Moving, Closing, Leased, Acting
<1>1. Registered(pc[p], job[p]) => registry = p
  BY <1>0 DEF Knows
<1>2. ASSUME pc[p] \in Acting
      PROVE  /\ t \in Tokens /\ Ranked(st[t]) /\ at[t] \in Names /\ job[p] # NoJob
             /\ job[p].loc \in Locations /\ job[p].gen \in 0..4 /\ job[p].gen <= Rank[job[p].loc]
             /\ job[p].cmd = "install" => job[p].fresh # None
  BY <1>0, <1>2, NamesOf DEF Local, FilesOK, JobRecords, NoJob
<1>3. \A label : Goto(p, label) => GotoWith(p, label, job[p])
  BY <1>0 DEF Goto, GotoWith
<1>4. ASSUME NEW label \in {"retire", "empty", "detach", "move", "moved", "recheck", "rmdir",
                            "rmdir_sync"},
             Goto(p, label), pc[p] \in Leased, label \in Moving => job[p].loc = "detaching",
             FilesOK', st' = st, NamesOK', UNCHANGED <<kernel, drawn>>
      PROVE  Sound(p)
  <2>1. Local(label, job[p])
    BY <1>0, <1>4 DEF Local, Labels
  <2> HIDE DEF Registered, Opening, Publishing, Making, Closing, Acting
  <2>2. label \in Leased \ {"lease_sync", "publish"} /\ label \notin Publishing
    BY <1>4 DEF Leased, Acting, Opening, Closing, Publishing
  <2> QED BY <1>3, <1>4, <2>1, <2>2, OwnerGoesOn
<1>5. ASSUME NEW loc \in {"detaching", "cleanup"}, pc[p] \in Leased,
             GotoWith(p, "tmp", [job[p] EXCEPT !.loc = loc]), job[p].gen < Rank[loc],
             FilesOK', st' = st, NamesOK', UNCHANGED <<kernel, drawn>>
      PROVE  Sound(p)
  <2> DEFINE j == [job[p] EXCEPT !.loc = loc]
  <2>1. /\ j.tok = t /\ j.loc = loc /\ j.gen = job[p].gen /\ j.cmd = job[p].cmd
        /\ j.fresh = job[p].fresh /\ j.part = job[p].part /\ j \in JobRecords
    BY <1>0, <1>5 DEF JobRecords, Locations, OrNone
  <2>2. Local("tmp", j)
    <3>1. job[p].gen <= Rank[loc]
      BY <1>2, <1>5 DEF Rank
    <3> QED BY <1>2, <1>5, <2>1, <3>1 DEF Local, Labels, Locations
  <2> QED BY <1>5, <2>1, <2>2, OwnerGoesOn
<1>6. ASSUME UNCHANGED <<state, names, drawn>>
      PROVE  FilesOK' /\ st' = st /\ NamesOK'
  BY <1>0, <1>6, DiskKept DEF state
<1>7. CASE AcquireDirectory(p)
  <2>1. /\ pc[p] = "acquire" /\ FilesOK' /\ st' = st /\ NamesOK' /\ UNCHANGED <<kernel, drawn>>
        /\ job[p].loc \in Locations /\ job[p].gen \in Nat /\ job[p].gen <= Rank[job[p].loc]
    BY <1>2, <1>6, <1>7 DEF AcquireDirectory
  <2>2. CASE Goto(p, "retire") \/ Goto(p, "empty")
    BY <1>4, <2>1, <2>2
  <2>3. CASE job[p].loc = "detaching" /\ Goto(p, "detach")
    BY <1>4, <2>1, <2>3
  <2>4. CASE /\ Found(job[p].loc, at[t]) = "cleanup" /\ job[p].loc # "cleanup"
             /\ GotoWith(p, "tmp", [job[p] EXCEPT !.loc = "cleanup"])
    <3>1. job[p].loc = "detaching"
      BY <2>1, <2>4 DEF Found, Locations
    <3> QED BY <1>5, <2>1, <2>4, <3>1 DEF Rank
  <2>5. CASE /\ job[p].loc = "original"
             /\ GotoWith(p, "tmp", [job[p] EXCEPT !.loc = "detaching"])
    BY <1>5, <2>1, <2>5 DEF Rank
  <2> QED BY <1>7, <2>2, <2>3, <2>4, <2>5 DEF AcquireDirectory
<1>8. CASE Refuse(p)
  BY <1>6, <1>8, FailSound DEF Refuse
<1>9. CASE CheckDetach(p) \/ EmptyTree(p)
  <2>1. pc[p] \in {"detach", "empty", "recheck"} /\ FilesOK' /\ st' = st /\ NamesOK'
    BY <1>6, <1>9 DEF CheckDetach, EmptyTree
  <2>2. PICK label \in {"move", "recheck", "rmdir"} :
            Goto(p, label) /\ (label = "move" => pc[p] = "detach")
    BY <1>9 DEF CheckDetach, EmptyTree
  <2>3. label = "move" => job[p].loc = "detaching"
    BY <1>0, <2>2 DEF Local
  <2> QED BY <1>4, <1>9, <2>1, <2>2, <2>3 DEF CheckDetach, EmptyTree
<1>10. CASE Detach(p)
  <2>1. /\ pc[p] = "move" /\ job[p].loc = "detaching"
        /\ [at[t] EXCEPT !.orig = "none", !.clean = at[t].orig] \in Names
    BY <1>0, <1>2, <1>10 DEF Detach, Local, Names
  <2>2. FilesOK' /\ st' = st /\ NamesOK'
    BY <1>0, <1>2, <1>10, <2>1, NamesWritten, DiskKept DEF Detach, state
  <2> QED BY <1>4, <1>10, <2>1, <2>2 DEF Detach
<1>11. CASE SyncDetach(p)
  <2>1. /\ pc[p] = "moved" /\ job[p].loc = "detaching" /\ job[p].gen <= 3 /\ job[p].gen \in Nat
    BY <1>0, <1>2, <1>11 DEF SyncDetach, Local, Rank
  <2>2. FilesOK' /\ st' = st /\ NamesOK'
    BY <1>0, <1>11, NamesSynced, DiskKept DEF SyncDetach, state
  <2> QED BY <1>5, <1>11, <2>1, <2>2 DEF SyncDetach, Rank
<1>12. CASE RemoveTree(p)
  <2>1. pc[p] = "rmdir" /\ [at[t] EXCEPT !.clean = "none"] \in Names
    BY <1>2, <1>12 DEF RemoveTree, Names
  <2>2. FilesOK' /\ st' = st /\ NamesOK'
    BY <1>0, <1>2, <1>12, <2>1, NamesWritten, DiskKept DEF RemoveTree, state
  <2> QED BY <1>4, <1>12, <2>1, <2>2 DEF RemoveTree
<1>13. CASE SyncRemove(p)
  <2>1. pc[p] = "rmdir_sync" /\ FilesOK' /\ st' = st /\ NamesOK'
    BY <1>0, <1>13, NamesSynced, DiskKept DEF SyncRemove, state
  <2> QED BY <1>4, <1>13, <2>1 DEF SyncRemove
<1>14. CASE EnterRetire(p)
  <2>1. pc[p] = "retire" /\ FilesOK' /\ st' = st /\ NamesOK'
    BY <1>6, <1>14 DEF EnterRetire
  <2>2. Quietly(p, "unlink", job[p])
    BY <1>0, <1>3, <1>14, <2>1 DEF EnterRetire, Enter, Quietly, GotoWith, OrNone
  <2>3. Local("unlink", job[p])
    BY <1>0, <2>1 DEF Local, Labels
  <2> QED BY <2>2, <2>3, QuietStep
<1>15. CASE UnlinkMarker(p)
  <2> DEFINE new == [st[t] EXCEPT !.marker = "none"]
  <2>1. pc[p] = "unlink" /\ lease[t] = None /\ registry = p
    BY <1>0, <1>15 DEF UnlinkMarker, Knows
  <2>2. Ranked(new)
    BY <1>2, <2>1 DEF Ranked, Files
  <2>3. Writes(p, "unlink_sync", job[p], t, new)
    BY <1>0, <1>2, <1>3, <1>15, <2>1 DEF UnlinkMarker, Writes, GotoWith, kernel
  <2>4. Local("unlink_sync", job[p])
    BY <1>0, <2>1 DEF Local, Labels
  <2> QED BY <2>2, <2>3, <2>4, WritingStep
<1>16. CASE SyncUnlink(p)
  <2>1. pc[p] = "unlink_sync" /\ FilesOK' /\ st' = st /\ NamesOK' /\ registry = p
    BY <1>0, <1>1, <1>16, FilesSynced, DiskKept DEF SyncUnlink
  <2>2. Quietly(p, "files", job[p])
    BY <1>0, <1>3, <1>16, <2>1 DEF SyncUnlink, Quietly, GotoWith, kernel
  <2>3. Local("files", job[p])
    BY <1>0, <2>1 DEF Local, Labels
  <2> QED BY <2>2, <2>3, QuietStep
<1>17. CASE RemoveJournals(p)
  <2> DEFINE j == [job[p] EXCEPT !.next = "entries", !.dirty = TRUE]
  <2>1. pc[p] = "files" /\ registry = p /\ GotoWith(p, "prune", j)
    BY <1>0, <1>1, <1>17 DEF RemoveJournals
  <2>2. Ranked(NoFiles)
    BY DEF Ranked, Files, NoFiles, NoJournal, OrNone
  <2>3. /\ j.tok = t /\ j.fresh = job[p].fresh /\ j.part = job[p].part /\ j.cmd = job[p].cmd
        /\ j.next = "entries" /\ j \in JobRecords
    BY <1>0 DEF JobRecords
  <2>4. Writes(p, "prune", j, t, NoFiles)
    BY <1>0, <1>2, <1>17, <2>1, <2>3 DEF RemoveJournals, Writes, GotoWith, kernel, Waiting, NoJob
  <2>5. Local("prune", j)
    BY <1>0, <2>1, <2>3 DEF Local, Labels, Serving
  <2> QED BY <2>2, <2>4, <2>5, WritingStep
<1> QED BY <1>7, <1>8, <1>9, <1>10, <1>11, <1>12, <1>13, <1>14, <1>15, <1>16, <1>17 DEF Cleaning

(* So is a failure while a journal is published or a directory made.        *)
LEMMA FailureSound ==
    ASSUME OwnerInv, NEW p \in Procs, JournalFails(p) \/ CreationFails(p)
    PROVE  Sound(p)
<1> DEFINE t == job[p].tok
<1>0. /\ pc \in [Procs -> Labels] /\ job \in [Procs -> JobRecords] /\ job[p] \in JobRecords
      /\ Local(pc[p], job[p]) /\ Knows(p) /\ Disk /\ None \notin Procs /\ None \notin Tokens
      /\ FilesOK /\ NamesOK /\ registry \in OrNone(Procs) /\ stateDir \in BOOLEAN
      /\ lease \in [Tokens -> OrNone(Procs)]
  BY At DEF Disk, LocksOK
<1> USE DEF Registered, Opening, Publishing, Making, Moving, Closing, Leased, Acting
<1>1. Registered(pc[p], job[p]) => registry = p
  BY <1>0 DEF Knows
<1>2. ASSUME pc[p] \in Leased
      PROVE  /\ t \in Tokens /\ Ranked(st[t]) /\ at[t] \in Names /\ job[p] # NoJob
             /\ lease[t] = p /\ st[t].marker = "lease" /\ t \in drawn
  <2>1. t \in Tokens /\ t # None
    BY <1>0, <1>2 DEF Local
  <2> QED BY <1>0, <1>2, <2>1, NamesOf, At DEF Knows, FilesOK, NoJob, OrNone
<1>3. \A label : Goto(p, label) => GotoWith(p, label, job[p])
  BY <1>0 DEF Goto, GotoWith
<1>4. CASE CreationFails(p)
  <2>1. /\ pc[p] \in {"stage", "child", "rename", "unstage", "create_sync"}
        /\ [at[t] EXCEPT !.stage = "none"] \in Names
    BY <1>2, <1>4 DEF CreationFails, Names
  <2>2. FilesOK' /\ st' = st /\ NamesOK'
    BY <1>0, <1>2, <1>4, <2>1, NamesWritten, DiskKept DEF CreationFails, state
  <2>3. Local("acquire", job[p])
    BY <1>0, <2>1 DEF Local, Labels
  <2> QED BY <1>3, <1>4, <2>1, <2>2, <2>3, OwnerGoesOn DEF CreationFails
<1>5. CASE JournalFails(p)
  <2>1. pc[p] \in {"publish", "publish_sync", "trim", "trim_sync"}
        /\ UNCHANGED <<registry, lockFile, flock, stateDir, names, drawn>>
    BY <1>5 DEF JournalFails
  <2>2. PICK label \in {"unlink", "acquire", "unlock", "idle"}, j \in {job[p], NoJob} :
            /\ GotoWith(p, label, j)
            /\ IF label = "idle" THEN j = NoJob ELSE j = job[p]
            /\ label = "unlink" => job[p].loc = "creating"
            /\ IF label = "acquire" THEN lease' = lease ELSE lease' = Freed(lease, p)
    <3>1. CASE job[p].loc = "creating"
      BY <1>3, <1>5, <3>1 DEF JournalFails
    <3>2. CASE job[p].loc = "original"
      BY <1>3, <1>5, <3>2 DEF JournalFails
    <3>3. CASE job[p].loc \notin {"creating", "original"}
      <4>1. Fail(p)
        BY <1>5, <3>3 DEF JournalFails
      <4>2. Goto(p, "unlock") \/ GotoWith(p, "idle", NoJob)
        BY <4>1 DEF Fail, Finish, Leave
      <4> QED BY <1>3, <4>1, <4>2 DEF Fail
    <3> QED BY <3>1, <3>2, <3>3
  <2>3. Local(label, j)
    <3>1. NoJob \in JobRecords
      BY DEF NoJob, JobRecords, OrNone
    <3> QED BY <1>0, <2>1, <2>2, <3>1 DEF Local, Labels, Idle, Serving, NoJob
  <2>4. label = "unlink" => registry = p
    BY <1>1, <2>1, <2>2
  <2>5. label = "unlink" => lease'[t] = None
    BY <1>2, <2>1, <2>2, LeasesFreed
  <2>6. CASE pc[p] = "publish"
    <3> DEFINE new == [st[t] EXCEPT !.tmp = @ - 1]
    <3>1. st[t].tmp > 0 /\ WriteFiles(t, new)
      BY <1>0, <1>5, <2>6 DEF Knows, JournalFails
    <3>2. Ranked(new) /\ new.marker = "lease"
      BY <1>2, <2>1, <3>1 DEF Ranked, Files
    <3>3. Writes(p, label, j, t, new)
      BY <1>2, <2>1, <2>2, <2>4, <2>5, <3>1, <3>2 DEF Writes, GotoWith
    <3> QED BY <2>3, <3>2, <3>3, WritingStep
  <2>7. CASE pc[p] # "publish"
    <3>1. FilesOK' /\ st' = st /\ NamesOK'
      BY <1>0, <1>5, <2>1, <2>7, DiskKept DEF JournalFails, state
    <3>2. Quietly(p, label, j)
      BY <1>0, <2>1, <2>2, <2>4, <3>1 DEF Quietly, GotoWith
    <3> QED BY <2>3, <3>2, QuietStep
  <2> QED BY <2>6, <2>7
<1> QED BY <1>4, <1>5

(* A killed process keeps nothing.                                          *)
LEMMA KillSound ==
    ASSUME OwnerInv, NEW p \in Procs, Kill(p)
    PROVE  Sound(p)
<1>0. Disk /\ FilesOK /\ NamesOK /\ registry \in OrNone(Procs) /\ stateDir \in BOOLEAN
  BY At DEF Disk, LocksOK
<1>1. Quietly(p, "idle", NoJob)
  BY <1>0, DiskKept DEF Kill, Leave, GotoWith, Quietly, Registered, Opening, Publishing, Closing,
     Leased, Acting, OrNone, state
<1>2. Local("idle", NoJob)
  BY DEF Local, Labels, Idle, NoJob, JobRecords, OrNone, Acting, Opening, Publishing, Making, Moving
<1> QED BY <1>1, <1>2, QuietStep

(* A command that starts draws a token nobody has.                          *)
LEMMA StartKeepsOwners ==
    ASSUME OwnerInv, LockInv', NEW p \in Procs, NEW cmd \in Commands, Start(p, cmd)
    PROVE  OwnerInv'
<1>0. /\ pc \in [Procs -> Labels] /\ job \in [Procs -> JobRecords]
      /\ Disk /\ Apart /\ None \notin Procs /\ None \notin Tokens /\ drawn \subseteq Tokens
      /\ \A q \in Procs : Local(pc[q], job[q]) /\ Knows(q)
  BY At DEF OwnerInv, Disk, LocksOK
<1>1. pc[p] = "idle" /\ UNCHANGED <<kernel, state, names>>
  BY DEF Start
<1>j. /\ NoJob \in JobRecords /\ NoJob.tok = None /\ NoJob.fresh = None
      /\ NoJob.part = "recovering"
  BY DEF NoJob, JobRecords, OrNone
<1> DEFINE Fresh(j, new) ==
        /\ j.cmd = cmd /\ j.fresh = new /\ j.tok = None /\ j.part = "recovering"
        /\ j \in JobRecords
<1>2. PICK label \in {"list", "lock", "create"}, new \in OrNone(Tokens \ drawn), j \in JobRecords :
          /\ GotoWith(p, label, j) /\ Fresh(j, new)
          /\ drawn' = drawn \cup ({new} \ {None})
          /\ cmd # "recover" => new # None
          /\ label = "create" => new # None
  <2>1. CASE cmd = "recover"
    <3> DEFINE j == [NoJob EXCEPT !.cmd = cmd]
    <3>1. Fresh(j, None)
      BY <1>j DEF JobRecords, OrNone
    <3>2. GotoWith(p, "list", j) /\ drawn' = drawn
      BY <2>1 DEF Start
    <3> HIDE DEF j
    <3> QED BY <2>1, <3>1, <3>2 DEF OrNone
  <2>2. CASE cmd # "recover"
    <3> DEFINE t == CHOOSE x \in Tokens \ drawn : TRUE
               j == [NoJob EXCEPT !.cmd = cmd, !.fresh = t]
               label == IF cmd = "install" THEN "lock" ELSE "create"
    <3>1. t \in Tokens \ drawn
      BY <1>0, <2>2 DEF Start
    <3>2. GotoWith(p, label, j) /\ drawn' = drawn \cup {t}
      BY <2>2 DEF Start
    <3> HIDE DEF t
    <3>3. Fresh(j, t)
      BY <1>j, <3>1 DEF JobRecords, OrNone
    <3>4. label \in {"list", "lock", "create"} /\ t # None
      BY <1>0, <3>1
    <3> HIDE DEF j, label
    <3> QED BY <2>2, <3>1, <3>2, <3>3, <3>4 DEF OrNone
  <2> QED BY <2>1, <2>2
<1>3. Fresh(j, new)
  BY <1>2
<1>4. /\ pc'[p] = label /\ job'[p] = j /\ pc' \in [Procs -> Labels] /\ job' \in [Procs -> JobRecords]
      /\ \A q \in Procs : q # p => pc'[q] = pc[q] /\ job'[q] = job[q]
  BY <1>0, <1>2 DEF GotoWith, Labels, Serving
<1>5. Disk'
  <2>1. UNCHANGED <<st, stOld, at, atOld, touched, lease, registry, stateDir>>
        /\ drawn \subseteq drawn' /\ drawn' \subseteq Tokens
    BY <1>0, <1>1, <1>2 DEF state, names, kernel, OrNone
  <2>2. FilesOK'
    BY <1>0, <2>1 DEF Disk, FilesOK
  <2>3. NamesOK'
    BY <1>0, <2>1 DEF Disk, NamesOK
  <2>4. LocksOK'
    BY <1>0, <2>1 DEF Disk, LocksOK
  <2> QED BY <2>2, <2>3, <2>4 DEF Disk
<1>6. Apart'
  <2>1. \A q \in Procs : {job'[q].tok, job'[q].fresh} \subseteq OrNone(drawn')
    BY <1>0, <1>2, <1>3, <1>4 DEF Apart, OrNone
  <2>2. ASSUME NEW q \in Procs, NEW r \in Procs, Waiting(job'[q])
        PROVE  /\ job'[r].tok # job'[q].fresh
               /\ q # r => job'[r].fresh # job'[q].fresh
    <3>1. \A x \in Procs : {job[x].tok, job[x].fresh} \subseteq OrNone(drawn)
      BY <1>0 DEF Apart
    <3>2. CASE q = p
      <4>1. new # None /\ new \notin drawn /\ job'[q].fresh = new
        BY <1>2, <1>3, <1>4, <2>2, <3>2 DEF Waiting, OrNone
      <4> QED BY <1>3, <1>4, <3>1, <3>2, <4>1 DEF OrNone
    <3>3. CASE q # p
      <4>1. job'[q].fresh = job[q].fresh /\ job[q].fresh \in drawn /\ Waiting(job[q])
        BY <1>4, <2>2, <3>1, <3>3 DEF Waiting, OrNone
      <4>2. new \notin drawn
        BY <1>0, <1>2 DEF OrNone
      <4> QED BY <1>0, <1>3, <1>4, <3>3, <4>1, <4>2 DEF Apart
    <3> QED BY <3>2, <3>3
  <2> QED BY <2>1, <2>2 DEF Apart
<1>7. ASSUME NEW q \in Procs  PROVE Local(pc'[q], job'[q]) /\ Knows(q)'
  <2>1. CASE q = p
    <3>1. Local(label, j)
      BY <1>2, <1>3 DEF Local, Labels, Serving, Commands, Acting, Opening, Publishing, Making, Moving
    <3>2. new # None => lease[new] = None /\ st[new].marker = "none"
      BY <1>0, <1>2 DEF Disk, LocksOK, FilesOK, OrNone
    <3>3. label \notin Acting /\ ~Registered(label, j)
      BY DEF Acting, Registered, Opening, Closing, Publishing
    <3> QED BY <1>1, <1>3, <1>4, <2>1, <3>1, <3>2, <3>3
        DEF Knows, Leased, Opening, Closing, Waiting, state, kernel, Acting
  <2>2. CASE q # p
    BY <1>0, <1>1, <1>4, <2>2 DEF Knows, state, kernel
  <2> QED BY <2>1, <2>2
<1> QED BY <1>4, <1>5, <1>6, <1>7 DEF OwnerInv

(* After a loss of power nobody is at work, and what is left is what could  *)
(* be; and who interferes leaves the files alone.                           *)
LEMMA LossKeepsOwners ==
    ASSUME OwnerInv, LockInv', PowerLoss
    PROVE  OwnerInv'
<1>0. Disk /\ None \notin Procs
  BY TokensAssumption DEF OwnerInv
<1>1. /\ pc' = [p \in Procs |-> "idle"] /\ job' = [p \in Procs |-> NoJob]
      /\ registry' = None /\ lease' = [t \in Tokens |-> None] /\ UNCHANGED <<touched, drawn>>
  BY DEF PowerLoss
<1>2. PICK s \in [Tokens -> UNION {stOld[t] : t \in Tokens}],
           a \in [Tokens -> UNION {atOld[t] : t \in Tokens}] :
          /\ \A t \in Tokens : s[t] \in stOld[t] /\ a[t] \in atOld[t]
          /\ st' = s /\ stOld' = [t \in Tokens |-> {s[t]}]
          /\ stateDir' = (stateDir \/ \E t \in Tokens : s[t] # NoFiles)
          /\ at' = a /\ atOld' = [t \in Tokens |-> {a[t]}]
  BY DEF PowerLoss
<1>3. Disk'
  <2>1. FilesOK'
    BY <1>0, <1>1, <1>2 DEF Disk, FilesOK
  <2>2. NamesOK'
    BY <1>0, <1>1, <1>2 DEF Disk, NamesOK
  <2>3. LocksOK'
    BY <1>0, <1>1, <1>2 DEF Disk, LocksOK, OrNone
  <2> QED BY <2>1, <2>2, <2>3 DEF Disk
<1>4. NoJob \in JobRecords /\ "idle" \in Labels
  BY DEF NoJob, JobRecords, OrNone, Labels, Idle
<1>5. ASSUME NEW p \in Procs  PROVE Local(pc'[p], job'[p]) /\ Knows(p)'
  <2>1. pc'[p] = "idle" /\ job'[p] = NoJob
    BY <1>1
  <2> QED BY <1>4, <2>1 DEF Local, Knows, NoJob, Waiting, Registered, Acting, Opening, Publishing,
     Making, Moving, Closing, Leased
<1>6. Apart'
  BY <1>1 DEF Apart, NoJob, Waiting, OrNone
<1>7. pc' \in [Procs -> Labels] /\ job' \in [Procs -> JobRecords]
  BY <1>1, <1>4
<1> QED BY <1>3, <1>5, <1>6, <1>7 DEF OwnerInv

LEMMA InterferenceKeepsOwners ==
    ASSUME OwnerInv, LockInv', Interfere
    PROVE  OwnerInv'
<1>0. Disk /\ UNCHANGED <<pc, job, kernel, state, drawn>>
  BY DEF OwnerInv, Interfere
<1>1. NamesOK'
  <2>1. PICK t \in drawn, name \in {"orig", "clean"}, what \in {"none", "foreign"} :
            /\ at' = [at EXCEPT ![t] = [at[t] EXCEPT ![name] = what]]
            /\ atOld' = [atOld EXCEPT ![t] = @ \cup {[at[t] EXCEPT ![name] = what]}]
            /\ touched' = touched \cup {t}
    BY DEF Interfere
  <2>2. t \in Tokens /\ at[t] \in Names
    BY <1>0, <2>1 DEF Disk, LocksOK, NamesOK
  <2>3. [at[t] EXCEPT ![name] = what] \in Names
    BY <2>1, <2>2 DEF Names
  <2> QED BY <1>0, <2>1, <2>2, <2>3 DEF Disk, NamesOK
<1>2. Disk'
  BY <1>0, <1>1 DEF Disk, FilesOK, LocksOK, state, kernel
<1> QED BY <1>0, <1>2 DEF OwnerInv, Apart, Knows, state, kernel

(* OwnerInv is inductive.                                                   *)
LEMMA OwnerStep == OwnerInv /\ [Next]_vars => OwnerInv'
<1> SUFFICES ASSUME OwnerInv, [Next]_vars PROVE OwnerInv'
  OBVIOUS
<1>0. LockInv'
  BY LockStep DEF OwnerInv
<1>1. ASSUME NEW p \in Procs, Step(p) \/ Kill(p)  PROVE OwnerInv'
  <2>1. Sound(p)
    BY <1>1, LockingSound, RecoveringSound, JournalingSound, CreatingSound, CleaningSound,
       FailureSound, KillSound DEF Step
  <2> QED BY <1>0, <2>1, SoundKeeps
<1>2. CASE UNCHANGED vars
  BY <1>0, <1>2 DEF vars, kernel, state, names, OwnerInv, Disk, FilesOK, NamesOK, LocksOK, Apart,
     Knows
<1> QED BY <1>0, <1>1, <1>2, StartKeepsOwners, LossKeepsOwners, InterferenceKeepsOwners DEF Next

LEMMA OwnerInvariant == Spec => []OwnerInv
BY OwnerInit, OwnerStep, PTL DEF Spec

(* Every variable always holds a value of its kind, and what is on disk is  *)
(* among what a loss of power may leave: so a journal has a place for each  *)
(* generation _publish_journal draws, no recovery reads the latest of none, *)
(* and no temporary file is removed twice.                                  *)
THEOREM OwnedTypesCorrect == Spec => []TypeOK
<1>1. OwnerInv => TypeOK
  BY DEF OwnerInv, LockInv, Shaped, Disk, FilesOK, NamesOK, LocksOK, Ranked, TypeOK
<1> QED BY <1>1, OwnerInvariant, PTL

(* No two processes are ever at work on the same sibling: whoever is, holds *)
(* its lease, or the registry while the lease is not locked yet or already  *)
(* unlocked for its deletion; and _claim_dead_owner takes leases under the  *)
(* registry only.                                                           *)
THEOREM OwnersAreAlone == Spec => []OneOwner
BY OwnersApart, OwnerInvariant, PTL



---------------------------------------------------------------------------
(* Nothing of others is removed *)

BudgetOK == budget \in [Commands \cup {"accidents"} -> Nat]
ForeignInv == OwnerInv /\ BudgetOK

(* Commands and accidents are counted down.                                 *)
LEMMA BudgetSpent ==
    ASSUME BudgetOK, [Next]_vars
    PROVE  budget' = budget \/ \E what \in Commands \cup {"accidents"} : Spend(what)
<1>1. ASSUME NEW p \in Procs, Locking(p)  PROVE budget' = budget
  BY <1>1 DEF Locking, EnterLock, TryDestinationLock, EnterUnlock, PruneOwner, PruneOrphan,
     Pruned, PruneLockFile, RemoveStateDir, env
<1>2. ASSUME NEW p \in Procs, Recovering(p)  PROVE budget' = budget
  BY <1>2 DEF Recovering, EnterList, Claim, Recovered, env
<1>3. ASSUME NEW p \in Procs, Journaling(p)  PROVE budget' = budget
  BY <1>3 DEF Journaling, WriteJournal, PublishJournal, SyncJournal, TrimJournals, SyncTrim,
     Journaled, env
<1>4. ASSUME NEW p \in Procs, Creating(p)  PROVE budget' = budget
  BY <1>4 DEF Creating, EnterCreate, CreateMarker, TakeLease, SyncLease, MakeStage, MakeChild,
     PublishSibling, RemoveStage, SyncCreate, BindIdentity, WorkDone, env
<1>5. ASSUME NEW p \in Procs, Cleaning(p)  PROVE budget' = budget
  BY <1>5 DEF Cleaning, AcquireDirectory, Refuse, CheckDetach, Detach, SyncDetach, EmptyTree,
     RemoveTree, SyncRemove, EnterRetire, UnlinkMarker, SyncUnlink, RemoveJournals, env
<1>6. ASSUME NEW p \in Procs, JournalFails(p) \/ CreationFails(p) \/ Kill(p)
      PROVE  budget' = budget \/ Spend("accidents")
  BY <1>6 DEF JournalFails, CreationFails, Kill, Accident, env
<1>7. ASSUME NEW p \in Procs, NEW cmd \in Commands, Start(p, cmd)  PROVE Spend(cmd)
  BY <1>7 DEF Start
<1>8. ASSUME PowerLoss \/ Interfere  PROVE Spend("accidents")
  BY <1>8 DEF PowerLoss, Interfere, Accident
<1>9. UNCHANGED vars => budget' = budget
  BY DEF vars, env
<1> QED BY <1>1, <1>2, <1>3, <1>4, <1>5, <1>6, <1>7, <1>8, <1>9 DEF Next, Step

LEMMA BudgetKept == BudgetOK /\ [Next]_vars => BudgetOK'
<1> SUFFICES ASSUME BudgetOK, [Next]_vars PROVE BudgetOK'
  OBVIOUS
<1>1. ASSUME NEW what \in Commands \cup {"accidents"}, Spend(what)  PROVE BudgetOK'
  BY <1>1 DEF BudgetOK, Spend
<1> QED BY <1>1, BudgetSpent DEF BudgetOK

(* What a step may make of the names of a sibling without removing what is  *)
(* not ours: nothing, or a renaming of whatever bears the first name.       *)
NamesSpared(t) ==
    \/ \A name \in {"orig", "clean"} : at'[t][name] = "foreign" <=> at[t][name] = "foreign"
    \/ /\ at[t].clean = "none" /\ at'[t].orig = "none" /\ at'[t].clean = at[t].orig
LEMMA SparedCount ==
    ASSUME NEW t \in Tokens, NamesSpared(t)
    PROVE  Cardinality(Others(t)') >= Cardinality(Others(t))
<1>1. Cardinality(Others(t)) \in Nat
  <2>1. IsFiniteSet({"orig", "clean"})
    <3>1. IsFiniteSet({"orig"})
      BY FS_Singleton
    <3>2. {"orig"} \cup {"clean"} = {"orig", "clean"}
      OBVIOUS
    <3> QED BY <3>1, <3>2, FS_AddElement
  <2> QED BY <2>1, FS_Subset, FS_CardinalityType DEF Others
<1>2. CASE \A name \in {"orig", "clean"} : at'[t][name] = "foreign" <=> at[t][name] = "foreign"
  <2>1. Others(t)' = Others(t)
    BY <1>2 DEF Others
  <2> QED BY <1>1, <2>1
<1>3. CASE /\ at[t].clean = "none" /\ at'[t].orig = "none" /\ at'[t].clean = at[t].orig
  <2>1. CASE at[t].orig = "foreign"
    <3>1. Others(t) = {"orig"} /\ Others(t)' = {"clean"}
      BY <1>3, <2>1 DEF Others
    <3>2. Cardinality({"orig"}) = 1 /\ Cardinality({"clean"}) = 1
      BY FS_Singleton
    <3> QED BY <3>1, <3>2
  <2>2. CASE at[t].orig # "foreign"
    <3>1. Others(t) = {} /\ Others(t)' = {}
      BY <1>3, <2>2 DEF Others
    <3> QED BY <1>1, <3>1
  <2> QED BY <2>1, <2>2
<1> QED BY <1>2, <1>3 DEF NamesSpared

(* Every step of a process spares them.                                     *)
LEMMA StepSpares ==
    ASSUME OwnerInv, NEW p \in Procs, Step(p) \/ Kill(p), NEW u \in Tokens
    PROVE  NamesSpared(u)
<1> DEFINE t == job[p].tok
<1>0. DOMAIN at = Tokens /\ \A x \in Tokens : at[x] \in Names
  BY DEF OwnerInv, Disk, NamesOK
<1>1. at' = at => NamesSpared(u)
  BY DEF NamesSpared
<1>2. ASSUME NEW x, NEW stage, at' = [at EXCEPT ![x] = [at[x] EXCEPT !.stage = stage]]
      PROVE  NamesSpared(u)
  BY <1>0, <1>2 DEF NamesSpared, Names
<1>3. CASE Locking(p)
  BY <1>1, <1>3 DEF Locking, EnterLock, TryDestinationLock, EnterUnlock, PruneOwner, PruneOrphan,
     Pruned, PruneLockFile, RemoveStateDir, names
<1>4. CASE Recovering(p)
  BY <1>1, <1>4 DEF Recovering, EnterList, Claim, Recovered, names
<1>5. CASE Journaling(p) \/ JournalFails(p) \/ Kill(p)
  BY <1>1, <1>5 DEF Journaling, WriteJournal, PublishJournal, SyncJournal, TrimJournals, SyncTrim,
     Journaled, JournalFails, Kill, names
<1>6. CASE CreationFails(p)
  BY <1>2, <1>6 DEF CreationFails, WriteNames
<1>7. CASE Creating(p)
  <2>1. CASE PublishSibling(p)
    <3>1. at[t].orig = "none" /\ at' = [at EXCEPT ![t] = [at[t] EXCEPT !.orig = "own", !.stage = "empty"]]
      BY <2>1 DEF PublishSibling, WriteNames
    <3> QED BY <1>0, <3>1 DEF NamesSpared, Names
  <2>2. CASE MakeStage(p) \/ MakeChild(p) \/ RemoveStage(p)
    BY <1>2, <2>2 DEF MakeStage, MakeChild, RemoveStage, WriteNames
  <2>3. CASE EnterCreate(p) \/ CreateMarker(p) \/ TakeLease(p) \/ SyncLease(p)
              \/ SyncCreate(p) \/ BindIdentity(p) \/ WorkDone(p)
    BY <1>1, <2>3 DEF EnterCreate, CreateMarker, TakeLease, SyncLease, SyncCreate, BindIdentity,
       WorkDone, SyncNames, names
  <2> QED BY <1>7, <2>1, <2>2, <2>3 DEF Creating
<1>8. CASE Cleaning(p)
  <2>1. CASE Detach(p)
    <3>1. /\ at[t].clean = "none"
          /\ at' = [at EXCEPT ![t] = [at[t] EXCEPT !.orig = "none", !.clean = at[t].orig]]
      BY <2>1 DEF Detach, WriteNames
    <3> QED BY <1>0, <3>1 DEF NamesSpared, Names
  <2>2. CASE RemoveTree(p)
    <3>1. at[t].clean = "own" /\ at' = [at EXCEPT ![t] = [at[t] EXCEPT !.clean = "none"]]
      BY <2>2 DEF RemoveTree, WriteNames
    <3> QED BY <1>0, <3>1 DEF NamesSpared, Names
  <2>3. CASE \/ AcquireDirectory(p) \/ Refuse(p) \/ CheckDetach(p) \/ SyncDetach(p)
             \/ EmptyTree(p) \/ SyncRemove(p) \/ EnterRetire(p) \/ UnlinkMarker(p)
             \/ SyncUnlink(p) \/ RemoveJournals(p)
    BY <1>1, <2>3 DEF AcquireDirectory, Refuse, CheckDetach, SyncDetach, EmptyTree, SyncRemove,
       EnterRetire, UnlinkMarker, SyncUnlink, RemoveJournals, SyncNames, names
  <2> QED BY <1>8, <2>1, <2>2, <2>3 DEF Cleaning
<1> QED BY <1>3, <1>4, <1>5, <1>6, <1>7, <1>8 DEF Step

(* However late a check comes, the program removes nothing that somebody    *)
(* else put at a sibling's name: rmdir follows the check of the open        *)
(* directory, and the rename of _detach takes what is there aside only      *)
(* where nothing is yet.                                                    *)
THEOREM ForeignIsKept == Spec => ForeignKept
<1>1. Init => ForeignInv
  BY OwnerInit, BudgetsAssumption DEF Init, ForeignInv, BudgetOK
<1>2. ForeignInv /\ [Next]_vars => ForeignInv'
  BY OwnerStep, BudgetKept DEF ForeignInv
<1> DEFINE Spares == \A t \in Tokens :
        budget'["accidents"] = budget["accidents"]
            => Cardinality(Others(t)') >= Cardinality(Others(t))
<1>3. ForeignInv /\ [Next]_vars => [Spares]_vars
  <2> SUFFICES ASSUME ForeignInv, Next, NEW t \in Tokens,
                      budget'["accidents"] = budget["accidents"]
               PROVE  Cardinality(Others(t)') >= Cardinality(Others(t))
    OBVIOUS
  <2>1. CASE \E p \in Procs : Step(p) \/ Kill(p)
    BY <2>1, StepSpares, SparedCount DEF ForeignInv
  <2>2. CASE \E p \in Procs, cmd \in Commands : Start(p, cmd)
    <3>1. NamesSpared(t)
      BY <2>2 DEF Start, names, NamesSpared
    <3> QED BY <3>1, SparedCount
  <2>3. CASE PowerLoss \/ Interfere
    <3>1. Spend("accidents")
      BY <2>3 DEF PowerLoss, Interfere, Accident
    <3>2. budget["accidents"] \in Nat /\ budget'["accidents"] = budget["accidents"] - 1
      BY <3>1 DEF Spend, ForeignInv, BudgetOK
    <3> QED BY <3>2
  <2> QED BY <2>1, <2>2, <2>3 DEF Next
<1> QED BY <1>1, <1>2, <1>3, PTL DEF Spec, ForeignKept

---------------------------------------------------------------------------
(* Recovery *)

(* A recovery finds whatever is left of a sibling and can act on it.  Over  *)
(* the invariant of the owners, this one says what is on disk at each step  *)
(* of whoever is at work on a sibling, and that apart from the steps between *)
(* a write and its sync a loss of power takes nothing back.                 *)


Sure(s) == s.marker = "lease" /\ Journals(s) # {}
NoOwn(a) == a.orig # "own" /\ a.clean # "own"

(* The lease is announced, the first journal is not published yet.          *)
Announcing(label, j) ==
    \/ label \in Opening \cup {"lease_sync"}
    \/ label \in {"tmp", "publish"} /\ j.loc = "creating"
(* The last journal is that of the location in memory, as generation g.     *)
Last(s, g, loc) == s.jr[g] = loc /\ Journals(s) \subseteq 1..g
Published == {"publish_sync", "trim", "trim_sync", "journaled"}
Agreed == Making \cup Moving \cup {"work", "empty", "recheck", "rmdir", "rmdir_sync"}

(* What is in the state directory for whoever is at work at a label.        *)
FilesKnown(label, j, s) ==
    /\ Announcing(label, j) => Journals(s) = {}
    /\ label \in Published => Last(s, j.gen + 1, j.loc)
    /\ label \in Agreed => j.gen \in Gens /\ Last(s, j.gen, j.loc)
    /\ label \in {"empty", "recheck", "rmdir"} => j.loc = "cleanup"
    /\ label \in {"tmp", "publish"} /\ j.loc # "creating" =>
           Journals(s) # {} /\ Journals(s) \subseteq 1..(j.gen + 1)
    /\ label \in {"tmp", "publish"} /\ j.loc = "original" =>
           j.gen \in Gens /\ Last(s, j.gen, "creating")
    /\ label = "acquire" =>
           \/ j.gen \in Gens /\ Last(s, j.gen, j.loc)
           \/ /\ j.loc = "original" /\ Journals(s) # {} /\ Journals(s) \subseteq 1..(j.gen + 1)
              /\ Latest(s) \in {"creating", "original"}
(* No publication failed, so that memory is not behind the disk.            *)
Unfailed(label, j, s) ==
    label \in {"tmp", "publish", "acquire"} => Journals(s) \subseteq 1..j.gen

(* What bears the names of the sibling: never itself before it is made and  *)
(* after it is removed,                                                     *)
Vacant(label, j) ==
    \/ Announcing(label, j)
    \/ label \in Publishing /\ j.loc = "creating"
    \/ label \in Closing \cup {"stage", "child", "rename", "rmdir_sync", "retire"}
(* and while nobody else interferes.                                        *)
NamesKnown(label, j, a) ==
    /\ label \in {"stage", "child", "rename"} => a.orig = "none"
    /\ label = "unstage" => a.orig = "own"
    /\ label = "moved" => a.clean = "own"
    /\ label \in {"tmp", "publish"} /\ j.loc \in {"original", "detaching"} => a.orig = "own"
    /\ label \in {"tmp", "publish"} /\ j.loc = "cleanup" => a.clean = "own"

(* What a process at work on a sibling relies on of the disk, whoever else  *)
(* is there,                                                                *)
Informed(p) ==
    LET t == job[p].tok
    IN  /\ FilesKnown(pc[p], job[p], st[t])
        /\ "fail" \notin happened => Unfailed(pc[p], job[p], st[t])
        /\ Vacant(pc[p], job[p]) => NoOwn(at[t])
        /\ t \notin touched => NamesKnown(pc[p], job[p], at[t])
(* of the token it is to use, and of the state directory.                   *)
Prepared(p) ==
    LET t == job[p].fresh
    IN  Waiting(job[p]) => st[t] = NoFiles /\ NoOwn(at[t])
Housed(p) ==
    /\ pc[p] = "rmdir_state" => lockFile = None /\ OnlyLockFile
    /\ pc[p] \in {"lock_open"} \cup Opening \cup Closing => stateDir
Aware(p) ==
    /\ pc[p] \in Acting => Informed(p)
    /\ Prepared(p) /\ Housed(p)

(* Nobody is between a write and its sync.                                  *)
Unsynced == {"publish", "publish_sync", "trim_sync"}
Unsettled == {"child", "rename", "unstage", "create_sync", "moved", "rmdir_sync"}
Busy(p, t, labels) == job[p].tok = t /\ pc[p] \in labels
FilesSettled(t) == Sure(st[t]) => \/ stOld[t] = {st[t]}
                                  \/ \E p \in Procs : Busy(p, t, Unsynced)
NamesSettled(t) == \/ atOld[t] = {at[t]}
                   \/ \E p \in Procs : Busy(p, t, Unsettled)

Findable(s, a) == ~NoOwn(a) => Sure(s)
Agreeing(s, a) == s.marker # "none" /\ Journals(s) # {} /\ Latest(s) # "creating"
                      => Found(Latest(s), a) # "refused"
(* The names of a sibling are never both its own, and what bears them is    *)
(* not somebody else's unless somebody interferes.                          *)
NamesApart(t) == \A a \in atOld[t] :
    /\ ~(a.orig = "own" /\ a.clean = "own")
    /\ t \notin touched => a.orig # "foreign" /\ a.clean # "foreign"
Undrawn(t) == t \notin drawn => stOld[t] = {NoFiles} /\ atOld[t] = {Absent}
Recoverable(t) ==
    /\ t \in Promised => \A left \in Remains(t) : Findable(left[1], left[2])
    /\ t \in Promised \ touched => \A left \in Remains(t) : Agreeing(left[1], left[2])
    /\ ~Disturbed(t) => FilesSettled(t) /\ NamesSettled(t)
    /\ NamesApart(t) /\ Undrawn(t)

RecoveryInv ==
    /\ OwnerInv /\ StateDirKept
    /\ \A p \in Procs : Aware(p)
    /\ \A t \in Tokens : Recoverable(t)

---------------------------------------------------------------------------
(* Journals *)

(* The last generation names the latest location.                           *)
LEMMA LastIsLatest ==
    ASSUME NEW s, NEW g \in Gens, NEW loc, loc # None, Last(s, g, loc)
    PROVE  Journals(s) # {} /\ Max(Journals(s)) = g /\ Latest(s) = loc
<1>1. g \in Journals(s) /\ \A h \in Journals(s) : h \in 1..g
  BY DEF Last, Journals
<1>2. \A h \in Journals(s) : h \in 1..4 /\ g >= h
  BY <1>1 DEF Gens
<1>3. \A h \in Journals(s) : h >= g => h = g
  BY <1>2 DEF Gens
<1>4. Max(Journals(s)) \in Journals(s) /\ Max(Journals(s)) >= g
  BY <1>1, <1>2 DEF Max
<1> QED BY <1>1, <1>3, <1>4 DEF Latest, Last

(* and is found by whoever reads the latest.                                *)
LEMMA LatestIsLast ==
    ASSUME NEW s, Ranked(s), Journals(s) # {}
    PROVE  /\ Max(Journals(s)) \in Gens /\ Latest(s) \in Locations
           /\ Last(s, Max(Journals(s)), Latest(s))
<1>1. /\ Max(Journals(s)) \in Gens /\ Latest(s) \in Locations
      /\ \A h \in Journals(s) : Max(Journals(s)) >= h
  BY LatestJournal
<1>2. Journals(s) \subseteq Gens
  BY DEF Journals
<1>3. \A h \in Journals(s) : h \in 1..Max(Journals(s))
  BY <1>1, <1>2 DEF Gens
<1> QED BY <1>1, <1>3 DEF Last, Latest

(* A journal filed after the others is the last,                            *)
LEMMA FiledIsLast ==
    ASSUME NEW s \in Files, NEW g \in Gens, NEW loc \in Locations,
           Journals(s) \subseteq 1..g
    PROVE  Last([s EXCEPT !.jr[g] = loc, !.tmp = @ - 1], g, loc)
<1> DEFINE new == [s EXCEPT !.jr[g] = loc, !.tmp = @ - 1]
<1>1. \A h \in Gens : new.jr[h] = IF h = g THEN loc ELSE s.jr[h]
  BY DEF Files
<1>2. \A h \in Journals(new) : h = g \/ h \in Journals(s)
  BY <1>1 DEF Journals
<1>3. g \in 1..g
  BY DEF Gens
<1> QED BY <1>1, <1>2, <1>3 DEF Last

(* and stays the last when those before the last two go.                    *)
LEMMA TrimmedKeepsLast ==
    ASSUME NEW s \in Files, NEW g \in Gens, NEW loc, loc # None, Last(s, g, loc)
    PROVE  Last(WithoutJournals(s, Obsolete(s)), g, loc)
<1> DEFINE new == WithoutJournals(s, Obsolete(s))
<1>1. \A h \in Gens : new.jr[h] = IF h \in Obsolete(s) THEN None ELSE s.jr[h]
  BY DEF WithoutJournals, Files
<1>2. {h \in Journals(s) : h > g} = {}
  BY DEF Last, Gens
<1>3. Cardinality({h \in Journals(s) : h > g}) = 0
  BY <1>2, FS_EmptySet
<1>4. g \notin Obsolete(s)
  BY <1>3 DEF Obsolete
<1>5. Journals(new) \subseteq Journals(s)
  BY <1>1 DEF Journals
<1> QED BY <1>1, <1>4, <1>5 DEF Last

(* Files with the same journals are as good as each other.                  *)
LEMMA SameJournals ==
    ASSUME NEW s, NEW new, new.jr = s.jr
    PROVE  Journals(new) = Journals(s) /\ Latest(new) = Latest(s)
BY DEF Journals, Latest

---------------------------------------------------------------------------
(* What a step leaves to be found *)

(* What the argument starts from.                                           *)
LEMMA Known ==
    ASSUME RecoveryInv, NEW t \in Tokens
    PROVE  /\ OwnerInv /\ Disk /\ FilesOK /\ NamesOK /\ LocksOK
           /\ Recoverable(t) /\ StateDirKept
           /\ st[t] \in stOld[t] /\ at[t] \in atOld[t] /\ at[t] \in Names /\ Ranked(st[t])
           /\ st[t] \in Files /\ None \notin Procs /\ None \notin Tokens /\ None \notin Locations
           /\ <<st[t], at[t]>> \in Remains(t)
<1>1. OwnerInv /\ Disk /\ FilesOK /\ NamesOK /\ LocksOK
  BY DEF RecoveryInv, OwnerInv, Disk
<1>2. st[t] \in stOld[t] /\ at[t] \in atOld[t] /\ at[t] \in Names /\ Ranked(st[t])
  BY <1>1 DEF FilesOK, NamesOK
<1>3. <<st[t], at[t]>> \in Remains(t)
  BY <1>2 DEF Remains
<1> QED BY <1>1, <1>2, <1>3, TokensAssumption DEF RecoveryInv, Ranked

(* What happened stays happened.                                            *)
Aged == happened \subseteq happened' /\ touched \subseteq touched'
LEMMA Disturbance ==
    ASSUME Aged, NEW t
    PROVE  /\ Disturbed(t) => Disturbed(t)'
           /\ t \in Promised' => t \in Promised
BY DEF Aged, Disturbed, Lost, Promised

(* Only p moves: whoever else is between a write and its sync still is.     *)
LEMMA StillBusy ==
    ASSUME OwnerInv, NEW p \in Procs, Moves(p), NEW t, NEW labels,
           Busy(p, t, labels) => Busy(p, t, labels)',
           \E q \in Procs : Busy(q, t, labels)
    PROVE  \E q \in Procs : Busy(q, t, labels)'
<1>1. \A q \in Procs : q # p => pc'[q] = pc[q] /\ job'[q] = job[q]
  BY At DEF Moves
<1> QED BY <1>1 DEF Busy

(* Nothing is written of a token, at most synced.                           *)
Spared(t) ==
    /\ st'[t] = st[t] /\ stOld'[t] \in {stOld[t], {st[t]}}
    /\ at'[t] = at[t] /\ atOld'[t] \in {atOld[t], {at[t]}}
    /\ (t \in drawn') = (t \in drawn) /\ (t \in touched') = (t \in touched)
LEMMA SparedRecoverable ==
    ASSUME RecoveryInv, NEW t \in Tokens, Aged, Spared(t),
           ~Disturbed(t)' => /\ FilesSettled(t) => FilesSettled(t)'
                             /\ NamesSettled(t) => NamesSettled(t)'
    PROVE  Recoverable(t)'
<1>0. Recoverable(t) /\ st[t] \in stOld[t] /\ at[t] \in atOld[t]
  BY Known
<1>1. Remains(t)' \subseteq Remains(t)
  BY <1>0, Disturbance DEF Remains, Spared
<1>2. \A left \in Remains(t)' :
        /\ t \in Promised' => Findable(left[1], left[2])
        /\ t \in Promised' \ touched' => Agreeing(left[1], left[2])
  BY <1>0, <1>1, Disturbance DEF Recoverable, Spared
<1>3. ~Disturbed(t)' => FilesSettled(t)' /\ NamesSettled(t)'
  BY <1>0, Disturbance DEF Recoverable
<1>4. NamesApart(t)' /\ Undrawn(t)'
  <2>1. stOld[t] = {NoFiles} => stOld'[t] = {NoFiles}
    BY <1>0 DEF Spared
  <2>2. atOld'[t] \subseteq atOld[t] /\ (atOld[t] = {Absent} => atOld'[t] = {Absent})
    BY <1>0 DEF Spared
  <2> QED BY <1>0, <2>1, <2>2 DEF Recoverable, NamesApart, Undrawn, Spared
<1> QED BY <1>2, <1>3, <1>4 DEF Recoverable, Findable, Agreeing

(* Whoever is at work on a token is alone there: while it does not hold     *)
(* back a sync, a loss of power leaves the names as they are,               *)
LEMMA NamesAsTheyAre ==
    ASSUME RecoveryInv, NEW p \in Procs, pc[p] \in Acting \ Unsettled
    PROVE  \A left \in Remains(job[p].tok) : left[2] = at[job[p].tok]
<1> DEFINE t == job[p].tok
<1>0. t \in Tokens
  BY At DEF RecoveryInv, Local
<1>1. \A q \in Procs : ~Busy(q, t, Unsettled)
  BY OwnersApart DEF RecoveryInv, OneOwner, Busy, Unsettled, Acting
<1>2. ~Disturbed(t) => atOld[t] = {at[t]}
  BY <1>0, <1>1, Known DEF Recoverable, NamesSettled
<1> QED BY <1>0, <1>2 DEF Remains

(* or the files.                                                            *)
LEMMA FilesAsTheyAre ==
    ASSUME RecoveryInv, NEW p \in Procs, pc[p] \in Acting \ Unsynced, Sure(st[job[p].tok])
    PROVE  \A left \in Remains(job[p].tok) : left[1] = st[job[p].tok]
<1> DEFINE t == job[p].tok
<1>0. t \in Tokens
  BY At DEF RecoveryInv, Local
<1>1. \A q \in Procs : ~Busy(q, t, Unsynced)
  BY OwnersApart DEF RecoveryInv, OneOwner, Busy, Unsynced, Acting
<1>2. ~Disturbed(t) => stOld[t] = {st[t]}
  BY <1>0, <1>1, Known DEF Recoverable, FilesSettled
<1> QED BY <1>0, <1>2 DEF Remains

(* What a step of p may do to what others rely on: besides the sibling that *)
(* it is at work on, it removes files nobody holds, under the registry.     *)
Tidies(p) ==
    /\ Aged /\ touched' = touched
    /\ \A t \in Tokens : at'[t] = at[t] \/ (pc[p] \in Acting /\ t = job[p].tok)
    /\ \A t \in Tokens :
        \/ st'[t] = st[t] \/ (pc[p] \in Acting /\ t = job[p].tok)
        \/ pc[p] = "prune" /\ st[t] # NoFiles /\ (st[t].marker = "none" \/ lease[t] = None)
Keeps(p) == Tidies(p) /\ \A t \in Tokens : Recoverable(t)'

(* A step that writes nothing, and does not forget a sync.                  *)
Still(p) ==
    /\ UNCHANGED state \/ SyncFiles
    /\ UNCHANGED names \/ SyncNames
    /\ happened \subseteq happened'
    /\ \A t \in Tokens : /\ Busy(p, t, Unsynced) => SyncFiles \/ Disturbed(t)'
                         /\ Busy(p, t, Unsettled) => SyncNames \/ Disturbed(t)'
LEMMA StillStep ==
    ASSUME RecoveryInv, NEW p \in Procs, Sound(p), Still(p)
    PROVE  Keeps(p)
<1>1. Aged /\ touched' = touched /\ drawn' = drawn /\ st' = st /\ at' = at
  BY DEF Still, Aged, state, names, SyncFiles, SyncNames, Sound
<1>2. Tidies(p)
  BY <1>1 DEF Tidies
<1>3. ASSUME NEW t \in Tokens  PROVE Recoverable(t)'
  <2>0. OwnerInv /\ FilesOK /\ NamesOK /\ Moves(p)
    BY Known DEF Sound
  <2>1. Spared(t)
    BY <1>1, <2>0 DEF Spared, Still, state, names, SyncFiles, SyncNames
  <2>2. ASSUME ~Disturbed(t)', FilesSettled(t)  PROVE FilesSettled(t)'
    <3>1. CASE stOld'[t] = {st[t]}
      BY <1>1, <3>1 DEF FilesSettled
    <3>2. CASE stOld'[t] # {st[t]}
      <4>1. stOld'[t] = stOld[t] /\ ~SyncFiles
        BY <2>1, <3>2 DEF Spared, SyncFiles
      <4>2. ~Busy(p, t, Unsynced)
        BY <2>2, <4>1 DEF Busy, Still
      <4> QED BY <1>1, <2>0, <2>2, <4>1, <4>2, StillBusy DEF FilesSettled
    <3> QED BY <3>1, <3>2
  <2>3. ASSUME ~Disturbed(t)', NamesSettled(t)  PROVE NamesSettled(t)'
    <3>1. CASE atOld'[t] = {at[t]}
      BY <1>1, <3>1 DEF NamesSettled
    <3>2. CASE atOld'[t] # {at[t]}
      <4>1. atOld'[t] = atOld[t] /\ ~SyncNames
        BY <2>1, <3>2 DEF Spared, SyncNames
      <4>2. ~Busy(p, t, Unsettled)
        BY <2>3, <4>1 DEF Busy, Still
      <4> QED BY <1>1, <2>0, <2>3, <4>1, <4>2, StillBusy DEF NamesSettled
    <3> QED BY <3>1, <3>2
  <2> QED BY <1>1, <2>1, <2>2, <2>3, SparedRecoverable
<1> QED BY <1>2, <1>3 DEF Keeps

(* A token other than the one p writes is spared by the step.               *)
LEMMA OthersRecoverable ==
    ASSUME RecoveryInv, NEW p \in Procs, Moves(p), Aged, NEW t \in Tokens, Spared(t),
           job[p].tok # t, stOld'[t] = stOld[t], atOld'[t] = atOld[t]
    PROVE  Recoverable(t)'
<1>0. OwnerInv
  BY DEF RecoveryInv
<1>1. FilesSettled(t) => FilesSettled(t)'
  <2>1. ~Busy(p, t, Unsynced)
    BY DEF Busy
  <2> QED BY <1>0, <2>1, StillBusy DEF FilesSettled, Spared
<1>2. NamesSettled(t) => NamesSettled(t)'
  <2>1. ~Busy(p, t, Unsettled)
    BY DEF Busy
  <2> QED BY <1>0, <2>1, StillBusy DEF NamesSettled, Spared
<1> QED BY <1>1, <1>2, SparedRecoverable

(* It writes the files of the sibling it is at work on: what it writes      *)
(* agrees with the names, and a sync is to follow.                          *)
PutsFiles(p, t, new) ==
    /\ pc[p] \in Acting \ Unsettled /\ t = job[p].tok
    /\ WriteFiles(t, new) /\ UNCHANGED names /\ happened \subseteq happened'
    /\ Sure(new) => Disturbed(t)' \/ Busy(p, t, Unsynced)'
LEMMA FilesStep ==
    ASSUME RecoveryInv, NEW p \in Procs, Sound(p), NEW t, NEW new, PutsFiles(p, t, new),
           t \in Promised => Findable(new, at[t]),
           t \in Promised \ touched => Agreeing(new, at[t])
    PROVE  Keeps(p)
<1> USE DEF PutsFiles
<1>0. /\ t \in Tokens /\ t \in drawn /\ Moves(p) /\ drawn' = drawn /\ at' = at /\ atOld' = atOld
      /\ touched' = touched /\ Aged
      /\ pc \in [Procs -> Labels] /\ job \in [Procs -> JobRecords]
  <2>1. OwnerInv
    BY DEF RecoveryInv
  <2> QED BY <2>1, At DEF Local, Sound, OrNone, names, Aged
<1>1. /\ st' = [st EXCEPT ![t] = new] /\ stOld' = [stOld EXCEPT ![t] = @ \cup {new}]
      /\ DOMAIN st = Tokens /\ DOMAIN stOld = Tokens
  BY <1>0, Known DEF WriteFiles, FilesOK
<1>2. \A u \in Tokens : /\ st'[u] = IF u = t THEN new ELSE st[u]
                        /\ stOld'[u] = IF u = t THEN stOld[u] \cup {new} ELSE stOld[u]
  BY <1>1
<1>3. Tidies(p)
  BY <1>0, <1>2 DEF Tidies
<1>4. ASSUME NEW u \in Tokens, u # t  PROVE Recoverable(u)'
  BY <1>0, <1>2, <1>4, OthersRecoverable DEF Spared
<1>5. Recoverable(t)'
  <2>0. Recoverable(t) /\ at[t] \in atOld[t]
    BY <1>0, Known
  <2>1. ASSUME NEW left \in Remains(t)'
        PROVE  left[2] = at[t] /\ (left[1] = new \/ left \in Remains(t))
    <3>1. CASE Disturbed(t)'
      BY <1>0, <1>2, <3>1 DEF Remains
    <3>2. CASE ~Disturbed(t)'
      <4>1. left \in (stOld[t] \cup {new}) \X atOld[t]
        BY <1>0, <1>2, <3>2 DEF Remains
      <4>2. left[2] \in atOld[t] /\ left[1] \in stOld[t] \cup {new} /\ left = <<left[1], left[2]>>
        BY <4>1
      <4>3. ~Disturbed(t)
        BY <1>0, <3>2, Disturbance
      <4>4. left[1] # new => left \in Remains(t)
        BY <4>2, <4>3 DEF Remains
      <4>5. <<st[t], left[2]>> \in Remains(t)
        BY <1>0, <4>2, <4>3, Known DEF Remains
      <4>6. left[2] = at[t]
        BY <4>5, NamesAsTheyAre
      <4> QED BY <4>2, <4>4, <4>6
    <3> QED BY <3>1, <3>2
  <2>2. \A left \in Remains(t)' :
          /\ t \in Promised' => Findable(left[1], left[2])
          /\ t \in Promised' \ touched' => Agreeing(left[1], left[2])
    BY <1>0, <2>0, <2>1, Disturbance DEF Recoverable
  <2>3. ~Disturbed(t)' => FilesSettled(t)'
    BY <1>0, <1>2 DEF FilesSettled
  <2>4. ~Disturbed(t)' => NamesSettled(t)'
    <3>1. ~Busy(p, t, Unsettled)
      BY DEF Busy
    <3>2. NamesSettled(t) => NamesSettled(t)'
      BY <1>0, <3>1, Known, StillBusy DEF NamesSettled
    <3> QED BY <1>0, <2>0, <3>2, Disturbance DEF Recoverable
  <2>5. NamesApart(t)' /\ Undrawn(t)'
    BY <1>0, <2>0 DEF Recoverable, NamesApart, Undrawn
  <2> QED BY <2>2, <2>3, <2>4, <2>5 DEF Recoverable, Findable, Agreeing
<1> QED BY <1>3, <1>4, <1>5 DEF Keeps

(* It changes the names of its sibling: the files agree with the new ones,  *)
(* and a sync is to follow.                                                 *)
PutsNames(p, t, new) ==
    /\ pc[p] \in Acting \ Unsynced /\ t = job[p].tok /\ Sure(st[t])
    /\ WriteNames(t, new) /\ UNCHANGED state /\ happened \subseteq happened'
    /\ ~(new.orig = "own" /\ new.clean = "own")
    /\ t \notin touched => new.orig # "foreign" /\ new.clean # "foreign"
    /\ Disturbed(t)' \/ Busy(p, t, Unsettled)'
LEMMA NamesStep ==
    ASSUME RecoveryInv, NEW p \in Procs, Sound(p), NEW t, NEW new, PutsNames(p, t, new),
           t \notin touched => Agreeing(st[t], new)
    PROVE  Keeps(p)
<1> USE DEF PutsNames
<1>0. /\ t \in Tokens /\ t \in drawn /\ Moves(p) /\ drawn' = drawn /\ st' = st /\ stOld' = stOld
      /\ touched' = touched /\ Aged
      /\ pc \in [Procs -> Labels] /\ job \in [Procs -> JobRecords]
  <2>1. OwnerInv
    BY DEF RecoveryInv
  <2> QED BY <2>1, At DEF Local, Sound, OrNone, state, Aged, WriteNames
<1>1. /\ at' = [at EXCEPT ![t] = new] /\ atOld' = [atOld EXCEPT ![t] = @ \cup {new}]
      /\ DOMAIN at = Tokens /\ DOMAIN atOld = Tokens
  BY <1>0, Known DEF WriteNames, NamesOK
<1>2. \A u \in Tokens : /\ at'[u] = IF u = t THEN new ELSE at[u]
                        /\ atOld'[u] = IF u = t THEN atOld[u] \cup {new} ELSE atOld[u]
  BY <1>1
<1>3. Tidies(p)
  BY <1>0, <1>2 DEF Tidies
<1>4. ASSUME NEW u \in Tokens, u # t  PROVE Recoverable(u)'
  BY <1>0, <1>2, <1>4, OthersRecoverable DEF Spared
<1>5. Recoverable(t)'
  <2>0. Recoverable(t) /\ st[t] \in stOld[t]
    BY <1>0, Known
  <2>1. ASSUME NEW left \in Remains(t)'
        PROVE  left[1] = st[t] /\ (left[2] = new \/ left \in Remains(t))
    <3>1. CASE Disturbed(t)'
      BY <1>0, <1>2, <3>1 DEF Remains
    <3>2. CASE ~Disturbed(t)'
      <4>1. left \in stOld[t] \X (atOld[t] \cup {new})
        BY <1>0, <1>2, <3>2 DEF Remains
      <4>2. left[1] \in stOld[t] /\ left[2] \in atOld[t] \cup {new} /\ left = <<left[1], left[2]>>
        BY <4>1
      <4>3. ~Disturbed(t)
        BY <1>0, <3>2, Disturbance
      <4>4. left[2] # new => left \in Remains(t)
        BY <4>2, <4>3 DEF Remains
      <4>5. <<left[1], at[t]>> \in Remains(t)
        BY <1>0, <4>2, <4>3, Known DEF Remains
      <4>6. left[1] = st[t]
        BY <4>5, FilesAsTheyAre
      <4> QED BY <4>2, <4>4, <4>6
    <3> QED BY <3>1, <3>2
  <2>2. \A left \in Remains(t)' :
          /\ t \in Promised' => Findable(left[1], left[2])
          /\ t \in Promised' \ touched' => Agreeing(left[1], left[2])
    BY <1>0, <2>0, <2>1, Disturbance DEF Recoverable, Findable
  <2>3. ~Disturbed(t)' => NamesSettled(t)'
    BY <1>0, <1>2 DEF NamesSettled
  <2>4. ~Disturbed(t)' => FilesSettled(t)'
    <3>1. ~Busy(p, t, Unsynced)
      BY DEF Busy
    <3>2. FilesSettled(t) => FilesSettled(t)'
      BY <1>0, <3>1, Known, StillBusy DEF FilesSettled
    <3> QED BY <1>0, <2>0, <3>2, Disturbance DEF Recoverable
  <2>5. NamesApart(t)' /\ Undrawn(t)'
    BY <1>0, <1>2, <2>0 DEF Recoverable, NamesApart, Undrawn
  <2> QED BY <2>2, <2>3, <2>4, <2>5 DEF Recoverable, Findable, Agreeing
<1> QED BY <1>3, <1>4, <1>5 DEF Keeps

(* It removes files that nobody holds and no sibling needs: as they are not *)
(* sure, nothing bears the names.                                           *)
Prunes(p, t, new) ==
    /\ pc[p] = "prune" /\ t \in Tokens /\ WriteFiles(t, new) /\ UNCHANGED names
    /\ happened \subseteq happened'
    /\ ~Sure(st[t]) /\ st[t] # NoFiles /\ (st[t].marker = "none" \/ lease[t] = None)
    /\ new.marker = "none"
LEMMA PruneStep ==
    ASSUME RecoveryInv, NEW p \in Procs, Sound(p), NEW t, NEW new, Prunes(p, t, new)
    PROVE  Keeps(p)
<1> USE DEF Prunes
<1>0. /\ Moves(p) /\ drawn' = drawn /\ at' = at /\ atOld' = atOld
      /\ touched' = touched /\ Aged
      /\ pc \in [Procs -> Labels] /\ job \in [Procs -> JobRecords]
      /\ Recoverable(t) /\ at[t] \in atOld[t] /\ st[t] \in stOld[t]
  <2>1. OwnerInv
    BY DEF RecoveryInv
  <2> QED BY <2>1, At, Known DEF Sound, names, Aged
<1>1. /\ st' = [st EXCEPT ![t] = new] /\ stOld' = [stOld EXCEPT ![t] = @ \cup {new}]
      /\ DOMAIN st = Tokens /\ DOMAIN stOld = Tokens
  BY Known DEF WriteFiles, FilesOK
<1>2. \A u \in Tokens : /\ st'[u] = IF u = t THEN new ELSE st[u]
                        /\ stOld'[u] = IF u = t THEN stOld[u] \cup {new} ELSE stOld[u]
  BY <1>1
<1>3. Tidies(p)
  BY <1>0, <1>2 DEF Tidies
<1>4. ASSUME NEW u \in Tokens, u # t  PROVE Recoverable(u)'
  <2>1. \A labels \in {Unsynced, Unsettled} : ~Busy(p, u, labels)
    BY DEF Busy, Unsynced, Unsettled
  <2>2. /\ FilesSettled(u) => FilesSettled(u)'
        /\ NamesSettled(u) => NamesSettled(u)'
    BY <1>0, <1>2, <1>4, <2>1, Known, StillBusy DEF FilesSettled, NamesSettled
  <2> QED BY <1>0, <1>2, <1>4, <2>2, SparedRecoverable DEF Spared
<1>5. Recoverable(t)'
  <2>1. ASSUME NEW left \in Remains(t)', t \in Promised
        PROVE  (left[1] = new /\ NoOwn(left[2])) \/ left \in Remains(t)
    <3>1. left[2] \in atOld[t] /\ left[1] \in stOld[t] \cup {new} /\ left = <<left[1], left[2]>>
      <4>1. CASE Disturbed(t)'
        <5>1. left \in {new} \X {at[t]}
          BY <1>0, <1>2, <4>1 DEF Remains
        <5> QED BY <1>0, <5>1
      <4>2. CASE ~Disturbed(t)'
        <5>1. left \in (stOld[t] \cup {new}) \X atOld[t]
          BY <1>0, <1>2, <4>2 DEF Remains
        <5> QED BY <5>1
      <4> QED BY <4>1, <4>2
    <3>2. CASE Disturbed(t)'
      <4>1. left \in {new} \X {at[t]}
        BY <1>0, <1>2, <3>2 DEF Remains
      <4>2. NoOwn(at[t])
        BY <1>0, <2>1, Known DEF Recoverable, Findable
      <4> QED BY <4>1, <4>2
    <3>3. CASE ~Disturbed(t)'
      <4>1. ~Disturbed(t)
        BY <1>0, <3>3, Disturbance
      <4>2. <<st[t], left[2]>> \in Remains(t)
        BY <1>0, <3>1, <4>1 DEF Remains
      <4>3. NoOwn(left[2])
        BY <1>0, <2>1, <4>2 DEF Recoverable, Findable
      <4>4. left[1] # new => left \in Remains(t)
        BY <3>1, <4>1 DEF Remains
      <4> QED BY <4>3, <4>4
    <3> QED BY <3>2, <3>3
  <2>2. \A left \in Remains(t)' :
          /\ t \in Promised' => Findable(left[1], left[2])
          /\ t \in Promised' \ touched' => Agreeing(left[1], left[2])
    BY <1>0, <2>1, Disturbance DEF Recoverable, Findable, Agreeing
  <2>3. FilesSettled(t)'
    BY <1>2 DEF FilesSettled, Sure
  <2>4. ~Disturbed(t)' => NamesSettled(t)'
    <3>1. ~Busy(p, t, Unsettled)
      BY DEF Busy, Unsettled
    <3>2. NamesSettled(t) => NamesSettled(t)'
      BY <1>0, <3>1, Known, StillBusy DEF NamesSettled
    <3> QED BY <1>0, <3>2, Disturbance DEF Recoverable
  <2>5. NamesApart(t)' /\ Undrawn(t)'
    BY <1>0 DEF Recoverable, NamesApart, Undrawn
  <2> QED BY <2>2, <2>3, <2>4, <2>5 DEF Recoverable, Findable, Agreeing
<1> QED BY <1>3, <1>4, <1>5 DEF Keeps

---------------------------------------------------------------------------
(* What a step leaves of what the others rely on *)

(* p changes the lock file and the state directory under the registry.      *)
Minds(p) ==
    /\ lockFile' = lockFile \/ pc[p] \in {"lock_open", "entries"}
    /\ stateDir' = stateDir \/ stateDir' = TRUE \/ pc[p] = "rmdir_state"

(* Nobody touches the sibling somebody else is at work on,                  *)
LEMMA OthersUntouched ==
    ASSUME RecoveryInv, NEW p \in Procs, NEW q \in Procs, q # p, Tidies(p), pc[q] \in Acting
    PROVE  st'[job[q].tok] = st[job[q].tok] /\ at'[job[q].tok] = at[job[q].tok]
<1> DEFINE t == job[q].tok
<1>0. /\ OwnerInv /\ Local(pc[q], job[q]) /\ Knows(q) /\ Knows(p) /\ t \in Tokens /\ None \notin Procs
  <2>1. OwnerInv
    BY DEF RecoveryInv
  <2> QED BY <2>1, At DEF Local
<1>1. ~(pc[p] \in Acting /\ job[p].tok = t)
  BY <1>0, OwnersApart DEF OneOwner
<1>2. CASE pc[q] \in Leased
  <2>1. lease[t] = q /\ st[t].marker = "lease"
    BY <1>0, <1>2 DEF Knows
  <2> QED BY <1>0, <1>1, <2>1 DEF Tidies
<1>3. CASE pc[q] \in Opening \cup Closing
  <2>1. registry = q
    BY <1>0, <1>3 DEF Knows, Registered
  <2>2. pc[p] = "prune" => registry = p
    BY <1>0 DEF Knows, Registered
  <2> QED BY <1>0, <1>1, <2>1, <2>2 DEF Tidies
<1> QED BY <1>2, <1>3 DEF Leased

(* or the token somebody is to use.                                         *)
LEMMA StayPrepared ==
    ASSUME RecoveryInv, NEW p \in Procs, NEW q \in Procs, Sound(p), Tidies(p)
    PROVE  Prepared(q)'
<1> SUFFICES ASSUME Waiting(job'[q])
             PROVE  LET t == job'[q].fresh
                    IN  st'[t] = NoFiles /\ NoOwn(at'[t])
  BY DEF Prepared
<1>0. /\ OwnerInv /\ job[q] \in JobRecords /\ Apart
      /\ Moves(p) /\ Binds(p) /\ job \in [Procs -> JobRecords] /\ Aware(q)
  <2>1. OwnerInv
    BY DEF RecoveryInv
  <2> QED BY <2>1, At DEF RecoveryInv, OwnerInv, Sound
<1>1. Waiting(job[q]) /\ job'[q].fresh = job[q].fresh
  BY <1>0 DEF Moves, Binds, Waiting, NoJob
<1>2. job[q].fresh \in Tokens /\ job[p].tok # job[q].fresh
  BY <1>0, <1>1 DEF Waiting, JobRecords, OrNone, Apart
<1>3. st[job[q].fresh] = NoFiles /\ NoOwn(at[job[q].fresh])
  BY <1>0, <1>1 DEF Aware, Prepared
<1> QED BY <1>1, <1>2, <1>3 DEF Tidies, NoOwn

(* So whoever does not move still knows.                                    *)
LEMMA OthersStayAware ==
    ASSUME RecoveryInv, NEW p \in Procs, NEW q \in Procs, q # p, Sound(p), Tidies(p), Minds(p)
    PROVE  Aware(q)'
<1>0. /\ OwnerInv /\ Knows(q) /\ Knows(p) /\ Aware(q) /\ Aware(p) /\ Disk /\ None \notin Procs
      /\ pc'[q] = pc[q] /\ job'[q] = job[q] /\ Local(pc[q], job[q])
  <2>1. OwnerInv
    BY DEF RecoveryInv
  <2> QED BY <2>1, At DEF RecoveryInv, Sound, Moves
<1>1. pc'[q] \in Acting => Informed(q)'
  <2>1. ASSUME pc[q] \in Acting  PROVE Informed(q)'
    <3>1. /\ Informed(q)
          /\ st'[job[q].tok] = st[job[q].tok] /\ at'[job[q].tok] = at[job[q].tok]
      BY <1>0, <2>1, OthersUntouched DEF Aware
    <3>2. touched' = touched /\ happened \subseteq happened'
      BY DEF Tidies, Aged
    <3> QED BY <1>0, <3>1, <3>2 DEF Informed
  <2> QED BY <1>0, <2>1
<1>2. Prepared(q)'
  BY StayPrepared
<1>3. registry # q \/ pc[p] \notin {"lock_open", "entries", "rmdir_state", "prune"} \cup Opening \cup Closing
  BY <1>0 DEF Knows, Registered
<1>4. Housed(q)'
  <2>1. ASSUME pc[q] = "rmdir_state"  PROVE lockFile' = None /\ OnlyLockFile'
    <3>1. registry = q /\ lockFile = None /\ \A t \in Tokens : st[t] = NoFiles
      BY <1>0, <2>1 DEF Knows, Registered, Aware, Housed, OnlyLockFile
    <3>2. pc[p] \notin Acting
      <4>1. pc[p] \in Leased => job[p].tok \in Tokens /\ st[job[p].tok].marker = "lease"
        BY <1>0, At DEF Knows, Local, Leased
      <4>2. pc[p] \notin Leased
        BY <3>1, <4>1 DEF NoFiles
      <4> QED BY <1>3, <3>1, <4>2 DEF Leased
    <3>3. pc[p] \notin {"lock_open", "entries", "prune"}
      BY <1>3, <3>1
    <3> QED BY <3>1, <3>2, <3>3 DEF Tidies, Minds, OnlyLockFile
  <2>2. ASSUME pc[q] \in {"lock_open"} \cup Opening \cup Closing  PROVE stateDir'
    <3>1. registry = q /\ stateDir
      BY <1>0, <2>2 DEF Knows, Registered, Aware, Housed
    <3> QED BY <1>3, <3>1 DEF Minds
  <2> QED BY <1>0, <2>1, <2>2 DEF Housed
<1> QED BY <1>1, <1>2, <1>4 DEF Aware

(* The state directory stays while anything is in it.                       *)
LEMMA StateDirStays ==
    ASSUME RecoveryInv, NEW p \in Procs, Tidies(p),
           stateDir' = stateDir \/ stateDir' = TRUE,
           lockFile' \in {lockFile, None} \/ stateDir,
           \A i \in Inodes : flock'[i] \in {flock[i], None} \/ stateDir
    PROVE  StateDirKept'
<1> SUFFICES ASSUME ~stateDir'
             PROVE  /\ lockFile' = None /\ \A i \in Inodes : flock'[i] = None
                    /\ \A t \in Tokens : st'[t] = NoFiles
  BY DEF StateDirKept
<1>0. OwnerInv /\ Knows(p) /\ Local(pc[p], job[p]) /\ Aware(p)
  <2>1. OwnerInv
    BY DEF RecoveryInv
  <2> QED BY <2>1, At DEF RecoveryInv
<1>1. ~stateDir
  OBVIOUS
<1>2. /\ lockFile = None /\ \A i \in Inodes : flock[i] = None
      /\ \A t \in Tokens : st[t] = NoFiles
  BY <1>1 DEF RecoveryInv, StateDirKept
<1>3. pc[p] \notin Acting
  <2>1. pc[p] \in Leased => job[p].tok \in Tokens /\ st[job[p].tok].marker = "lease"
    BY <1>0 DEF Knows, Local, Leased
  <2>2. pc[p] \notin Leased
    BY <1>2, <2>1 DEF NoFiles
  <2> QED BY <1>0, <1>1, <2>2 DEF Leased, Aware, Housed
<1> QED BY <1>1, <1>2, <1>3 DEF Tidies

---------------------------------------------------------------------------
(* The steps *)

(* What a step is to keep.                                                  *)
Safe(p) ==
    /\ Keeps(p) /\ Minds(p) /\ StateDirKept' /\ Housed(p)'
    /\ pc'[p] \in Acting => Informed(p)'
LEMMA SafeKeeps ==
    ASSUME RecoveryInv, OwnerInv', NEW p \in Procs, Sound(p), Safe(p)
    PROVE  RecoveryInv'
<1>1. ASSUME NEW q \in Procs  PROVE Aware(q)'
  <2>1. CASE q = p
    BY <2>1, StayPrepared DEF Safe, Keeps, Aware
  <2>2. CASE q # p
    BY <2>2, OthersStayAware DEF Safe, Keeps
  <2> QED BY <2>1, <2>2
<1> QED BY <1>1 DEF Safe, Keeps, RecoveryInv

(* A step that leaves the locks of the destination alone.                   *)
Calm(p) ==
    /\ UNCHANGED lockFile
    /\ UNCHANGED stateDir \/ stateDir' = TRUE
    /\ \A i \in Inodes : flock'[i] \in {flock[i], None}
    /\ pc'[p] # "rmdir_state"
    /\ pc'[p] \in {"lock_open"} \cup Opening \cup Closing => stateDir'
LEMMA CalmStep ==
    ASSUME RecoveryInv, NEW p \in Procs, Keeps(p), Calm(p),
           pc'[p] \in Acting => Informed(p)'
    PROVE  Safe(p)
<1>1. Minds(p)
  BY DEF Calm, Minds
<1>2. StateDirKept'
  BY StateDirStays DEF Calm, Keeps
<1>3. Housed(p)'
  BY DEF Calm, Housed
<1> QED BY <1>1, <1>2, <1>3 DEF Safe

(* What the steps of somebody at work start from.                           *)
LEMMA AtWork ==
    ASSUME RecoveryInv, NEW p \in Procs, pc[p] \in Acting
    PROVE  LET t == job[p].tok
           IN  /\ t \in Tokens /\ Informed(p) /\ Knows(p) /\ Local(pc[p], job[p])
               /\ pc \in [Procs -> Labels] /\ job \in [Procs -> JobRecords] /\ job[p] \in JobRecords
               /\ job[p].loc \in Locations /\ job[p].gen \in 0..4
               /\ st[t] \in Files /\ Ranked(st[t]) /\ at[t] \in Names
               /\ pc[p] \in Leased => st[t].marker = "lease" /\ lease[t] = p /\ stateDir
<1>1. OwnerInv /\ Aware(p)
  BY DEF RecoveryInv
<1>2. job[p].tok \in Tokens
  BY <1>1, At DEF Local
<1>3. /\ st[job[p].tok] \in Files /\ Ranked(st[job[p].tok]) /\ at[job[p].tok] \in Names
      /\ StateDirKept
  BY <1>2, Known
<1>4. pc[p] \in Leased => st[job[p].tok].marker = "lease" /\ lease[job[p].tok] = p
  BY <1>1, At DEF Knows
<1>5. pc[p] \in Leased => stateDir
  BY <1>2, <1>3, <1>4 DEF StateDirKept, NoFiles
<1> QED BY <1>1, <1>2, <1>3, <1>4, <1>5, At DEF Aware, Local, JobRecords

(* Files with the same lease and the same journals as those there are.      *)
LEMMA SameFiles ==
    ASSUME RecoveryInv, NEW t \in Tokens, NEW new, new.jr = st[t].jr, new.marker = st[t].marker
    PROVE  /\ t \in Promised => Findable(new, at[t])
           /\ t \in Promised \ touched => Agreeing(new, at[t])
           /\ Journals(new) = Journals(st[t]) /\ Latest(new) = Latest(st[t])
<1>1. Journals(new) = Journals(st[t]) /\ Latest(new) = Latest(st[t])
  BY SameJournals
<1>2. /\ t \in Promised => Findable(st[t], at[t])
      /\ t \in Promised \ touched => Agreeing(st[t], at[t])
  BY Known DEF Recoverable
<1> QED BY <1>1, <1>2 DEF Findable, Agreeing, Sure

(* The names of a sibling nobody interfered with.                           *)
LEMMA NamesOfOwn ==
    ASSUME RecoveryInv, NEW t \in Tokens
    PROVE  /\ at[t] \in Names /\ ~(at[t].orig = "own" /\ at[t].clean = "own")
           /\ t \notin touched => at[t].orig \in {"none", "own"} /\ at[t].clean \in {"none", "own"}
BY Known DEF Recoverable, NamesApart, Names

(* Publishing a journal: the files agree with the names at every version.   *)
LEMMA JournalingSafe ==
    ASSUME RecoveryInv, NEW p \in Procs, Journaling(p)
    PROVE  Safe(p)
<1> DEFINE t == job[p].tok
           s == st[t]
           j == job[p]
           g == job[p].gen + 1
<1>0. pc[p] \in Publishing /\ pc[p] \in Leased /\ pc[p] \in Acting
  BY DEF Journaling, WriteJournal, PublishJournal, SyncJournal, TrimJournals, SyncTrim,
     Journaled, Publishing, Leased, Acting, Opening, Closing
<1>1. /\ t \in Tokens /\ Informed(p) /\ Local(pc[p], j) /\ stateDir
      /\ pc \in [Procs -> Labels] /\ job \in [Procs -> JobRecords]
      /\ j.loc \in Locations /\ j.gen \in 0..4 /\ g \in Gens
      /\ s \in Files /\ Ranked(s) /\ s.marker = "lease"
  <2>1. g \in Gens
    <3>1. j.gen < Rank[j.loc] /\ j.loc \in Locations /\ j.gen \in 0..4
      BY <1>0, AtWork DEF Local
    <3>2. Rank[j.loc] \in 1..4
      BY <3>1 DEF Rank, Locations
    <3> QED BY <3>1, <3>2 DEF Gens
  <2> QED BY <1>0, <2>1, AtWork
<1>2. OwnerInv /\ Sound(p) /\ None \notin Locations
  BY <1>1, JournalingSound, Known DEF RecoveryInv
<1>3. /\ FilesKnown(pc[p], j, s) /\ ("fail" \notin happened => Unfailed(pc[p], j, s))
      /\ Vacant(pc[p], j) => NoOwn(at[t])
      /\ t \notin touched => NamesKnown(pc[p], j, at[t])
  BY <1>1 DEF Informed
<1>4. ASSUME Keeps(p), UNCHANGED <<lockFile, flock, stateDir>>,
             pc'[p] \in Acting => Informed(p)', pc'[p] \notin Opening \cup Closing,
             pc'[p] \in Acting
      PROVE  Safe(p)
  BY <1>1, <1>4, CalmStep DEF Calm, Acting
<1> USE DEF Publishing, Unsynced, Unsettled, Acting, Opening, Closing
<1>5. CASE WriteJournal(p)
  <2> DEFINE new == [s EXCEPT !.tmp = @ + 1]
  <2>1. /\ pc[p] = "tmp" /\ WriteFiles(t, new) /\ pc' = [pc EXCEPT ![p] = "publish"]
        /\ job' = job /\ UNCHANGED <<kernel, names, drawn, env>>
    BY <1>5 DEF WriteJournal, Goto
  <2>2. new.jr = s.jr /\ new.marker = s.marker
    BY <1>1 DEF Files
  <2>3. /\ t \in Promised => Findable(new, at[t])
        /\ t \in Promised \ touched => Agreeing(new, at[t])
        /\ Journals(new) = Journals(s)
    BY <1>1, <2>2, SameFiles
  <2>4. PutsFiles(p, t, new)
    BY <1>0, <1>1, <2>1 DEF PutsFiles, Busy, names, env
  <2>5. Keeps(p)
    BY <1>2, <2>3, <2>4, FilesStep
  <2>6. st'[t] = new /\ at' = at /\ touched' = touched /\ happened' = happened
        /\ pc'[p] = "publish" /\ job'[p] = j
    BY <1>1, <2>1, Known DEF WriteFiles, FilesOK, names, env
  <2>7. FilesKnown("publish", j, new)
    BY <1>3, <2>1, <2>2, <2>3 DEF FilesKnown, Announcing, Last, Published, Agreed, Making, Moving
  <2>8. Informed(p)'
    <3>1. "fail" \notin happened' => Unfailed("publish", j, new)
      BY <1>3, <2>1, <2>3, <2>6 DEF Unfailed
    <3>2. Vacant("publish", j) => NoOwn(at'[t])
      BY <1>3, <2>1, <2>6 DEF Vacant, Announcing
    <3>3. t \notin touched' => NamesKnown("publish", j, at'[t])
      BY <1>3, <2>1, <2>6 DEF NamesKnown
    <3> QED BY <2>6, <2>7, <3>1, <3>2, <3>3 DEF Informed
  <2> QED BY <1>4, <2>1, <2>5, <2>6, <2>8 DEF kernel
<1>6. CASE PublishJournal(p)
  <2> DEFINE new == [s EXCEPT !.jr[g] = j.loc, !.tmp = @ - 1]
  <2>1. /\ pc[p] = "publish" /\ s.jr[g] = None /\ WriteFiles(t, new)
        /\ pc' = [pc EXCEPT ![p] = "publish_sync"]
        /\ job' = job /\ UNCHANGED <<kernel, names, drawn, env>>
    BY <1>6 DEF PublishJournal, Goto
  <2>2. Journals(s) \subseteq 1..g
    BY <1>1, <1>3, <2>1 DEF FilesKnown, Announcing
  <2>3. new.marker = "lease" /\ Last(new, g, j.loc)
    BY <1>1, <2>2, FiledIsLast DEF Files
  <2>4. Journals(new) # {} /\ Latest(new) = j.loc
    BY <1>1, <1>2, <2>3, LastIsLatest
  <2>5. t \notin touched => Agreeing(new, at[t])
    <3>1. ASSUME t \notin touched, j.loc # "creating"  PROVE Found(j.loc, at[t]) # "refused"
      <4>1. NamesKnown("publish", j, at[t])
        BY <1>3, <2>1, <3>1
      <4>2. /\ at[t].orig \in {"none", "own"} /\ at[t].clean \in {"none", "own"}
            /\ ~(at[t].orig = "own" /\ at[t].clean = "own")
        BY <1>1, <3>1, NamesOfOwn
      <4> QED BY <1>1, <3>1, <4>1, <4>2 DEF NamesKnown, Found, Locations
    <3> QED BY <2>4, <3>1 DEF Agreeing
  <2>6. PutsFiles(p, t, new)
    BY <1>0, <1>1, <2>1 DEF PutsFiles, Busy, names, env
  <2>7. Keeps(p)
    BY <1>2, <2>3, <2>4, <2>5, <2>6, FilesStep DEF Findable, Sure
  <2>8. st'[t] = new /\ at' = at /\ touched' = touched /\ happened' = happened
        /\ pc'[p] = "publish_sync" /\ job'[p] = j
    BY <1>1, <2>1, Known DEF WriteFiles, FilesOK, names, env
  <2>9. FilesKnown("publish_sync", j, new)
    BY <2>3 DEF FilesKnown, Announcing, Published, Agreed, Making, Moving
  <2>10. Informed(p)'
    <3>1. Unfailed("publish_sync", j, new) /\ NamesKnown("publish_sync", j, at'[t])
      BY DEF Unfailed, NamesKnown
    <3>2. Vacant("publish_sync", j) => NoOwn(at'[t])
      BY <1>3, <2>1, <2>8 DEF Vacant, Announcing
    <3> QED BY <2>8, <2>9, <3>1, <3>2 DEF Informed
  <2> QED BY <1>4, <2>1, <2>7, <2>8, <2>10 DEF kernel
<1>7. CASE SyncJournal(p) \/ SyncTrim(p)
  <2>1. PICK label \in {"journaled", "trim"} :
          /\ pc[p] \in {"publish_sync", "trim_sync"} /\ SyncFiles
          /\ pc' = [pc EXCEPT ![p] = label]
          /\ job' = job /\ UNCHANGED <<kernel, names, drawn, env>>
    BY <1>7 DEF SyncJournal, SyncTrim, Goto
  <2>2. Still(p)
    BY <2>1 DEF Still, Busy, env
  <2>3. Keeps(p)
    BY <1>2, <2>2, StillStep
  <2>4. st' = st /\ at' = at /\ touched' = touched /\ pc'[p] = label /\ job'[p] = j
    BY <1>1, <2>1 DEF SyncFiles, names
  <2>5. FilesKnown(label, j, s) /\ Unfailed(label, j, s) /\ NamesKnown(label, j, at[t])
    BY <1>3, <2>1 DEF FilesKnown, Unfailed, NamesKnown, Announcing, Published, Agreed, Making, Moving
  <2>6. Vacant(label, j) => NoOwn(at[t])
    BY <1>3, <2>1 DEF Vacant, Announcing
  <2> QED BY <1>4, <2>1, <2>3, <2>4, <2>5, <2>6 DEF kernel, Informed
<1>8. CASE TrimJournals(p)
  <2> DEFINE new == WithoutJournals(s, Obsolete(s))
  <2>1. /\ pc[p] = "trim" /\ WriteFiles(t, new)
        /\ pc' = [pc EXCEPT ![p] = "trim_sync"]
        /\ job' = job /\ UNCHANGED <<kernel, names, drawn, env>>
    BY <1>8 DEF TrimJournals, Goto
  <2>2. Last(s, g, j.loc)
    BY <1>3, <2>1 DEF FilesKnown, Published
  <2>3. Last(new, g, j.loc) /\ new.marker = "lease"
    BY <1>1, <1>2, <2>2, TrimmedKeepsLast DEF WithoutJournals, Files
  <2>4. Journals(new) # {} /\ Latest(new) = Latest(s) /\ Journals(s) # {}
    BY <1>1, <1>2, <2>2, <2>3, LastIsLatest
  <2>5. t \in Promised \ touched => Agreeing(new, at[t])
    BY <1>1, <2>4, Known DEF Recoverable, Agreeing
  <2>6. PutsFiles(p, t, new)
    BY <1>0, <1>1, <2>1 DEF PutsFiles, Busy, names, env
  <2>7. Keeps(p)
    BY <1>2, <2>3, <2>4, <2>5, <2>6, FilesStep DEF Findable, Sure
  <2>8. st'[t] = new /\ at' = at /\ touched' = touched /\ happened' = happened
        /\ pc'[p] = "trim_sync" /\ job'[p] = j
    BY <1>1, <2>1, Known DEF WriteFiles, FilesOK, names, env
  <2>9. FilesKnown("trim_sync", j, new)
    BY <2>3 DEF FilesKnown, Announcing, Published, Agreed, Making, Moving
  <2>10. Informed(p)'
    <3>1. Unfailed("trim_sync", j, new) /\ NamesKnown("trim_sync", j, at'[t])
      BY DEF Unfailed, NamesKnown
    <3>2. Vacant("trim_sync", j) => NoOwn(at'[t])
      BY <1>3, <2>1, <2>8 DEF Vacant, Announcing
    <3> QED BY <2>8, <2>9, <3>1, <3>2 DEF Informed
  <2> QED BY <1>4, <2>1, <2>7, <2>8, <2>10 DEF kernel
<1>9. CASE Journaled(p)
  <2> DEFINE next == [creating |-> "stage", original |-> "work", detaching |-> "detach",
                      cleanup |-> "empty"]
             k == [j EXCEPT !.gen = @ + 1]
             label == next[j.loc]
  <2>1. /\ pc[p] = "journaled" /\ pc' = [pc EXCEPT ![p] = label] /\ job' = [job EXCEPT ![p] = k]
        /\ UNCHANGED <<lockFile, flock, stateDir, lease, state, names, drawn, env>>
    BY <1>9 DEF Journaled, GotoWith
  <2>2. /\ label \in {"stage", "work", "detach", "empty"}
        /\ label = "stage" => j.loc = "creating"
        /\ label = "empty" => j.loc = "cleanup"
    BY <1>1 DEF Locations
  <2>3. k.tok = t /\ k.loc = j.loc /\ k.gen = g
    BY <1>1 DEF JobRecords
  <2>4. Still(p)
    BY <2>1 DEF Still, Busy, env
  <2>5. Keeps(p)
    BY <1>2, <2>4, StillStep
  <2>6. st' = st /\ at' = at /\ touched' = touched /\ pc'[p] = label /\ job'[p] = k
    BY <1>1, <2>1 DEF state, names
  <2>7. FilesKnown(label, k, s) /\ Unfailed(label, k, s)
    <3>1. Last(s, g, j.loc)
      BY <1>3, <2>1 DEF FilesKnown, Published
    <3> QED BY <1>1, <2>2, <2>3, <3>1 DEF FilesKnown, Unfailed, Announcing, Published, Agreed,
                                          Making, Moving
  <2>8. label = "stage" => NoOwn(at[t])
    BY <1>3, <2>1, <2>2 DEF Vacant
  <2>9. Vacant(label, k) => NoOwn(at[t])
    BY <2>2, <2>8 DEF Vacant, Announcing
  <2>10. t \notin touched => NamesKnown(label, k, at[t])
    BY <1>1, <2>2, <2>8, NamesOfOwn DEF NamesKnown, NoOwn
  <2>11. Informed(p)'
    BY <2>3, <2>6, <2>7, <2>9, <2>10 DEF Informed
  <2> QED BY <1>4, <2>1, <2>2, <2>5, <2>6, <2>11
<1> QED BY <1>5, <1>6, <1>7, <1>8, <1>9 DEF Journaling

(* Whoever fails leaves everything as it is.                                *)
LEMMA FailSafe ==
    ASSUME RecoveryInv, NEW p \in Procs, Keeps(p), Fail(p),
           UNCHANGED <<lockFile, flock, stateDir>>
    PROVE  Safe(p)
<1>0. pc \in [Procs -> Labels] /\ job \in [Procs -> JobRecords]
  BY At DEF RecoveryInv
<1>1. pc'[p] \in {"idle", "unlock"}
  BY <1>0 DEF Fail, Finish, Leave, Goto, GotoWith
<1>2. pc'[p] \notin Acting /\ Calm(p)
  BY <1>1 DEF Calm, Acting, Opening, Closing
<1> QED BY <1>2, CalmStep

(* The steps that make a sibling.                                           *)
LEMMA CreatingSafe ==
    ASSUME RecoveryInv, NEW p \in Procs, Creating(p)
    PROVE  Safe(p)
<1> DEFINE t == job[p].tok
           s == st[t]
           j == job[p]
<1>0. /\ OwnerInv /\ Sound(p) /\ None \notin Locations /\ None \notin Tokens
      /\ pc \in [Procs -> Labels] /\ job \in [Procs -> JobRecords] /\ Local(pc[p], j) /\ Aware(p)
  <2>1. OwnerInv
    BY DEF RecoveryInv
  <2> QED BY <2>1, At, CreatingSound, TokensAssumption DEF RecoveryInv
<1>1. ASSUME pc[p] \in Acting
      PROVE  /\ t \in Tokens /\ at[t] \in Names /\ s \in Files
             /\ FilesKnown(pc[p], j, s) /\ ("fail" \notin happened => Unfailed(pc[p], j, s))
             /\ Vacant(pc[p], j) => NoOwn(at[t])
             /\ t \notin touched => NamesKnown(pc[p], j, at[t])
             /\ pc[p] \in Leased => stateDir /\ s.marker = "lease"
  BY <1>1, AtWork DEF Informed
<1> USE DEF Publishing, Unsynced, Unsettled, Acting, Opening, Closing, Making
<1>2. ASSUME pc[p] \in Making
      PROVE  /\ pc[p] \in Acting /\ j.loc = "creating" /\ j.gen \in Gens /\ Last(s, j.gen, "creating")
             /\ Sure(s) /\ Latest(s) = "creating" /\ s.marker = "lease" /\ stateDir
  <2>1. /\ pc[p] \in Acting /\ j.loc = "creating" /\ j.gen \in Gens /\ Last(s, j.gen, "creating")
        /\ s.marker = "lease" /\ stateDir
    BY <1>0, <1>1, <1>2 DEF Local, FilesKnown, Agreed, Leased
  <2>2. "creating" \in Locations
    BY DEF Locations
  <2>3. Journals(s) # {} /\ Latest(s) = "creating"
    BY <1>0, <2>1, <2>2, LastIsLatest
  <2> QED BY <2>1, <2>3 DEF Sure
<1>3. CASE EnterCreate(p)
  <2> DEFINE k == [j EXCEPT !.part = "owning", !.tok = j.fresh, !.loc = "creating", !.gen = 0]
             f == j.fresh
  <2>1. /\ pc[p] = "create" /\ stateDir' = TRUE /\ pc' = [pc EXCEPT ![p] = "marker"]
        /\ job' = [job EXCEPT ![p] = k]
        /\ UNCHANGED <<lockFile, flock, lease, state, names, drawn, env>>
    BY <1>3 DEF EnterCreate, GotoWith
  <2>2. Waiting(j)
    BY <1>0, <2>1 DEF Local, Waiting
  <2>3. st[f] = NoFiles /\ NoOwn(at[f]) /\ Journals(NoFiles) = {}
    BY <1>0, <2>2 DEF Aware, Prepared, NoFiles, NoJournal, Journals
  <2>4. Still(p)
    BY <2>1 DEF Still, Busy, env
  <2>5. st' = st /\ at' = at /\ pc'[p] = "marker" /\ job'[p] = k /\ k.tok = f
    BY <1>0, <2>1 DEF state, names, JobRecords
  <2>6. FilesKnown("marker", k, st[f]) /\ Unfailed("marker", k, st[f]) /\ NamesKnown("marker", k, at[f])
    BY <2>3 DEF FilesKnown, Announcing, Published, Agreed, Moving, Unfailed, NamesKnown
  <2>7. Informed(p)'
    BY <2>3, <2>5, <2>6 DEF Informed
  <2>8. Calm(p)
    BY <2>1, <2>5 DEF Calm
  <2> QED BY <1>0, <2>4, <2>7, <2>8, StillStep, CalmStep
<1>4. ASSUME NEW label, NEW new, pc[p] \in {"marker", "lease"}, WriteFiles(t, new),
             label \in {"lease", "lease_sync"}, new.jr = s.jr, Goto(p, label),
             UNCHANGED <<lockFile, flock, stateDir, names, env>>
      PROVE  Safe(p)
  <2>1. Journals(new) = {} /\ NoOwn(at[t])
    BY <1>1, <1>4, SameJournals DEF FilesKnown, Announcing, Vacant
  <2>2. PutsFiles(p, t, new)
    BY <1>4, <2>1 DEF PutsFiles, Sure, names, env
  <2>3. Keeps(p)
    BY <1>0, <2>1, <2>2, FilesStep DEF Findable, Agreeing
  <2>4. st'[t] = new /\ at' = at /\ pc'[p] = label /\ job'[p] = j
    BY <1>0, <1>1, <1>4, Known DEF WriteFiles, FilesOK, names, Goto
  <2>5. FilesKnown(label, j, new) /\ Unfailed(label, j, new) /\ NamesKnown(label, j, at[t])
    BY <1>4, <2>1 DEF FilesKnown, Announcing, Published, Agreed, Moving, Unfailed, NamesKnown
  <2>6. Informed(p)'
    BY <2>1, <2>4, <2>5 DEF Informed
  <2>7. Calm(p)
    BY <1>0, <1>4, <2>4 DEF Calm, Aware, Housed
  <2> QED BY <2>3, <2>6, <2>7, CalmStep
<1>5. CASE CreateMarker(p)
  <2> DEFINE new == [s EXCEPT !.marker = "empty"]
  <2>1. /\ pc[p] = "marker" /\ WriteFiles(t, new) /\ Goto(p, "lease")
        /\ UNCHANGED <<lockFile, flock, stateDir, names, env>>
    BY <1>5 DEF CreateMarker, kernel
  <2>2. s \in Files
    BY <1>1, <2>1
  <2> QED BY <1>4, <2>1, <2>2 DEF Files
<1>6. CASE TakeLease(p)
  <2> DEFINE new == [s EXCEPT !.marker = "lease"]
  <2>1. /\ pc[p] = "lease" /\ WriteFiles(t, new) /\ Goto(p, "lease_sync")
        /\ UNCHANGED <<lockFile, flock, stateDir, names, env>>
    BY <1>6 DEF TakeLease
  <2>2. s \in Files
    BY <1>1, <2>1
  <2> QED BY <1>4, <2>1, <2>2 DEF Files
<1>7. ASSUME NEW label \in {"tmp", "bind", "acquire"}, NEW k, Still(p), k.tok = t,
             pc[p] \in Acting, st' = st, at' = at, touched' = touched,
             pc' = [pc EXCEPT ![p] = label], job' = [job EXCEPT ![p] = k],
             UNCHANGED <<lockFile, flock, stateDir>>,
             FilesKnown(label, k, s), "fail" \notin happened' => Unfailed(label, k, s),
             Vacant(label, k) => NoOwn(at[t]),
             t \notin touched => NamesKnown(label, k, at[t])
      PROVE  Safe(p)
  <2>1. pc'[p] = label /\ job'[p] = k
    BY <1>0, <1>7
  <2>2. Calm(p)
    BY <1>7, <2>1 DEF Calm
  <2>3. Informed(p)'
    BY <1>7, <2>1 DEF Informed
  <2> QED BY <1>0, <1>7, <2>2, <2>3, StillStep, CalmStep
<1>8. CASE SyncLease(p)
  <2>1. /\ pc[p] = "lease_sync" /\ SyncFiles /\ pc' = [pc EXCEPT ![p] = "tmp"] /\ job' = job
        /\ UNCHANGED <<kernel, names, drawn, env>>
    BY <1>8 DEF SyncLease, Goto
  <2>2. Still(p) /\ st' = st /\ at' = at /\ touched' = touched /\ job' = [job EXCEPT ![p] = j]
    BY <1>0, <2>1 DEF Still, Busy, env, SyncFiles, names
  <2>3. Journals(s) = {} /\ j.loc = "creating" /\ NoOwn(at[t])
    BY <1>0, <1>1, <2>1 DEF Local, FilesKnown, Vacant, Announcing
  <2>4. FilesKnown("tmp", j, s) /\ Unfailed("tmp", j, s) /\ NamesKnown("tmp", j, at[t])
    BY <2>3 DEF FilesKnown, Announcing, Published, Agreed, Moving, Unfailed, NamesKnown
  <2> QED BY <1>7, <2>1, <2>2, <2>3, <2>4 DEF kernel
(* Until the identity is recorded, whatever bears the names agrees.        *)
<1>9. ASSUME NEW label \in (Making \ {"stage", "bind"}) \cup {"acquire"}, NEW new \in Names,
             pc[p] \in Making, WriteNames(t, new), Goto(p, label), happened \subseteq happened',
             UNCHANGED <<lockFile, flock, stateDir, state>>,
             ~(new.orig = "own" /\ new.clean = "own"),
             t \notin touched => new.orig # "foreign" /\ new.clean # "foreign",
             Disturbed(t)' \/ label \in Unsettled,
             label \in {"child", "rename"} => NoOwn(new),
             t \notin touched => NamesKnown(label, j, new)
      PROVE  Safe(p)
  <2>0. pc'[p] = label /\ job' = job
    BY <1>0, <1>9 DEF Goto
  <2>1. PutsNames(p, t, new)
    BY <1>2, <1>9, <2>0 DEF PutsNames, Busy
  <2>2. Keeps(p)
    BY <1>0, <1>2, <1>9, <2>1, NamesStep DEF Agreeing
  <2>3. st' = st /\ touched' = touched /\ at'[t] = new
    BY <1>1, <1>2, <1>9, Known DEF WriteNames, NamesOK, state
  <2>4. FilesKnown(label, j, s) /\ Unfailed(label, j, s)
    BY <1>2, <1>9 DEF FilesKnown, Unfailed, Announcing, Published, Agreed, Moving, Last
  <2>5. Vacant(label, j) => NoOwn(new)
    BY <1>9 DEF Vacant, Announcing
  <2>6. Informed(p)'
    BY <1>9, <2>0, <2>3, <2>4, <2>5 DEF Informed
  <2>7. Calm(p)
    BY <1>2, <1>9, <2>0 DEF Calm
  <2> QED BY <2>2, <2>6, <2>7, CalmStep
<1>10. ASSUME NEW stage \in {"none", "empty", "full"}, pc[p] \in Acting
       PROVE  LET new == [at[t] EXCEPT !.stage = stage]
              IN  new \in Names /\ new.orig = at[t].orig /\ new.clean = at[t].clean
  BY <1>1, <1>10 DEF Names
<1>11. ASSUME pc[p] \in Acting
       PROVE  /\ ~(at[t].orig = "own" /\ at[t].clean = "own")
              /\ t \notin touched => /\ at[t].orig \in {"none", "own"}
                                     /\ at[t].clean \in {"none", "own"}
  BY <1>1, <1>11, NamesOfOwn
<1>12. CASE MakeStage(p) \/ MakeChild(p)
  <2>1. PICK label \in {"child", "rename"}, stage \in {"empty", "full"} :
          /\ pc[p] \in {"stage", "child"} /\ WriteNames(t, [at[t] EXCEPT !.stage = stage])
          /\ Goto(p, label) /\ UNCHANGED <<kernel, state, drawn, env>>
    BY <1>12 DEF MakeStage, MakeChild
  <2> DEFINE new == [at[t] EXCEPT !.stage = stage]
  <2>2. new \in Names /\ new.orig = at[t].orig /\ new.clean = at[t].clean
    BY <1>10, <2>1
  <2>3. NoOwn(new) /\ (t \notin touched => NamesKnown(label, j, new))
    BY <1>1, <2>1, <2>2 DEF NoOwn, Vacant, NamesKnown
  <2>4. label \in (Making \ {"stage", "bind"}) \cup {"acquire"} /\ label \in Unsettled
    OBVIOUS
  <2>5. happened \subseteq happened' /\ UNCHANGED <<lockFile, flock, stateDir, state>>
    BY <2>1 DEF env, kernel
  <2> HIDE DEF new
  <2> QED BY <1>9, <1>11, <2>1, <2>2, <2>3, <2>4, <2>5 DEF new
<1>13. CASE PublishSibling(p)
  <2> DEFINE new == [at[t] EXCEPT !.orig = "own", !.stage = "empty"]
  <2>1. /\ pc[p] = "rename" /\ WriteNames(t, new)
        /\ Goto(p, "unstage") /\ UNCHANGED <<kernel, state, drawn, env>>
    BY <1>13 DEF PublishSibling
  <2>2. new \in Names /\ new.orig = "own" /\ new.clean = at[t].clean
    BY <1>1, <2>1 DEF Names
  <2>3. NoOwn(at[t])
    BY <1>1, <2>1 DEF Vacant
  <2>4. /\ ~(new.orig = "own" /\ new.clean = "own")
        /\ t \notin touched => new.orig # "foreign" /\ new.clean # "foreign"
    BY <1>11, <2>1, <2>2, <2>3 DEF NoOwn
  <2>5. NamesKnown("unstage", j, new)
    BY <2>2 DEF NamesKnown
  <2>6. happened \subseteq happened' /\ UNCHANGED <<lockFile, flock, stateDir, state>>
    BY <2>1 DEF env, kernel
  <2> HIDE DEF new
  <2> QED BY <1>9, <2>1, <2>2, <2>4, <2>5, <2>6
<1>14. CASE RemoveStage(p)
  <2> DEFINE new == [at[t] EXCEPT !.stage = "none"]
             label == IF at[t].orig = "own" THEN "create_sync" ELSE "acquire"
  <2>1. /\ pc[p] = "unstage" /\ WriteNames(t, new) /\ Goto(p, label)
        /\ UNCHANGED <<kernel, state, drawn, env>>
    BY <1>14 DEF RemoveStage
  <2>2. new \in Names /\ new.orig = at[t].orig /\ new.clean = at[t].clean
    BY <1>10, <2>1
  <2>3. NamesKnown(label, j, new)
    BY DEF NamesKnown
  <2>4. Disturbed(t)' \/ label \in Unsettled
    <3>1. at[t].orig # "own" => t \in touched
      BY <1>1, <2>1 DEF NamesKnown
    <3>2. touched' = touched /\ job' = job
      BY <2>1 DEF WriteNames, Goto
    <3> QED BY <3>1, <3>2 DEF Disturbed
  <2>5. happened \subseteq happened' /\ UNCHANGED <<lockFile, flock, stateDir, state>>
    BY <2>1 DEF env, kernel
  <2>6. label \in (Making \ {"stage", "bind"}) \cup {"acquire"} /\ label \notin {"child", "rename"}
    OBVIOUS
  <2> HIDE DEF new, label
  <2> QED BY <1>9, <1>11, <2>1, <2>2, <2>3, <2>4, <2>5, <2>6
<1>15. CASE SyncCreate(p)
  <2>1. /\ pc[p] = "create_sync" /\ SyncNames /\ pc' = [pc EXCEPT ![p] = "bind"] /\ job' = job
        /\ UNCHANGED <<kernel, state, drawn, env>>
    BY <1>15 DEF SyncCreate, Goto
  <2>2. Still(p) /\ st' = st /\ at' = at /\ touched' = touched /\ job' = [job EXCEPT ![p] = j]
    BY <1>0, <2>1 DEF Still, Busy, env, SyncNames, state
  <2>3. FilesKnown("bind", j, s) /\ Unfailed("bind", j, s) /\ NamesKnown("bind", j, at[t])
    BY <1>2, <2>1 DEF FilesKnown, Announcing, Published, Agreed, Moving, Unfailed, NamesKnown
  <2>4. ~Vacant("bind", j)
    BY DEF Vacant, Announcing
  <2> QED BY <1>7, <2>1, <2>2, <2>3, <2>4 DEF kernel
<1>16. CASE BindIdentity(p)
  <2> DEFINE label == IF at[t].orig = "own" THEN "tmp" ELSE "acquire"
             k == [j EXCEPT !.loc = "original"]
  <2>1. /\ pc[p] = "bind" /\ pc' = [pc EXCEPT ![p] = label] /\ job' = [job EXCEPT ![p] = k]
        /\ UNCHANGED <<kernel, state, names, drawn, env>>
    BY <1>16 DEF BindIdentity, GotoWith
  <2>2. k.tok = t /\ k.loc = "original" /\ k.gen = j.gen
    BY <1>0 DEF JobRecords
  <2>3. Still(p) /\ st' = st /\ at' = at /\ touched' = touched
    BY <2>1 DEF Still, Busy, env, state, names
  <2>4. FilesKnown(label, k, s) /\ Unfailed(label, k, s)
    <3>1. /\ j.gen \in Gens /\ Last(s, j.gen, "creating") /\ Sure(s) /\ Latest(s) = "creating"
      BY <1>2, <2>1
    <3>2. Journals(s) \subseteq 1..j.gen /\ Journals(s) \subseteq 1..(j.gen + 1)
      BY <3>1 DEF Last, Gens
    <3> QED BY <2>2, <3>1, <3>2 DEF FilesKnown, Announcing, Published, Agreed, Moving, Unfailed, Sure
  <2>5. ~Vacant(label, k)
    BY <2>2 DEF Vacant, Announcing
  <2>6. NamesKnown(label, k, at[t])
    BY <2>2 DEF NamesKnown
  <2> QED BY <1>7, <2>1, <2>2, <2>3, <2>4, <2>5, <2>6 DEF kernel
<1>17. CASE WorkDone(p)
  <2>1. /\ pc[p] = "work" /\ UNCHANGED <<lockFile, flock, stateDir, state, names, drawn, env>>
        /\ Fail(p) \/ (pc' = [pc EXCEPT ![p] = "acquire"] /\ job' = job)
    BY <1>17 DEF WorkDone, Goto
  <2>2. Still(p) /\ st' = st /\ at' = at /\ touched' = touched
    BY <2>1 DEF Still, Busy, env, state, names
  <2>3. CASE Fail(p)
    BY <1>0, <2>1, <2>2, <2>3, StillStep, FailSafe
  <2>4. CASE pc' = [pc EXCEPT ![p] = "acquire"] /\ job' = job
    <3>1. j.gen \in Gens /\ Last(s, j.gen, j.loc)
      BY <1>1, <2>1 DEF FilesKnown, Agreed
    <3>2. FilesKnown("acquire", j, s) /\ Unfailed("acquire", j, s)
      BY <3>1 DEF FilesKnown, Unfailed, Announcing, Published, Agreed, Moving, Last
    <3>3. ~Vacant("acquire", j) /\ NamesKnown("acquire", j, at[t])
      BY DEF Vacant, Announcing, NamesKnown
    <3>4. job' = [job EXCEPT ![p] = j]
      BY <1>0, <2>4
    <3> QED BY <1>7, <2>1, <2>2, <2>4, <3>2, <3>3, <3>4
  <2> QED BY <2>1, <2>3, <2>4
<1> QED BY <1>3, <1>5, <1>6, <1>8, <1>12, <1>13, <1>14, <1>15, <1>16, <1>17 DEF Creating

(* Somebody at work goes on, with what it knows at its next step.           *)
LEMMA GoesOn ==
    ASSUME RecoveryInv, NEW p \in Procs, Keeps(p), NEW label \in Acting, NEW k, NEW t,
           pc' = [pc EXCEPT ![p] = label], job' = [job EXCEPT ![p] = k], k.tok = t,
           UNCHANGED <<lockFile, flock, stateDir>>, label \in Opening \cup Closing => stateDir,
           FilesKnown(label, k, st'[t]), "fail" \notin happened' => Unfailed(label, k, st'[t]),
           Vacant(label, k) => NoOwn(at'[t]),
           t \notin touched' => NamesKnown(label, k, at'[t])
    PROVE  Safe(p)
<1>1. pc'[p] = label /\ job'[p] = k
  BY At DEF RecoveryInv
<1>2. Informed(p)'
  BY <1>1 DEF Informed
<1>3. Calm(p)
  BY <1>1 DEF Calm, Acting
<1> QED BY <1>2, <1>3, CalmStep

(* The steps that remove a sibling.                                         *)
LEMMA CleaningSafe ==
    ASSUME RecoveryInv, NEW p \in Procs, Cleaning(p)
    PROVE  Safe(p)
<1> DEFINE t == job[p].tok
           s == st[t]
           a == at[t]
           j == job[p]
<1> USE DEF Publishing, Unsynced, Unsettled, Acting, Opening, Closing, Moving
<1>0. pc[p] \in Acting
  BY DEF Cleaning, AcquireDirectory, Refuse, CheckDetach, Detach, SyncDetach, EmptyTree, RemoveTree,
     SyncRemove, EnterRetire, UnlinkMarker, SyncUnlink, RemoveJournals
<1>1. /\ OwnerInv /\ Sound(p) /\ None \notin Locations
      /\ pc \in [Procs -> Labels] /\ job \in [Procs -> JobRecords] /\ Local(pc[p], j)
      /\ t \in Tokens /\ a \in Names /\ s \in Files /\ Ranked(s) /\ Aware(p) /\ job = [job EXCEPT ![p] = j]
      /\ j.loc \in Locations /\ j.gen \in 0..4
      /\ FilesKnown(pc[p], j, s) /\ ("fail" \notin happened => Unfailed(pc[p], j, s))
      /\ Vacant(pc[p], j) => NoOwn(a)
      /\ t \notin touched => NamesKnown(pc[p], j, a)
      /\ pc[p] \in Leased => stateDir /\ s.marker = "lease"
  <2>1. OwnerInv
    BY DEF RecoveryInv
  <2>2. /\ pc \in [Procs -> Labels] /\ job \in [Procs -> JobRecords] /\ Local(pc[p], j)
        /\ None \notin Locations
    BY <2>1, At, TokensAssumption
  <2>3. Informed(p) /\ t \in Tokens /\ a \in Names /\ s \in Files /\ Ranked(s)
        /\ j.loc \in Locations /\ j.gen \in 0..4 /\ (pc[p] \in Leased => stateDir /\ s.marker = "lease")
    BY <1>0, AtWork
  <2>4. Sound(p) /\ Aware(p)
    BY <2>1, CleaningSound DEF RecoveryInv
  <2>5. job = [job EXCEPT ![p] = j]
    BY <2>2
  <2> QED BY <2>1, <2>2, <2>3, <2>4, <2>5 DEF Informed
<1>2. /\ ~(a.orig = "own" /\ a.clean = "own")
      /\ t \notin touched => a.orig \in {"none", "own"} /\ a.clean \in {"none", "own"}
  BY <1>1, NamesOfOwn
<1>3. ASSUME pc[p] \in Agreed
      PROVE  /\ j.gen \in Gens /\ Last(s, j.gen, j.loc) /\ Journals(s) # {} /\ Latest(s) = j.loc
             /\ s.marker = "lease" /\ stateDir
             /\ Journals(s) \subseteq 1..j.gen /\ Journals(s) \subseteq 1..(j.gen + 1)
  <2>1. j.gen \in Gens /\ Last(s, j.gen, j.loc)
    BY <1>1, <1>3 DEF FilesKnown
  <2>2. Journals(s) # {} /\ Latest(s) = j.loc
    BY <1>1, <2>1, LastIsLatest
  <2>3. s.marker = "lease" /\ stateDir
    BY <1>1, <1>3 DEF Agreed, Making, Leased
  <2> QED BY <2>1, <2>2, <2>3 DEF Last, Gens
<1>4. ASSUME Still(p), UNCHANGED <<lockFile, flock, stateDir>>,
             NEW label \in Acting, NEW k, k.tok = t,
             pc' = [pc EXCEPT ![p] = label], job' = [job EXCEPT ![p] = k],
             st' = st, at' = at, touched' = touched, happened' = happened,
             label \in Opening \cup Closing => stateDir,
             FilesKnown(label, k, s), "fail" \notin happened => Unfailed(label, k, s),
             Vacant(label, k) => NoOwn(a), t \notin touched => NamesKnown(label, k, a)
      PROVE  Safe(p)
  <2>1. Keeps(p)
    BY <1>1, <1>4, StillStep
  <2> QED BY <1>1, <1>4, <2>1, GoesOn
<1> USE DEF FilesKnown, Unfailed, Vacant, NamesKnown, Announcing, Published, Agreed, Making
<1>5. CASE AcquireDirectory(p)
  <2> DEFINE found == Found(j.loc, a)
  <2>1. /\ pc[p] = "acquire" /\ UNCHANGED <<kernel, state, names, drawn, env>>
    BY <1>5 DEF AcquireDirectory
  <2>2. Still(p) /\ st' = st /\ at' = at /\ touched' = touched /\ happened' = happened
        /\ UNCHANGED <<lockFile, flock, stateDir>>
    BY <2>1 DEF Still, Busy, env, state, names, kernel
  <2>3. \/ j.gen \in Gens /\ Last(s, j.gen, j.loc)
        \/ /\ j.loc = "original" /\ Journals(s) # {} /\ Journals(s) \subseteq 1..(j.gen + 1)
           /\ Latest(s) \in {"creating", "original"}
    BY <1>1, <2>1
  <2>4. Journals(s) # {} /\ Journals(s) \subseteq 1..(j.gen + 1) /\ s.marker = "lease"
    <3>1. s.marker = "lease"
      BY <1>1, <2>1 DEF Leased
    <3>2. ASSUME j.gen \in Gens, Last(s, j.gen, j.loc)
          PROVE  Journals(s) # {} /\ Journals(s) \subseteq 1..(j.gen + 1)
      BY <1>1, <3>2, LastIsLatest DEF Last, Gens
    <3> QED BY <2>3, <3>1, <3>2
  <2>5. "fail" \notin happened => Journals(s) \subseteq 1..j.gen
    BY <1>1, <2>1
  <2>6. CASE found = "gone" /\ Goto(p, "retire")
    <3>1. NoOwn(a)
      BY <2>6 DEF Found, NoOwn, Absent
    <3> QED BY <1>1, <1>4, <2>2, <2>4, <2>6, <3>1 DEF Goto
  <2>7. CASE found = "cleanup" /\ j.loc = "cleanup" /\ Goto(p, "empty")
    <3>1. j.gen \in Gens /\ Last(s, j.gen, j.loc)
      BY <2>3, <2>7
    <3> QED BY <1>1, <1>4, <2>2, <2>7, <3>1 DEF Goto
  <2>8. CASE /\ found = "cleanup" /\ j.loc # "cleanup"
             /\ GotoWith(p, "tmp", [j EXCEPT !.loc = "cleanup"])
    <3> DEFINE k == [j EXCEPT !.loc = "cleanup"]
    <3>1. k.tok = t /\ k.loc = "cleanup" /\ k.gen = j.gen
      BY <1>1 DEF JobRecords
    <3>2. a.clean = "own"
      BY <2>8 DEF Found
    <3>3. FilesKnown("tmp", k, s) /\ ("fail" \notin happened => Unfailed("tmp", k, s))
          /\ ~Vacant("tmp", k) /\ NamesKnown("tmp", k, a)
      BY <2>4, <2>5, <3>1, <3>2
    <3> QED BY <1>4, <2>2, <2>8, <3>1, <3>3 DEF GotoWith
  <2>9. CASE found = "original" /\ j.loc = "detaching" /\ Goto(p, "detach")
    <3>1. j.gen \in Gens /\ Last(s, j.gen, j.loc)
      BY <2>3, <2>9
    <3> QED BY <1>1, <1>4, <2>2, <2>9, <3>1 DEF Goto
  <2>10. CASE /\ found = "original" /\ j.loc = "original"
              /\ GotoWith(p, "tmp", [j EXCEPT !.loc = "detaching"])
    <3> DEFINE k == [j EXCEPT !.loc = "detaching"]
    <3>1. k.tok = t /\ k.loc = "detaching" /\ k.gen = j.gen
      BY <1>1 DEF JobRecords
    <3>2. a.orig = "own"
      BY <2>10 DEF Found
    <3>3. FilesKnown("tmp", k, s) /\ ("fail" \notin happened => Unfailed("tmp", k, s))
          /\ ~Vacant("tmp", k) /\ NamesKnown("tmp", k, a)
      BY <2>4, <2>5, <3>1, <3>2
    <3> QED BY <1>4, <2>2, <2>10, <3>1, <3>3 DEF GotoWith
  <2> QED BY <1>5, <2>6, <2>7, <2>8, <2>9, <2>10 DEF AcquireDirectory
<1>6. CASE Refuse(p)
  <2>1. /\ Fail(p) /\ UNCHANGED <<registry, lockFile, flock, stateDir, state, names, drawn, env>>
        /\ pc[p] \in {"acquire", "detach", "move", "moved", "empty", "recheck", "rmdir"}
        /\ pc[p] = "moved" => a.clean # "own"
    BY <1>6 DEF Refuse
  <2>2. pc[p] = "moved" => t \in touched
    BY <1>1, <2>1
  <2>3. Still(p)
    BY <2>1, <2>2 DEF Still, Busy, env, names, Disturbed
  <2> QED BY <1>1, <2>1, <2>3, StillStep, FailSafe
<1>7. CASE CheckDetach(p) \/ EmptyTree(p)
  <2>1. PICK label \in {"move", "recheck", "rmdir"} :
          /\ pc[p] \in {"detach", "empty", "recheck"} /\ Goto(p, label)
          /\ label # "move" => pc[p] \in {"empty", "recheck"}
          /\ UNCHANGED <<kernel, state, names, drawn, env>>
    BY <1>7 DEF CheckDetach, EmptyTree
  <2>2. Still(p) /\ st' = st /\ at' = at /\ touched' = touched /\ happened' = happened
        /\ UNCHANGED <<lockFile, flock, stateDir>>
    BY <2>1 DEF Still, Busy, env, state, names, kernel
  <2>3. /\ j.gen \in Gens /\ Last(s, j.gen, j.loc)
        /\ label \in {"recheck", "rmdir"} => j.loc = "cleanup"
    BY <1>1, <1>3, <2>1
  <2>4. /\ FilesKnown(label, j, s) /\ Unfailed(label, j, s) /\ ~Vacant(label, j)
        /\ NamesKnown(label, j, a)
    BY <2>3
  <2>5. /\ label \in Acting /\ label \notin Opening \cup Closing
        /\ pc' = [pc EXCEPT ![p] = label] /\ job' = [job EXCEPT ![p] = j]
    BY <1>1, <2>1 DEF Goto
  <2> HIDE DEF FilesKnown, Unfailed, Vacant, NamesKnown, Acting, Opening, Closing
  <2> QED BY <1>4, <2>2, <2>4, <2>5
(* What was renamed under the name of the detached agrees with the journal, *)
(* and so does what is removed there.                                       *)
<1>8. ASSUME NEW label \in {"moved", "rmdir_sync"}, NEW new, WriteNames(t, new), Goto(p, label),
             UNCHANGED <<kernel, state, drawn, env>>, pc[p] \in {"move", "rmdir"},
             ~(new.orig = "own" /\ new.clean = "own"),
             t \notin touched => /\ new.orig # "foreign" /\ new.clean # "foreign"
                                 /\ Found(j.loc, new) # "refused",
             t \notin touched /\ label = "moved" => new.clean = "own",
             label = "rmdir_sync" => NoOwn(new)
      PROVE  Safe(p)
  <2>0. /\ pc'[p] = label /\ job' = job
    BY <1>1, <1>8 DEF Goto
  <2>1. /\ j.gen \in Gens /\ Last(s, j.gen, j.loc) /\ Sure(s) /\ Latest(s) = j.loc
    BY <1>3, <1>8 DEF Sure
  <2>2. PutsNames(p, t, new)
    BY <1>8, <2>0, <2>1 DEF PutsNames, Busy, env
  <2>3. Keeps(p)
    BY <1>1, <1>8, <2>1, <2>2, NamesStep DEF Agreeing
  <2>4. st' = st /\ touched' = touched /\ at'[t] = new /\ happened' = happened
    BY <1>1, <1>8, Known DEF WriteNames, NamesOK, state, env
  <2>5. FilesKnown(label, j, s) /\ Unfailed(label, j, s)
    BY <1>8, <2>1
  <2>6. Vacant(label, j) => NoOwn(new)
    BY <1>8
  <2>7. t \notin touched => NamesKnown(label, j, new)
    BY <1>8
  <2>8. /\ pc' = [pc EXCEPT ![p] = label] /\ job' = [job EXCEPT ![p] = j]
        /\ UNCHANGED <<lockFile, flock, stateDir>>
    BY <1>1, <1>8 DEF Goto, kernel
  <2>9. label \in Acting /\ label \notin Opening \cup Closing
    BY <1>8
  <2> HIDE DEF FilesKnown, Unfailed, Vacant, NamesKnown
  <2> QED BY <2>3, <2>4, <2>5, <2>6, <2>7, <2>8, <2>9, GoesOn
<1>9. CASE Detach(p)
  <2> DEFINE new == [a EXCEPT !.orig = "none", !.clean = a.orig]
  <2>1. /\ pc[p] = "move" /\ a.clean = "none" /\ a.orig # "none" /\ WriteNames(t, new)
        /\ Goto(p, "moved") /\ UNCHANGED <<kernel, state, drawn, env>>
    BY <1>9 DEF Detach
  <2>2. new.orig = "none" /\ new.clean = a.orig
    BY <1>1 DEF Names
  <2>3. t \notin touched => new.clean = "own"
    BY <1>2, <2>1, <2>2
  <2>4. j.loc = "detaching"
    BY <1>1, <2>1 DEF Local
  <2>5. t \notin touched => Found(j.loc, new) # "refused"
    BY <2>3, <2>4 DEF Found
  <2> HIDE DEF new
  <2> QED BY <1>8, <2>1, <2>2, <2>3, <2>5
<1>10. CASE RemoveTree(p)
  <2> DEFINE new == [a EXCEPT !.clean = "none"]
  <2>1. /\ pc[p] = "rmdir" /\ a.clean = "own" /\ WriteNames(t, new)
        /\ Goto(p, "rmdir_sync") /\ UNCHANGED <<kernel, state, drawn, env>>
    BY <1>10 DEF RemoveTree
  <2>2. new.orig = a.orig /\ new.clean = "none" /\ a.orig # "own"
    BY <1>1, <1>2, <2>1 DEF Names
  <2>3. NoOwn(new) /\ (t \notin touched => new.orig = "none")
    BY <1>2, <2>1, <2>2 DEF NoOwn
  <2>4. j.loc = "cleanup"
    BY <1>1, <2>1
  <2>5. t \notin touched => Found(j.loc, new) # "refused"
    BY <2>2, <2>3, <2>4 DEF Found
  <2> HIDE DEF new
  <2> QED BY <1>8, <2>1, <2>2, <2>3, <2>5
<1>11. CASE SyncDetach(p)
  <2> DEFINE k == [j EXCEPT !.loc = "cleanup"]
  <2>1. /\ pc[p] = "moved" /\ a.clean = "own" /\ SyncNames /\ GotoWith(p, "tmp", k)
        /\ UNCHANGED <<kernel, state, drawn, env>>
    BY <1>11 DEF SyncDetach
  <2>2. Still(p) /\ st' = st /\ at' = at /\ touched' = touched /\ happened' = happened
        /\ UNCHANGED <<lockFile, flock, stateDir>>
    BY <2>1 DEF Still, Busy, env, state, SyncNames, kernel
  <2>3. k.tok = t /\ k.loc = "cleanup" /\ k.gen = j.gen
    BY <1>1 DEF JobRecords
  <2>4. FilesKnown("tmp", k, s) /\ Unfailed("tmp", k, s) /\ ~Vacant("tmp", k)
        /\ NamesKnown("tmp", k, a)
    BY <1>3, <2>1, <2>3
  <2> HIDE DEF FilesKnown, Unfailed, Vacant, NamesKnown
  <2> QED BY <1>4, <2>1, <2>2, <2>3, <2>4 DEF GotoWith
<1>12. CASE SyncRemove(p)
  <2>1. /\ pc[p] = "rmdir_sync" /\ SyncNames /\ Goto(p, "retire")
        /\ UNCHANGED <<kernel, state, drawn, env>>
    BY <1>12 DEF SyncRemove
  <2>2. Still(p) /\ st' = st /\ at' = at /\ touched' = touched /\ happened' = happened
        /\ UNCHANGED <<lockFile, flock, stateDir>>
    BY <2>1 DEF Still, Busy, env, state, SyncNames, kernel
  <2>3. FilesKnown("retire", j, s) /\ Unfailed("retire", j, s) /\ NoOwn(a)
        /\ NamesKnown("retire", j, a)
    BY <1>1, <1>3, <2>1
  <2> HIDE DEF FilesKnown, Unfailed, Vacant, NamesKnown
  <2> QED BY <1>1, <1>4, <2>1, <2>2, <2>3 DEF Goto
<1>13. CASE EnterRetire(p)
  <2>1. /\ pc[p] = "retire" /\ Goto(p, "unlink")
        /\ UNCHANGED <<lockFile, flock, stateDir, state, names, drawn, env>>
    BY <1>13 DEF EnterRetire
  <2>2. Still(p) /\ st' = st /\ at' = at /\ touched' = touched /\ happened' = happened
        /\ UNCHANGED <<lockFile, flock, stateDir>>
    BY <2>1 DEF Still, Busy, env, state, names
  <2>3. FilesKnown("unlink", j, s) /\ Unfailed("unlink", j, s) /\ NoOwn(a)
        /\ NamesKnown("unlink", j, a) /\ stateDir
    BY <1>1, <2>1 DEF Leased
  <2> HIDE DEF FilesKnown, Unfailed, Vacant, NamesKnown
  <2> QED BY <1>1, <1>4, <2>1, <2>2, <2>3 DEF Goto
<1>14. CASE UnlinkMarker(p)
  <2> DEFINE new == [s EXCEPT !.marker = "none"]
  <2>1. /\ pc[p] = "unlink" /\ WriteFiles(t, new) /\ Goto(p, "unlink_sync")
        /\ UNCHANGED <<kernel, names, drawn, env>>
    BY <1>14 DEF UnlinkMarker
  <2>2. new.marker = "none" /\ NoOwn(a)
    BY <1>1, <2>1 DEF Files
  <2>3. PutsFiles(p, t, new)
    BY <2>1, <2>2 DEF PutsFiles, Sure, names, env
  <2>4. Keeps(p)
    BY <1>1, <2>2, <2>3, FilesStep DEF Findable, Agreeing
  <2>5. /\ st'[t] = new /\ at' = at /\ pc' = [pc EXCEPT ![p] = "unlink_sync"]
        /\ job' = [job EXCEPT ![p] = j] /\ UNCHANGED <<lockFile, flock, stateDir>>
    BY <1>1, <2>1, Known DEF WriteFiles, FilesOK, names, Goto, kernel
  <2>6. /\ FilesKnown("unlink_sync", j, new) /\ Unfailed("unlink_sync", j, new)
        /\ NamesKnown("unlink_sync", j, a)
    OBVIOUS
  <2>7. stateDir
    BY <1>1, <2>1 DEF Aware, Housed
  <2> HIDE DEF FilesKnown, Unfailed, Vacant, NamesKnown, new
  <2> QED BY <2>2, <2>4, <2>5, <2>6, <2>7, GoesOn
<1>15. CASE SyncUnlink(p)
  <2>1. /\ pc[p] = "unlink_sync" /\ SyncFiles /\ Goto(p, "files")
        /\ UNCHANGED <<kernel, names, drawn, env>>
    BY <1>15 DEF SyncUnlink
  <2>2. Still(p) /\ st' = st /\ at' = at /\ touched' = touched /\ happened' = happened
        /\ UNCHANGED <<lockFile, flock, stateDir>>
    BY <2>1 DEF Still, Busy, env, SyncFiles, names, kernel
  <2>3. FilesKnown("files", j, s) /\ Unfailed("files", j, s) /\ NoOwn(a)
        /\ NamesKnown("files", j, a) /\ stateDir
    BY <1>1, <2>1 DEF Aware, Housed
  <2> HIDE DEF FilesKnown, Unfailed, Vacant, NamesKnown
  <2> QED BY <1>1, <1>4, <2>1, <2>2, <2>3 DEF Goto
<1>16. CASE RemoveJournals(p)
  <2>1. /\ pc[p] = "files" /\ WriteFiles(t, NoFiles) /\ pc' = [pc EXCEPT ![p] = "prune"]
        /\ UNCHANGED <<kernel, names, drawn, env>>
    BY <1>16 DEF RemoveJournals, GotoWith
  <2>2. NoFiles.marker = "none" /\ NoOwn(a)
    BY <1>1, <2>1 DEF NoFiles
  <2>3. PutsFiles(p, t, NoFiles)
    BY <2>1, <2>2 DEF PutsFiles, Sure, names, env
  <2>4. Keeps(p)
    BY <1>1, <2>2, <2>3, FilesStep DEF Findable, Agreeing
  <2>5. pc'[p] = "prune" /\ UNCHANGED <<lockFile, flock, stateDir>>
    BY <1>1, <2>1 DEF kernel
  <2> QED BY <2>4, <2>5, CalmStep DEF Calm
<1> QED BY <1>5, <1>6, <1>7, <1>9, <1>10, <1>11, <1>12, <1>13, <1>14, <1>15, <1>16 DEF Cleaning

(* A publication that fails, and a creation that fails: whatever is next in *)
(* memory, a recovery finds what is on disk.                                *)
LEMMA JournalFailsSafe ==
    ASSUME RecoveryInv, NEW p \in Procs, JournalFails(p)
    PROVE  Safe(p)
<1> DEFINE t == job[p].tok
           s == st[t]
           j == job[p]
           early == pc[p] = "publish"
           tried == [s EXCEPT !.tmp = @ - 1]
           new == IF early THEN tried ELSE s
<1>0. /\ pc[p] \in {"publish", "publish_sync", "trim", "trim_sync"} /\ UNCHANGED names
      /\ IF early /\ s.jr[j.gen + 1] # None THEN UNCHANGED env ELSE Accident("fail")
      /\ IF early THEN WriteFiles(t, tried) ELSE UNCHANGED state
      /\ CASE j.loc = "creating" -> Goto(p, "unlink") /\ lease' = Freed(lease, p)
           [] j.loc = "original" -> Goto(p, "acquire") /\ UNCHANGED lease
           [] OTHER -> Fail(p)
      /\ UNCHANGED <<registry, lockFile, flock, stateDir, names, drawn>>
  BY DEF JournalFails
<1>1. /\ t \in Tokens /\ s \in Files /\ s.marker = "lease" /\ stateDir
      /\ pc \in [Procs -> Labels] /\ job \in [Procs -> JobRecords] /\ job = [job EXCEPT ![p] = j]
      /\ j.gen \in 0..4 /\ None \notin Locations /\ j.loc \in Locations /\ j.gen + 1 \in Gens
      /\ FilesKnown(pc[p], j, s) /\ ("fail" \notin happened => Unfailed(pc[p], j, s))
      /\ Vacant(pc[p], j) => NoOwn(at[t])
      /\ pc[p] \in Acting \ Unsettled
  <2>1. pc[p] \in Leased /\ pc[p] \in Acting \ Unsettled /\ pc[p] \in Publishing
    BY <1>0 DEF Leased, Acting, Opening, Closing, Unsettled, Publishing
  <2>2. j.gen + 1 \in Gens
    <3>1. j.gen < Rank[j.loc] /\ j.loc \in Locations /\ j.gen \in 0..4
      BY <2>1, AtWork DEF Local
    <3>2. Rank[j.loc] \in 1..4
      BY <3>1 DEF Rank, Locations
    <3> QED BY <3>1, <3>2 DEF Gens
  <2> QED BY <2>1, <2>2, AtWork, TokensAssumption DEF Informed
<1>2. Sound(p)
  BY FailureSound DEF RecoveryInv
<1>3. "fail" \in happened' /\ happened \subseteq happened'
  <2>1. CASE early /\ s.jr[j.gen + 1] # None
    <3>1. j.gen + 1 \in Journals(s) /\ ~(j.gen + 1 \in 1..j.gen)
      BY <1>1, <2>1 DEF Journals
    <3>2. "fail" \in happened
      BY <1>1, <2>1, <3>1 DEF Unfailed
    <3> QED BY <1>0, <2>1, <3>2 DEF env
  <2>2. CASE ~(early /\ s.jr[j.gen + 1] # None)
    BY <1>0, <2>2 DEF Accident
  <2> QED BY <2>1, <2>2
<1>4. \A u : Disturbed(u)'
  BY <1>3 DEF Disturbed
<1>5. new.jr = s.jr /\ new.marker = "lease" /\ Journals(new) = Journals(s) /\ Latest(new) = Latest(s)
  <2>1. new.jr = s.jr /\ new.marker = "lease"
    BY <1>1 DEF Files
  <2> QED BY <2>1, SameJournals
<1>6. Keeps(p) /\ st'[t] = new
  <2>1. CASE early
    <3>1. PutsFiles(p, t, tried)
      <4>1. WriteFiles(t, tried)
        BY <1>0, <2>1
      <4> HIDE DEF tried
      <4> QED BY <1>0, <1>1, <1>3, <1>4, <4>1 DEF PutsFiles
    <3>2. /\ t \in Promised => Findable(tried, at[t])
          /\ t \in Promised \ touched => Agreeing(tried, at[t])
      BY <1>1, <1>5, <2>1, SameFiles
    <3>3. st'[t] = tried
      BY <1>0, <1>1, <2>1, Known DEF WriteFiles, FilesOK
    <3> QED BY <1>2, <2>1, <3>1, <3>2, <3>3, FilesStep
  <2>2. CASE ~early
    <3>1. Still(p)
      BY <1>0, <1>3, <1>4, <2>2 DEF Still
    <3> QED BY <1>0, <1>2, <2>2, <3>1, StillStep DEF state
  <2> QED BY <2>1, <2>2
<1>7. CASE j.loc = "creating"
  <2>1. FilesKnown("unlink", j, new) /\ NoOwn(at[t]) /\ NamesKnown("unlink", j, at[t])
    BY <1>0, <1>1, <1>5, <1>7 DEF FilesKnown, NamesKnown, Vacant, Publishing, Announcing,
       Published, Agreed, Making, Moving, Opening
  <2>2. Goto(p, "unlink")
    BY <1>0, <1>7
  <2>3. /\ pc' = [pc EXCEPT ![p] = "unlink"] /\ job' = [job EXCEPT ![p] = j] /\ "unlink" \in Acting
        /\ at' = at /\ touched' = touched
    BY <1>0, <1>1, <2>2 DEF Goto, Acting, names
  <2> HIDE DEF new
  <2> QED BY <1>0, <1>1, <1>3, <1>6, <2>1, <2>3, GoesOn
<1>8. CASE j.loc = "original"
  <2>1. FilesKnown("acquire", j, new)
    <3>1. CASE early
      <4>1. j.gen \in Gens /\ Last(s, j.gen, "creating")
        BY <1>1, <1>8, <3>1 DEF FilesKnown
      <4>2. Journals(s) # {} /\ Latest(s) = "creating" /\ Journals(s) \subseteq 1..(j.gen + 1)
        <5>1. "creating" \in Locations /\ "creating" # None
          BY <1>1 DEF Locations
        <5>2. Journals(s) # {} /\ Latest(s) = "creating"
          BY <4>1, <5>1, LastIsLatest
        <5>3. Journals(s) \subseteq 1..(j.gen + 1)
          BY <4>1 DEF Last, Gens
        <5> QED BY <5>2, <5>3
      <4> QED BY <1>5, <1>8, <4>2 DEF FilesKnown, Announcing, Published, Agreed, Making, Moving, Opening
    <3>2. CASE ~early
      <4>1. Last(s, j.gen + 1, "original")
        BY <1>0, <1>1, <1>8, <3>2 DEF FilesKnown, Published
      <4>2. Journals(s) # {} /\ Latest(s) = "original" /\ Journals(s) \subseteq 1..(j.gen + 1)
        BY <1>1, <1>8, <4>1, LastIsLatest DEF Last
      <4> QED BY <1>5, <1>8, <4>2 DEF FilesKnown, Announcing, Published, Agreed, Making, Moving, Opening
    <3> QED BY <3>1, <3>2
  <2>2. ~Vacant("acquire", j) /\ NamesKnown("acquire", j, at[t])
    BY DEF Vacant, Announcing, Opening, Closing, Publishing, NamesKnown
  <2>3. Goto(p, "acquire")
    BY <1>0, <1>8
  <2>4. /\ pc' = [pc EXCEPT ![p] = "acquire"] /\ job' = [job EXCEPT ![p] = j] /\ "acquire" \in Acting
        /\ at' = at /\ touched' = touched
    BY <1>0, <1>1, <2>3 DEF Goto, Acting, names
  <2> HIDE DEF new
  <2> QED BY <1>0, <1>1, <1>3, <1>6, <2>1, <2>2, <2>4, GoesOn DEF Opening, Closing
<1>9. CASE j.loc \notin {"creating", "original"}
  <2>1. Fail(p)
    BY <1>0, <1>9
  <2> QED BY <1>0, <1>6, <2>1, FailSafe
<1> QED BY <1>7, <1>8, <1>9

(* A creation that fails goes on to clean up, whatever it made.              *)
LEMMA CreationFailsSafe ==
    ASSUME RecoveryInv, NEW p \in Procs, CreationFails(p)
    PROVE  Safe(p)
<1> DEFINE t == job[p].tok
           s == st[t]
           j == job[p]
           new == [at[t] EXCEPT !.stage = "none"]
<1>0. /\ pc[p] \in {"stage", "child", "rename", "unstage", "create_sync"}
      /\ IF pc[p] = "rename" /\ at[t].orig # "none" THEN UNCHANGED env ELSE Accident("fail")
      /\ WriteNames(t, new) /\ Goto(p, "acquire") /\ UNCHANGED <<kernel, state, drawn>>
  BY DEF CreationFails
<1>1. /\ t \in Tokens /\ at[t] \in Names /\ s.marker = "lease" /\ None \notin Locations
      /\ pc \in [Procs -> Labels] /\ job \in [Procs -> JobRecords]
      /\ pc' = [pc EXCEPT ![p] = "acquire"] /\ job' = [job EXCEPT ![p] = j] /\ job' = job
      /\ FilesKnown(pc[p], j, s) /\ (t \notin touched => NamesKnown(pc[p], j, at[t]))
      /\ pc[p] \in Acting \ Unsynced /\ j.loc = "creating" /\ "acquire" \in Acting
      /\ UNCHANGED <<lockFile, flock, stateDir>>
  <2>1. pc[p] \in Leased /\ pc[p] \in Acting \ Unsynced /\ pc[p] \in Making /\ "acquire" \in Acting
    BY <1>0 DEF Leased, Acting, Opening, Closing, Unsynced, Making
  <2>2. Informed(p) /\ Local(pc[p], j) /\ t \in Tokens /\ at[t] \in Names /\ s.marker = "lease"
        /\ pc \in [Procs -> Labels] /\ job \in [Procs -> JobRecords]
    BY <2>1, AtWork
  <2>3. pc' = [pc EXCEPT ![p] = "acquire"] /\ job' = [job EXCEPT ![p] = j] /\ job' = job
    BY <1>0, <2>2 DEF Goto
  <2> QED BY <1>0, <2>1, <2>2, <2>3, TokensAssumption DEF Informed, Local, kernel
<1>2. Sound(p)
  BY FailureSound DEF RecoveryInv
<1>3. j.gen \in Gens /\ Last(s, j.gen, "creating")
  BY <1>0, <1>1 DEF FilesKnown, Agreed, Making
<1>4. Sure(s) /\ Latest(s) = "creating"
  BY <1>1, <1>3, LastIsLatest DEF Sure, Locations
<1>5. t \in touched' \/ "fail" \in happened'
  <2>1. CASE pc[p] = "rename" /\ at[t].orig # "none"
    BY <1>0, <1>1, <2>1 DEF NamesKnown, WriteNames
  <2>2. CASE ~(pc[p] = "rename" /\ at[t].orig # "none")
    BY <1>0, <2>2 DEF Accident
  <2> QED BY <2>1, <2>2
<1>6. new.orig = at[t].orig /\ new.clean = at[t].clean
  BY <1>1 DEF Names
<1>7. PutsNames(p, t, new)
  <2>1. happened \subseteq happened'
    BY <1>0 DEF Accident, env
  <2>2. /\ ~(new.orig = "own" /\ new.clean = "own")
        /\ t \notin touched => new.orig # "foreign" /\ new.clean # "foreign"
    BY <1>1, <1>6, NamesOfOwn
  <2>3. \A u \in Tokens : u = t => Disturbed(u)'
    BY <1>5 DEF Disturbed
  <2> HIDE DEF new
  <2> QED BY <1>0, <1>1, <1>4, <2>1, <2>2, <2>3 DEF PutsNames
<1>8. Keeps(p)
  BY <1>2, <1>4, <1>7, NamesStep DEF Agreeing
<1>9. st' = st
  BY <1>0 DEF state
<1>10. FilesKnown("acquire", j, s) /\ Unfailed("acquire", j, s) /\ ~Vacant("acquire", j)
       /\ \A a : NamesKnown("acquire", j, a)
  BY <1>1, <1>3 DEF FilesKnown, Announcing, Published, Agreed, Making, Moving, Opening, Closing,
     Publishing, Vacant, NamesKnown, Unfailed, Last
<1> QED BY <1>1, <1>8, <1>9, <1>10, GoesOn DEF Opening, Closing

(* A step that writes nothing and goes on outside of any sibling.           *)
LEMMA OutsideSafe ==
    ASSUME RecoveryInv, NEW p \in Procs, Sound(p), pc[p] \notin Acting, pc'[p] \notin Acting,
           UNCHANGED <<state, names, happened>>, Calm(p)
    PROVE  Safe(p)
<1>1. Still(p)
  BY DEF Still, Busy, Unsynced, Unsettled, Acting
<1> QED BY <1>1, StillStep, CalmStep

(* A process that is killed leaves its locks, and everything else as it is. *)
LEMMA KillSafe ==
    ASSUME RecoveryInv, NEW p \in Procs, Kill(p)
    PROVE  Safe(p)
<1>0. OwnerInv /\ Sound(p) /\ pc \in [Procs -> Labels]
  <2>1. OwnerInv
    BY DEF RecoveryInv
  <2> QED BY <2>1, KillSound, At
<1>1. /\ pc'[p] = "idle" /\ "kill" \in happened' /\ happened \subseteq happened'
      /\ UNCHANGED <<state, names, lockFile, stateDir>> /\ flock' = Freed(flock, p)
  BY <1>0 DEF Kill, Leave, GotoWith, Accident
<1>2. Still(p)
  <2>1. \A t : Disturbed(t)'
    BY <1>1 DEF Disturbed
  <2> QED BY <1>1, <2>1 DEF Still
<1>3. \A i \in Inodes : flock'[i] \in {flock[i], None}
  BY <1>0, <1>1 DEF Freed, OwnerInv, LockInv, Shaped
<1>4. Calm(p)
  BY <1>1, <1>3 DEF Calm, Opening, Closing
<1> QED BY <1>0, <1>1, <1>2, <1>4, StillStep, CalmStep DEF Acting

(* The steps of a recovery that looks for dead owners: whoever claims one   *)
(* knows where its last journal says it is.                                 *)
LEMMA RecoveringSafe ==
    ASSUME RecoveryInv, NEW p \in Procs, Recovering(p)
    PROVE  Safe(p)
<1>0. /\ OwnerInv /\ Sound(p) /\ pc \in [Procs -> Labels] /\ job \in [Procs -> JobRecords]
      /\ None \notin Locations
      /\ pc[p] \notin Acting /\ UNCHANGED <<state, names, happened, lockFile, flock, stateDir>>
  <2>1. OwnerInv
    BY DEF RecoveryInv
  <2>2. pc[p] \notin Acting /\ UNCHANGED <<state, names, happened, lockFile, flock, stateDir>>
    BY DEF Recovering, EnterList, Claim, Recovered, Acting, env, kernel
  <2> QED BY <2>1, <2>2, RecoveringSound, At, TokensAssumption
<1>1. ASSUME pc'[p] \in {"prune", "claim", "create", "idle"}  PROVE Safe(p)
  <2>1. Calm(p)
    BY <1>0, <1>1 DEF Calm, Opening, Closing
  <2>2. pc'[p] \notin Acting
    BY <1>1 DEF Acting
  <2> QED BY <1>0, <2>1, <2>2, OutsideSafe
<1>2. CASE EnterList(p)
  <2>1. pc'[p] = "prune"
    BY <1>0, <1>2 DEF EnterList, GotoWith
  <2> QED BY <1>1, <2>1
<1>3. CASE Recovered(p)
  <2>1. pc'[p] \in {"create", "idle"}
    BY <1>0, <1>3 DEF Recovered, Goto, GotoWith, Leave
  <2> QED BY <1>1, <2>1
<1>4. CASE Claim(p)
  <2>1. Keeps(p)
    <3>1. Still(p)
      BY <1>0 DEF Still, Busy, Unsynced, Unsettled, Acting
    <3> QED BY <1>0, <3>1, StillStep
  <2>2. PICK t \in job[p].todo :
            \/ GotoWith(p, "claim", [job[p] EXCEPT !.todo = job[p].todo \ {t}])
            \/ Fail(p)
            \/ /\ st[t].marker = "lease" /\ Journals(st[t]) # {}
               /\ GotoWith(p, "acquire", [job[p] EXCEPT !.todo = job[p].todo \ {t}, !.tok = t,
                               !.loc = Latest(st[t]), !.gen = Max(Journals(st[t]))])
    BY <1>4 DEF Claim
  <2>3. CASE GotoWith(p, "claim", [job[p] EXCEPT !.todo = job[p].todo \ {t}])
    <3>1. pc'[p] = "claim"
      BY <1>0, <2>3 DEF GotoWith
    <3> QED BY <1>1, <3>1
  <2>4. CASE Fail(p)
    BY <1>0, <2>1, <2>4, FailSafe
  <2>5. CASE /\ st[t].marker = "lease" /\ Journals(st[t]) # {}
             /\ GotoWith(p, "acquire", [job[p] EXCEPT !.todo = job[p].todo \ {t}, !.tok = t,
                               !.loc = Latest(st[t]), !.gen = Max(Journals(st[t]))])
    <3> DEFINE g == Max(Journals(st[t]))
               loc == Latest(st[t])
               k == [job[p] EXCEPT !.todo = job[p].todo \ {t}, !.tok = t, !.loc = loc, !.gen = g]
    <3>1. t \in Tokens
      BY <1>0 DEF JobRecords
    <3>2. Ranked(st[t])
      BY <3>1, Known
    <3>3. g \in Gens /\ loc \in Locations /\ Last(st[t], g, loc)
      BY <2>5, <3>2, LatestIsLast
    <3>4. k.tok = t /\ k.loc = loc /\ k.gen = g
      BY <1>0 DEF JobRecords
    <3>5. /\ FilesKnown("acquire", k, st[t]) /\ Unfailed("acquire", k, st[t])
          /\ ~Vacant("acquire", k) /\ NamesKnown("acquire", k, at[t])
      BY <3>3, <3>4 DEF FilesKnown, Unfailed, Vacant, NamesKnown, Announcing, Published, Agreed,
         Making, Moving, Opening, Closing, Publishing, Last
    <3>6. /\ pc' = [pc EXCEPT ![p] = "acquire"] /\ job' = [job EXCEPT ![p] = k]
          /\ st' = st /\ at' = at
      BY <1>0, <2>5 DEF GotoWith, state, names
    <3>7. "acquire" \in Acting /\ "acquire" \notin Opening \cup Closing
      BY DEF Acting, Opening, Closing
    <3> HIDE DEF k, g, loc
    <3> QED BY <1>0, <2>1, <3>4, <3>5, <3>6, <3>7, GoesOn
  <2> QED BY <2>2, <2>3, <2>4, <2>5
<1> QED BY <1>2, <1>3, <1>4 DEF Recovering

(* The steps of the lock of a destination and of the pruning.               *)
LEMMA LockingSafe ==
    ASSUME RecoveryInv, NEW p \in Procs, Locking(p)
    PROVE  Safe(p)
<1>0. /\ OwnerInv /\ Sound(p) /\ pc \in [Procs -> Labels] /\ job \in [Procs -> JobRecords]
      /\ Aware(p) /\ DOMAIN flock = Inodes
      /\ pc[p] \notin Acting /\ UNCHANGED <<names, happened>>
  <2>1. OwnerInv
    BY DEF RecoveryInv
  <2>2. pc[p] \notin Acting /\ UNCHANGED <<names, happened>>
    BY DEF Locking, EnterLock, TryDestinationLock, EnterUnlock, PruneOwner, PruneOrphan,
     Pruned, PruneLockFile, RemoveStateDir, Acting, env
  <2> QED BY <2>1, <2>2, LockingSound, At DEF RecoveryInv, OwnerInv, LockInv, Shaped
<1>1. ASSUME UNCHANGED state \/ SyncFiles  PROVE Keeps(p)
  <2>1. Still(p)
    BY <1>0, <1>1 DEF Still, Busy, Unsynced, Unsettled, Acting
  <2> QED BY <1>0, <2>1, StillStep
<1>2. ASSUME Keeps(p), pc'[p] \in Serving \ {"lock_open", "rmdir_state"},
             UNCHANGED <<lockFile, flock, stateDir>>
      PROVE  Safe(p)
  <2>1. Calm(p) /\ pc'[p] \notin Acting
    BY <1>2 DEF Calm, Serving, Opening, Closing, Acting
  <2> QED BY <1>2, <2>1, CalmStep
<1>3. CASE EnterLock(p)
  <2>1. pc'[p] = "lock_open" /\ stateDir' = TRUE /\ UNCHANGED <<lockFile, flock, state>>
    BY <1>0, <1>3 DEF EnterLock, Goto
  <2>2. Calm(p) /\ pc'[p] \notin Acting
    BY <2>1 DEF Calm, Acting
  <2> QED BY <1>1, <2>1, <2>2, CalmStep
<1>4. CASE TryDestinationLock(p)
  <2>1. /\ pc[p] = "lock_open" /\ pc'[p] \in {"list", "lock"} /\ UNCHANGED <<stateDir, state>>
    BY <1>0, <1>4 DEF TryDestinationLock, Goto
  <2>2. stateDir
    BY <1>0, <2>1 DEF Aware, Housed
  <2>3. Keeps(p) /\ StateDirKept'
    BY <1>1, <2>1, <2>2, StateDirStays DEF Keeps
  <2> QED BY <2>1, <2>3 DEF Safe, Minds, Housed, Acting, Opening, Closing
<1>5. CASE EnterUnlock(p)
  <2>1. pc'[p] = "prune" /\ UNCHANGED <<lockFile, flock, stateDir, state>>
    BY <1>0, <1>5 DEF EnterUnlock, GotoWith
  <2> QED BY <1>1, <1>2, <2>1 DEF Serving
<1>6. CASE PruneOwner(p) \/ PruneOrphan(p)
  <2>1. /\ pc[p] = "prune" /\ pc'[p] = "prune" /\ UNCHANGED <<lockFile, flock, stateDir>>
    BY <1>0, <1>6 DEF PruneOwner, PruneOrphan, GotoWith, kernel
  <2>2. Keeps(p)
    <3>1. CASE PruneOwner(p)
      <4>1. PICK t \in Abandoned : WriteFiles(t, [st[t] EXCEPT !.marker = "none"])
        BY <3>1 DEF PruneOwner
      <4>2. /\ t \in Tokens /\ st[t].marker # "none" /\ Journals(st[t]) = {}
            /\ lease[t] = None
        BY <4>1 DEF Abandoned
      <4>3. st[t] \in Files
        BY <4>2, Known
      <4> DEFINE new == [st[t] EXCEPT !.marker = "none"]
      <4>4. new.marker = "none"
        BY <4>3 DEF Files
      <4>5. ~Sure(st[t]) /\ st[t] # NoFiles
        BY <4>2 DEF Sure, NoFiles
      <4> HIDE DEF new
      <4>6. Prunes(p, t, new)
        BY <1>0, <2>1, <4>1, <4>2, <4>4, <4>5 DEF Prunes, new
      <4> QED BY <1>0, <4>6, PruneStep
    <3>2. CASE PruneOrphan(p)
      <4>1. PICK t \in Orphans : WriteFiles(t, NoFiles)
        BY <3>2 DEF PruneOrphan
      <4>2. t \in Tokens /\ st[t].marker = "none" /\ st[t] # NoFiles
        BY <4>1 DEF Orphans
      <4>3. Prunes(p, t, NoFiles)
        BY <1>0, <2>1, <4>1, <4>2 DEF Prunes, Sure, NoFiles
      <4> QED BY <1>0, <4>3, PruneStep
    <3> QED BY <1>6, <3>1, <3>2
  <2> QED BY <1>2, <2>1, <2>2 DEF Serving
<1>7. CASE Pruned(p)
  <2>1. /\ pc'[p] \in {"entries", "claim"} /\ UNCHANGED <<lockFile, flock, stateDir>>
        /\ UNCHANGED state \/ SyncFiles
    BY <1>0, <1>7 DEF Pruned, GotoWith
  <2> QED BY <1>1, <1>2, <2>1 DEF Serving
<1>8. ASSUME AfterPrune(p)  PROVE pc'[p] \in {"claim", "unlock", "idle"}
  BY <1>0, <1>8 DEF AfterPrune, Finish, Leave, Goto, GotoWith
<1>9. CASE PruneLockFile(p)
  <2>1. /\ pc[p] = "entries" /\ UNCHANGED <<stateDir, state>>
        /\ flock' = flock \/ flock' = Freed(flock, p)
        /\ \/ OnlyLockFile /\ lockFile' = None /\ Goto(p, "rmdir_state")
           \/ AfterPrune(p) /\ UNCHANGED lockFile
    BY <1>9 DEF PruneLockFile
  <2>2. \A i \in Inodes : flock'[i] \in {flock[i], None}
    BY <1>0, <2>1 DEF Freed
  <2>3. Keeps(p) /\ StateDirKept'
    BY <1>1, <2>1, <2>2, StateDirStays DEF Keeps
  <2>4. CASE OnlyLockFile /\ lockFile' = None /\ Goto(p, "rmdir_state")
    <3>1. pc'[p] = "rmdir_state" /\ OnlyLockFile'
      BY <1>0, <2>1, <2>4 DEF Goto, OnlyLockFile, state
    <3> QED BY <2>1, <2>3, <2>4, <3>1 DEF Safe, Minds, Housed, Acting, Opening, Closing
  <2>5. CASE AfterPrune(p) /\ UNCHANGED lockFile
    BY <1>8, <2>1, <2>3, <2>5 DEF Safe, Minds, Housed, Acting, Opening, Closing
  <2> QED BY <2>1, <2>4, <2>5
<1>10. CASE RemoveStateDir(p)
  <2>1. /\ pc[p] = "rmdir_state" /\ UNCHANGED <<lockFile, flock, state>> /\ AfterPrune(p)
    BY <1>10 DEF RemoveStateDir
  <2>2. lockFile = None /\ OnlyLockFile
    BY <1>0, <2>1 DEF Aware, Housed
  <2>3. \A i \in Inodes : flock[i] = None
    <3>1. None \notin Inodes /\ \A i \in Inodes : flock[i] # None => i = lockFile
      BY <1>0, TokensAssumption DEF OwnerInv, LockInv, NamedOnly
    <3> QED BY <2>2, <3>1
  <2>4. StateDirKept'
    BY <2>1, <2>2, <2>3 DEF StateDirKept, OnlyLockFile, state
  <2> QED BY <1>1, <1>8, <2>1, <2>4 DEF Safe, Minds, Housed, Acting, Opening, Closing
<1> QED BY <1>3, <1>4, <1>5, <1>6, <1>7, <1>9, <1>10 DEF Locking

(* Every step of a process keeps the invariant.                             *)
LEMMA StepKeepsRecovery ==
    ASSUME RecoveryInv, OwnerInv', NEW p \in Procs, Step(p) \/ Kill(p)
    PROVE  RecoveryInv'
<1>1. Sound(p)
  BY LockingSound, RecoveringSound, JournalingSound, CreatingSound, CleaningSound,
     FailureSound, KillSound DEF Step, RecoveryInv
<1>2. Safe(p)
  BY LockingSafe, RecoveringSafe, JournalingSafe, CreatingSafe, CleaningSafe, JournalFailsSafe,
     CreationFailsSafe, KillSafe DEF Step
<1> QED BY <1>1, <1>2, SafeKeeps

(* A command that starts draws a token that nothing is left of.             *)
LEMMA StartKeepsRecovery ==
    ASSUME RecoveryInv, OwnerInv', NEW p \in Procs, NEW cmd \in Commands, Start(p, cmd)
    PROVE  RecoveryInv'
<1>0. /\ OwnerInv /\ pc \in [Procs -> Labels] /\ job \in [Procs -> JobRecords]
      /\ pc[p] = "idle" /\ UNCHANGED <<state, names, lockFile, flock, stateDir, happened>>
  <2>1. OwnerInv
    BY DEF RecoveryInv
  <2> QED BY <2>1, At DEF Start, kernel
<1>1. \E label \in {"list", "lock", "create"}, fresh \in OrNone(Tokens) :
        /\ \E j : pc' = [pc EXCEPT ![p] = label] /\ job' = [job EXCEPT ![p] = j] /\ j.fresh = fresh
        /\ \/ fresh = None /\ drawn' = drawn
           \/ fresh \in Tokens \ drawn /\ drawn' = drawn \cup {fresh}
  <2>1. CASE cmd = "recover"
    <3>1. GotoWith(p, "list", [NoJob EXCEPT !.cmd = cmd]) /\ drawn' = drawn
      BY <2>1 DEF Start
    <3>2. [NoJob EXCEPT !.cmd = cmd].fresh = None
      BY DEF NoJob
    <3> QED BY <3>1, <3>2 DEF GotoWith, OrNone
  <2>2. CASE cmd # "recover"
    <3> DEFINE t == CHOOSE x \in Tokens \ drawn : TRUE
    <3>1. t \in Tokens \ drawn
      <4>1. drawn \subseteq Tokens /\ drawn # Tokens
        BY <1>0, <2>2, At DEF Start
      <4> QED BY <4>1
    <3>2. /\ GotoWith(p, IF cmd = "install" THEN "lock" ELSE "create",
                      [NoJob EXCEPT !.cmd = cmd, !.fresh = t])
          /\ drawn' = drawn \cup {t}
      BY <2>2 DEF Start
    <3>3. [NoJob EXCEPT !.cmd = cmd, !.fresh = t].fresh = t
      BY DEF NoJob
    <3> HIDE DEF t
    <3> QED BY <3>1, <3>2, <3>3 DEF GotoWith, OrNone
  <2> QED BY <2>1, <2>2
<1>2. PICK label \in {"list", "lock", "create"}, fresh \in OrNone(Tokens) :
        /\ pc'[p] = label /\ job'[p].fresh = fresh
        /\ \A q \in Procs : q # p => pc'[q] = pc[q] /\ job'[q] = job[q]
        /\ \/ fresh = None /\ drawn' = drawn
           \/ fresh \in Tokens \ drawn /\ drawn' = drawn \cup {fresh}
  BY <1>0, <1>1
<1>3. /\ st' = st /\ stOld' = stOld /\ at' = at /\ atOld' = atOld /\ touched' = touched
      /\ drawn \subseteq drawn'
  BY <1>0, <1>2 DEF state, names
<1>4. ASSUME NEW t \in Tokens  PROVE Recoverable(t)'
  <2>0. Recoverable(t)
    BY DEF RecoveryInv
  <2>1. ASSUME NEW labels, "idle" \notin labels, \E q \in Procs : Busy(q, t, labels)
        PROVE  \E q \in Procs : Busy(q, t, labels)'
    BY <1>0, <1>2, <1>3, <2>1 DEF Busy
  <2>2. FilesSettled(t) => FilesSettled(t)'
    BY <1>2, <1>3, <2>1 DEF FilesSettled, Unsynced
  <2>3. NamesSettled(t) => NamesSettled(t)'
    BY <1>2, <1>3, <2>1 DEF NamesSettled, Unsettled
  <2>4. (Disturbed(t)' <=> Disturbed(t)) /\ Promised' = Promised /\ Remains(t)' = Remains(t)
    BY <1>0, <1>2, <1>3 DEF Disturbed, Lost, Promised, Remains
  <2>5. NamesApart(t)' /\ Undrawn(t)'
    BY <1>2, <1>3, <2>0 DEF Recoverable, NamesApart, Undrawn
  <2> QED BY <1>2, <1>3, <2>0, <2>2, <2>3, <2>4, <2>5 DEF Recoverable, Findable, Agreeing
<1>5. ASSUME NEW q \in Procs  PROVE Aware(q)'
  <2>0. Aware(q)
    BY DEF RecoveryInv
  <2>1. CASE q # p
    BY <1>0, <1>2, <1>3, <2>0, <2>1 DEF Aware, Informed, Prepared, Housed, OnlyLockFile
  <2>2. CASE q = p
    <3>1. fresh # None => st[fresh] = NoFiles /\ NoOwn(at[fresh])
      <4>1. ASSUME fresh # None  PROVE fresh \in Tokens /\ fresh \notin drawn
        BY <1>2, <4>1
      <4>2. ASSUME fresh # None  PROVE st[fresh] \in {NoFiles} /\ at[fresh] \in {Absent}
        BY <4>1, <4>2, Known DEF Recoverable, Undrawn
      <4> QED BY <4>2 DEF NoOwn, Absent
    <3> QED BY <1>2, <1>3, <2>2, <3>1 DEF Aware, Prepared, Waiting, Housed, Acting, Opening, Closing
  <2> QED BY <2>1, <2>2
<1>6. StateDirKept'
  BY <1>0, <1>2, <1>3 DEF RecoveryInv, StateDirKept
<1> QED BY <1>4, <1>5, <1>6 DEF RecoveryInv

(* A loss of power leaves some of what it might, and nobody at work.        *)
LEMMA LossKeepsRecovery ==
    ASSUME RecoveryInv, OwnerInv', PowerLoss
    PROVE  RecoveryInv'
<1>1. PICK s \in [Tokens -> UNION {stOld[t] : t \in Tokens}],
           a \in [Tokens -> UNION {atOld[t] : t \in Tokens}] :
        /\ \A t \in Tokens : s[t] \in stOld[t] /\ a[t] \in atOld[t]
        /\ st' = s /\ stOld' = [t \in Tokens |-> {s[t]}]
        /\ stateDir' = (stateDir \/ \E t \in Tokens : s[t] # NoFiles)
        /\ at' = a /\ atOld' = [t \in Tokens |-> {a[t]}]
  BY DEF PowerLoss
<1>2. /\ pc' = [p \in Procs |-> "idle"] /\ job' = [p \in Procs |-> NoJob]
      /\ flock' = [i \in Inodes |-> None]
      /\ lockFile' = lockFile /\ touched' = touched /\ drawn' = drawn
      /\ happened' = happened \cup {"loss"}
  BY DEF PowerLoss, Accident
<1>3. ASSUME NEW t \in Tokens  PROVE Recoverable(t)'
  <2>0. Recoverable(t)
    BY DEF RecoveryInv
  <2>1. /\ st'[t] \in stOld[t] /\ stOld'[t] = {st'[t]}
        /\ at'[t] \in atOld[t] /\ atOld'[t] = {at'[t]}
    BY <1>1
  <2>2. ASSUME t \in Promised'
        PROVE  t \in Promised /\ Remains(t)' \subseteq Remains(t)
    <3>1. ~Disturbed(t)' /\ ~Disturbed(t)
      BY <1>2, <2>2 DEF Promised, Disturbed, Lost
    <3> QED BY <2>1, <3>1 DEF Promised, Remains
  <2>3. FilesSettled(t)' /\ NamesSettled(t)'
    BY <2>1 DEF FilesSettled, NamesSettled
  <2>4. NamesApart(t)' /\ Undrawn(t)'
    BY <1>2, <2>0, <2>1 DEF Recoverable, NamesApart, Undrawn
  <2>5. \A left \in Remains(t)' :
          /\ t \in Promised' => Findable(left[1], left[2])
          /\ t \in Promised' \ touched' => Agreeing(left[1], left[2])
    BY <1>2, <2>0, <2>2 DEF Recoverable
  <2> QED BY <2>3, <2>4, <2>5 DEF Recoverable, Findable, Agreeing
<1>4. \A q \in Procs : Aware(q)'
  BY <1>2 DEF Aware, Prepared, Waiting, NoJob, Housed, Acting, Opening, Closing
<1>5. StateDirKept'
  BY <1>1, <1>2 DEF RecoveryInv, StateDirKept
<1> QED BY <1>3, <1>4, <1>5 DEF RecoveryInv

(* Somebody else may take a directory away, never make it one of ours.      *)
LEMMA InterferenceKeepsRecovery ==
    ASSUME RecoveryInv, OwnerInv', Interfere
    PROVE  RecoveryInv'
<1>1. PICK t \in drawn, name \in {"orig", "clean"}, what \in {"none", "foreign"} :
        /\ at' = [at EXCEPT ![t] = [at[t] EXCEPT ![name] = what]]
        /\ atOld' = [atOld EXCEPT ![t] = @ \cup {[at[t] EXCEPT ![name] = what]}]
        /\ touched' = touched \cup {t}
  BY DEF Interfere
<1> DEFINE new == [at[t] EXCEPT ![name] = what]
<1>2. /\ UNCHANGED <<pc, job, lockFile, flock, stateDir, st, stOld, drawn>>
      /\ happened' = happened \cup {"foreign"}
  BY DEF Interfere, Accident, kernel, state
<1>3. t \in Tokens /\ DOMAIN at = Tokens /\ DOMAIN atOld = Tokens /\ at[t] \in Names
  <2>1. t \in Tokens /\ DOMAIN at = Tokens /\ DOMAIN atOld = Tokens
    BY <1>1 DEF RecoveryInv, OwnerInv, Disk, LocksOK, NamesOK
  <2> QED BY <2>1, Known
<1>4. /\ \A u \in Tokens : /\ at'[u] = IF u = t THEN new ELSE at[u]
                           /\ atOld'[u] = IF u = t THEN atOld[u] \cup {new} ELSE atOld[u]
      /\ NoOwn(at[t]) => NoOwn(new)
      /\ at[t].orig # "own" => new.orig # "own"
      /\ at[t].clean # "own" => new.clean # "own"
  BY <1>1, <1>3 DEF NoOwn, Names
<1> HIDE DEF new
<1>5. ASSUME NEW u \in Tokens, u # t  PROVE Recoverable(u)'
  <2>1. /\ (Disturbed(u)' <=> Disturbed(u)) /\ (u \in Promised' <=> u \in Promised)
        /\ Remains(u)' = Remains(u) /\ (u \in touched' <=> u \in touched)
    BY <1>1, <1>2, <1>4, <1>5 DEF Disturbed, Lost, Promised, Remains
  <2>2. /\ FilesSettled(u) => FilesSettled(u)'
        /\ NamesSettled(u) => NamesSettled(u)'
        /\ NamesApart(u) => NamesApart(u)'
        /\ Undrawn(u) => Undrawn(u)'
    BY <1>2, <1>4, <1>5, <2>1 DEF FilesSettled, NamesSettled, Busy, NamesApart, Undrawn
  <2>3. Recoverable(u)
    BY DEF RecoveryInv
  <2>4. \A left \in Remains(u)' :
          /\ u \in Promised' => Findable(left[1], left[2])
          /\ u \in Promised' \ touched' => Agreeing(left[1], left[2])
    BY <2>1, <2>3 DEF Recoverable
  <2> QED BY <2>1, <2>2, <2>3, <2>4 DEF Recoverable, Findable, Agreeing
<1>6. Recoverable(t)'
  <2>0. Recoverable(t) /\ <<st[t], at[t]>> \in Remains(t) /\ at[t] \in atOld[t]
    BY <1>3, Known
  <2>1. Disturbed(t)' /\ t \in touched'
    BY <1>1 DEF Disturbed
  <2>2. \A left \in Remains(t)' : left[1] = st[t] /\ left[2] = new
    <3>1. Remains(t)' = {st'[t]} \X {at'[t]}
      BY <2>1 DEF Remains
    <3>2. st'[t] = st[t] /\ at'[t] = new
      BY <1>2, <1>3, <1>4
    <3> QED BY <3>1, <3>2
  <2>3. t \in Promised' => t \in Promised
    BY <1>2, <2>1 DEF Promised, Lost
  <2>4. t \in Promised' => Findable(st[t], new)
    BY <1>4, <2>0, <2>3 DEF Recoverable, Findable
  <2>5. NamesApart(t)'
    BY <1>3, <1>4, <2>0, <2>1 DEF Recoverable, NamesApart
  <2>6. Undrawn(t)'
    BY <1>1, <1>2 DEF Undrawn
  <2> QED BY <2>1, <2>2, <2>4, <2>5, <2>6 DEF Recoverable, Findable
<1>7. ASSUME NEW q \in Procs  PROVE Aware(q)'
  <2>0. Aware(q) /\ job[q] \in JobRecords /\ Local(pc[q], job[q])
    <3>1. OwnerInv
      BY DEF RecoveryInv
    <3> QED BY <3>1, At DEF RecoveryInv
  <2>1. pc'[q] \in Acting => Informed(q)'
    <3>1. ASSUME pc[q] \in Acting  PROVE Informed(q)'
      <4>1. Informed(q) /\ job[q].tok \in Tokens
        BY <2>0, <3>1 DEF Aware, Local
      <4>2. NoOwn(at[job[q].tok]) => NoOwn(at'[job[q].tok])
        BY <1>4, <4>1
      <4>3. job[q].tok \notin touched' => at'[job[q].tok] = at[job[q].tok]
        BY <1>1, <1>4, <4>1
      <4> QED BY <1>1, <1>2, <4>1, <4>2, <4>3 DEF Informed
    <3> QED BY <1>2, <3>1
  <2>2. Prepared(q)'
    <3>1. Waiting(job[q]) => job[q].fresh \in Tokens
      BY <2>0 DEF Waiting, JobRecords, OrNone
    <3> QED BY <1>2, <1>4, <2>0, <3>1 DEF Aware, Prepared
  <2>3. Housed(q)'
    BY <1>2, <2>0 DEF Aware, Housed, OnlyLockFile
  <2> QED BY <2>1, <2>2, <2>3 DEF Aware
<1>8. StateDirKept'
  BY <1>2 DEF RecoveryInv, StateDirKept
<1> QED BY <1>5, <1>6, <1>7, <1>8 DEF RecoveryInv

(* At the start there is nothing to be found.                               *)
LEMMA RecoveryInit == Init => RecoveryInv
<1> SUFFICES ASSUME Init PROVE RecoveryInv
  OBVIOUS
<1>1. StateDirKept
  BY DEF Init, StateDirKept
<1>2. ASSUME NEW p \in Procs  PROVE Aware(p)
  BY DEF Init, Aware, Prepared, Waiting, NoJob, Housed, Acting, Opening, Closing
<1>3. ASSUME NEW t \in Tokens  PROVE Recoverable(t)
  <2>1. st[t] = NoFiles /\ stOld[t] = {NoFiles} /\ at[t] = Absent /\ atOld[t] = {Absent}
    BY DEF Init
  <2>2. \A left \in Remains(t) : left[1] = NoFiles /\ left[2] = Absent
    BY <2>1 DEF Remains
  <2>3. \A left \in Remains(t) : Findable(left[1], left[2]) /\ Agreeing(left[1], left[2])
    BY <2>2 DEF Findable, Agreeing, NoOwn, Absent, NoFiles
  <2> QED BY <2>1, <2>3 DEF Recoverable, FilesSettled, NamesSettled, NamesApart, Undrawn, Absent
<1> QED BY <1>1, <1>2, <1>3, OwnerInit DEF RecoveryInv

(* RecoveryInv is inductive,                                                *)
LEMMA RecoveryStep == RecoveryInv /\ [Next]_vars => RecoveryInv'
<1> SUFFICES ASSUME RecoveryInv, [Next]_vars PROVE RecoveryInv'
  OBVIOUS
<1>0. OwnerInv'
  BY OwnerStep DEF RecoveryInv
<1>1. CASE UNCHANGED vars
  <2>1. /\ UNCHANGED <<pc, job, lockFile, flock, stateDir, st, stOld, at, atOld, touched, drawn, happened>>
    BY <1>1 DEF vars, kernel, state, names, env
  <2>2. StateDirKept'
    BY <2>1 DEF RecoveryInv, StateDirKept
  <2>3. \A p \in Procs : Aware(p)'
    BY <2>1 DEF RecoveryInv, Aware, Informed, Prepared, Housed, OnlyLockFile
  <2>4. ASSUME NEW t \in Tokens  PROVE Recoverable(t)'
    <3>1. (Disturbed(t)' <=> Disturbed(t)) /\ Promised' = Promised /\ Remains(t)' = Remains(t)
      BY <2>1 DEF Disturbed, Lost, Promised, Remains
    <3>2. /\ FilesSettled(t) => FilesSettled(t)'
          /\ NamesSettled(t) => NamesSettled(t)'
          /\ NamesApart(t) => NamesApart(t)'
          /\ Undrawn(t) => Undrawn(t)'
      BY <2>1 DEF FilesSettled, NamesSettled, Busy, NamesApart, Undrawn
    <3> QED BY <2>1, <3>1, <3>2 DEF RecoveryInv, Recoverable, Findable, Agreeing
  <2> QED BY <1>0, <2>2, <2>3, <2>4 DEF RecoveryInv
<1> QED BY <1>0, <1>1, StepKeepsRecovery, StartKeepsRecovery, LossKeepsRecovery,
           InterferenceKeepsRecovery DEF Next

(* and says what a recovery needs.                                          *)
LEMMA RecoveryInvSuffices == RecoveryInv => RecoveryPossible
BY DEF RecoveryInv, Recoverable, Findable, Agreeing, NoOwn, Sure, Promised, RecoveryPossible,
   Traced, Resumable

(* Whatever kills, failures, interference or, before any of these, a loss   *)
(* of power leave of a sibling at any step of any number of processes, a    *)
(* directory that was made has its lease and a journal, its last journal    *)
(* agrees with the names unless somebody interfered or the identity was     *)
(* never recorded, and the state directory goes only when nothing is in it: *)
(* so _claim_dead_owner finds it and _acquire_directory does not refuse.    *)
THEOREM RecoveryIsPossible == Spec => []RecoveryPossible
<1>1. Spec => []RecoveryInv
  BY RecoveryInit, RecoveryStep, PTL DEF Spec
<1> QED BY <1>1, RecoveryInvSuffices, PTL
=============================================================================
