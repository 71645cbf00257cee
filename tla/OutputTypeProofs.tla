-------------------------- MODULE OutputTypeProofs --------------------------
(***************************************************************************)
(* Mutual exclusion and type correctness of the output coordinator, for    *)
(* every number of processes, builds, outputs and transactions, and every  *)
(* budget of accidents.                                                    *)
(*                                                                         *)
(* That every value written is of its kind depends on where the writer is: *)
(* publish reads the committed snapshot because recovery found one, a      *)
(* rolled-forward transaction has a pending.json because nobody else       *)
(* removes it.  Shape says what a process knows at each label, of its      *)
(* locals and, as it holds the publication lock, of the disk.              *)
(***************************************************************************)
EXTENDS OutputSafety, TLAPS

---------------------------------------------------------------------------
(* The publication lock *)

(* Whoever is in the publication section holds its lock. *)
PubInv ==
    /\ DOMAIN pc = Procs
    /\ \A p \in Procs : pc[p] \in PubSection => pubLock = p

(* A step that moves one process within or outside the section preserves    *)
(* PubInv if it keeps the lock: every action but acquisition and release.   *)
LEMMA PubMove ==
    ASSUME PubInv, NEW p \in Procs, NEW label, label \in PubSection => pc[p] \in PubSection,
           pc' = [pc EXCEPT ![p] = label], pubLock' = pubLock
    PROVE  PubInv'
BY DEF PubInv

(* So does one that takes the process out and frees the lock it held.       *)
LEMMA PubOut ==
    ASSUME PubInv, NEW p \in Procs, NEW label, label \notin PubSection,
           pc' = [pc EXCEPT ![p] = label], pubLock' = Freed(pubLock, p)
    PROVE  PubInv'
BY DEF PubInv, Freed

(* And so does the end or the death of a process.                           *)
LEMMA PubLeave ==
    ASSUME PubInv, NEW p \in Procs, Leave(p)
    PROVE  PubInv'
<1>1. "idle" \notin PubSection
  BY DEF PubSection
<1> QED BY <1>1, PubOut DEF Leave

(* Every step of the coordinator and of the generation script keeps PubInv. *)
LEMMA PubStep ==
    ASSUME PubInv, NEW p \in Procs, Step(p)
    PROVE  PubInv'
<1> USE DEF Goto, GotoWith, locks, PubSection
<1>1. CASE Locking(p)
  <2>1. CASE AcquireRegistry(p)
    BY <2>1, PubMove, PubOut, PubLeave DEF AcquireRegistry
  <2>2. CASE AcquireGeneration(p)
    BY <2>2, PubMove, PubOut, PubLeave DEF AcquireGeneration
  <2>3. CASE SpawnChild(p)
    BY <2>3, PubMove, PubOut, PubLeave DEF SpawnChild
  <2>4. CASE AcquirePublication(p)
    BY <2>4, NoneAssumption DEF AcquirePublication, PubInv
  <2> QED BY <1>1, <2>1, <2>2, <2>3, <2>4 DEF Locking
<1>2. CASE Claiming(p)
  <2>1. CASE ValidateRegistry(p)
    BY <2>1, PubMove, PubOut, PubLeave DEF ValidateRegistry, Require
  <2>2. ASSUME NEW file \in DOMAIN EmptyState, WipeFile(p, file)  PROVE PubInv'
    BY <2>2 DEF WipeFile, PubInv
  <2>3. CASE WipeSync(p)
    BY <2>3, PubMove, PubOut, PubLeave DEF WipeSync
  <2>4. CASE LoadClaim(p)
    BY <2>4, PubMove, PubOut, PubLeave DEF LoadClaim, Require
  <2>5. CASE Released(p)
    BY <2>5, PubMove, PubOut, PubLeave DEF Released, Answer
  <2>6. CASE InitSnapshot(p)
    BY <2>6, PubMove, PubOut, PubLeave DEF InitSnapshot
  <2>7. CASE InitClaim(p)
    BY <2>7, PubMove, PubOut, PubLeave DEF InitClaim
  <2>8. CASE SyncState(p)
    <3>1. pc[p] \in PubSection
      BY <2>8 DEF SyncState, AfterSync
    <3> QED BY <2>8, <3>1, PubMove DEF SyncState
  <2> QED BY <1>2, <2>1, <2>2, <2>3, <2>4, <2>5, <2>6, <2>7, <2>8 DEF Claiming
<1>3. CASE Recovering(p)
  <2>1. CASE Recover(p)
    BY <2>1, PubMove, PubOut, PubLeave DEF Recover
  <2>2. CASE Drop(p)
    BY <2>2, PubMove, PubOut, PubLeave DEF Drop
  <2>3. CASE DropSync(p)
    BY <2>3, PubMove, PubOut, PubLeave DEF DropSync
  <2>4. CASE Sweep(p)
    BY <2>4, PubMove, PubOut, PubLeave DEF Sweep
  <2>5. CASE Recovered(p)
    BY <2>5, PubMove, PubOut, PubLeave DEF Recovered, Proceed, Require
  <2> QED BY <1>3, <2>1, <2>2, <2>3, <2>4, <2>5 DEF Recovering
<1>4. CASE Applying(p)
  <2>1. CASE WritePending(p)
    BY <2>1, PubMove, PubOut, PubLeave DEF WritePending
  <2>2. CASE SyncPending(p)
    BY <2>2, PubMove, PubOut, PubLeave DEF SyncPending
  <2>3. CASE ApplyPending(p)
    BY <2>3, PubMove, PubOut, PubLeave DEF ApplyPending, Require
  <2>4. CASE CheckOutput(p)
    BY <2>4, PubMove, PubOut, PubLeave DEF CheckOutput
  <2>5. CASE ActOnOutput(p)
    BY <2>5, PubMove, PubOut, PubLeave DEF ActOnOutput
  <2>6. CASE SyncOutput(p)
    BY <2>6, PubMove, PubOut, PubLeave DEF SyncOutput
  <2>7. CASE OutputsDone(p)
    BY <2>7, PubMove, PubOut, PubLeave DEF OutputsDone
  <2>8. CASE CommitSnapshot(p)
    BY <2>8, PubMove, PubOut, PubLeave DEF CommitSnapshot
  <2> QED BY <1>4, <2>1, <2>2, <2>3, <2>4, <2>5, <2>6, <2>7, <2>8 DEF Applying
<1>5. CASE Generating(p)
  <2>1. CASE Validated(p)
    BY <2>1, PubMove, PubOut, PubLeave DEF Validated
  <2>2. CASE RebuildStaging(p)
    BY <2>2, PubMove, PubOut, PubLeave DEF RebuildStaging
  <2>3. CASE Protoc(p)
    BY <2>3, PubMove, PubOut, PubLeave DEF Protoc
  <2>4. CASE Prepare(p)
    BY <2>4, PubMove, PubOut, PubLeave DEF Prepare
  <2>5. CASE CopyPayload(p)
    BY <2>5, PubMove, PubOut, PubLeave DEF CopyPayload
  <2>6. CASE SyncPayloads(p)
    BY <2>6, PubMove, PubOut, PubLeave DEF SyncPayloads
  <2>7. CASE Verify(p)
    BY <2>7, PubMove, PubOut, PubLeave DEF Verify
  <2>8. CASE CheckPublished(p)
    BY <2>8, PubMove, PubOut, PubLeave DEF CheckPublished, Require
  <2>9. CASE DiscardStaging(p)
    BY <2>9, PubMove, PubOut, PubLeave DEF DiscardStaging
  <2> QED BY <1>5, <2>1, <2>2, <2>3, <2>4, <2>5, <2>6, <2>7, <2>8, <2>9 DEF Generating
<1>6. CASE Configuring(p)
  <2>1. CASE RetireUnplanned(p)
    BY <2>1, PubMove, PubOut, PubLeave DEF RetireUnplanned
  <2>2. CASE RemoveStaging(p)
    BY <2>2, PubMove, PubOut, PubLeave DEF RemoveStaging
  <2>3. CASE SyncStaging(p)
    BY <2>3, PubMove, PubOut, PubLeave DEF SyncStaging
  <2>4. CASE WritePlan(p)
    BY <2>4, PubMove, PubOut, PubLeave DEF WritePlan
  <2>5. CASE ReturnToken(p)
    BY <2>5, PubMove, PubOut, PubLeave DEF ReturnToken, Answer
  <2>6. CASE StoreToken(p)
    BY <2>6, PubMove, PubOut, PubLeave DEF StoreToken
  <2> QED BY <1>6, <2>1, <2>2, <2>3, <2>4, <2>5, <2>6 DEF Configuring
<1>7. CASE Resetting(p)
  <2>1. CASE WriteResetIntent(p)
    BY <2>1, PubMove, PubOut, PubLeave DEF WriteResetIntent
  <2>2. CASE ResumeReset(p)
    BY <2>2, PubMove, PubOut, PubLeave DEF ResumeReset, Require
  <2>3. CASE Purge(p)
    BY <2>3, PubMove, PubOut, PubLeave DEF Purge
  <2>4. CASE RemoveDisposable(p)
    BY <2>4, PubMove, PubOut, PubLeave DEF RemoveDisposable
  <2>5. CASE Unclaim(p)
    BY <2>5, PubMove, PubOut, PubLeave DEF Unclaim
  <2>6. CASE Scrub(p)
    BY <2>6, PubMove, PubOut, PubLeave DEF Scrub
  <2>7. CASE RemoveState(p)
    BY <2>7, PubMove, PubOut, PubLeave DEF RemoveState
  <2> QED BY <1>7, <2>1, <2>2, <2>3, <2>4, <2>5, <2>6, <2>7 DEF Resetting
<1> QED BY <1>1, <1>2, <1>3, <1>4, <1>5, <1>6, <1>7 DEF Step

(* One process at a time reads and changes the state of the root, whatever  *)
(* is killed, orphaned or lost: _publication_lock is enough for it.         *)
THEOREM PublicationIsExclusive == Spec => []PublicationExclusive
<1>1. Init => PubInv
  BY DEF Init, PubInv, PubSection
<1>2. PubInv /\ [Next]_vars => PubInv'
  <2> SUFFICES ASSUME PubInv, [Next]_vars  PROVE PubInv'
    OBVIOUS
  <2> USE DEF PubSection, locks
  <2>1. ASSUME NEW p \in Procs, Starting(p)  PROVE PubInv'
    BY <2>1, PubMove DEF Starting, StartConfigure, StartRetire, StartGenerate, StartReset,
                         Start, GotoWith
  <2>2. ASSUME NEW p \in Procs, Step(p)  PROVE PubInv'
    BY <2>2, PubStep
  <2>3. ASSUME NEW p \in Procs, Kill(p)  PROVE PubInv'
    BY <2>3, PubLeave DEF Kill
  <2>4. ASSUME NEW p \in Procs, ParentDies(p)  PROVE PubInv'
    BY <2>4 DEF ParentDies, PubInv
  <2>5. CASE PowerLoss
    BY <2>5 DEF PowerLoss, PubInv
  <2>6. CASE UserStep
    BY <2>6 DEF UserStep, UserWrites, UserDeletes, UserLinks, UserSets, PubInv
  <2>7. CASE UNCHANGED vars
    BY <2>7 DEF vars, PubInv
  <2> QED BY <2>1, <2>2, <2>3, <2>4, <2>5, <2>6, <2>7 DEF Next, AtRest
<1>3. PubInv => PublicationExclusive
  BY DEF PubInv, PublicationExclusive
<1> QED BY <1>1, <1>2, <1>3, PTL DEF Spec

---------------------------------------------------------------------------
(* The generation lock *)

(* Whoever is in the generation section holds its lock, as long as no       *)
(* run-generation dies alone.                                               *)
GenInv ==
    /\ DOMAIN pc = Procs
    /\ \A p \in Procs : pc[p] \in GenSection => genLock = p
NoOrphans == budget \in [Events -> Nat] /\ budget["orphans"] = 0

(* As for the publication lock. *)
LEMMA GenMove ==
    ASSUME GenInv, NEW p \in Procs, NEW label, label \in GenSection => pc[p] \in GenSection,
           pc' = [pc EXCEPT ![p] = label], genLock' = genLock
    PROVE  GenInv'
BY DEF GenInv
LEMMA GenOut ==
    ASSUME GenInv, NEW p \in Procs, NEW label, label \notin GenSection,
           pc' = [pc EXCEPT ![p] = label], genLock' = Freed(genLock, p)
    PROVE  GenInv'
BY DEF GenInv, Freed
LEMMA GenLeave ==
    ASSUME GenInv, NEW p \in Procs, Leave(p)
    PROVE  GenInv'
<1>1. "idle" \notin GenSection
  BY DEF GenSection, PubSection
<1> QED BY <1>1, GenOut DEF Leave

LEMMA GenStep ==
    ASSUME GenInv, NEW p \in Procs, Step(p)
    PROVE  GenInv'
<1> USE DEF Goto, GotoWith, locks, GenSection, PubSection
<1>1. CASE Locking(p)
  <2>1. CASE AcquireRegistry(p)
    BY <2>1, GenMove, GenOut, GenLeave DEF AcquireRegistry
  <2>2. CASE AcquireGeneration(p)
    BY <2>2, NoneAssumption DEF AcquireGeneration, GenInv
  <2>3. CASE SpawnChild(p)
    BY <2>3, GenMove, GenOut, GenLeave DEF SpawnChild
  <2>4. CASE AcquirePublication(p)
    BY <2>4, GenMove, GenOut, GenLeave DEF AcquirePublication
  <2> QED BY <1>1, <2>1, <2>2, <2>3, <2>4 DEF Locking
<1>2. CASE Claiming(p)
  <2>1. CASE ValidateRegistry(p)
    BY <2>1, GenMove, GenOut, GenLeave DEF ValidateRegistry, Require
  <2>2. ASSUME NEW file \in DOMAIN EmptyState, WipeFile(p, file)  PROVE GenInv'
    BY <2>2 DEF WipeFile, GenInv
  <2>3. CASE WipeSync(p)
    BY <2>3, GenMove, GenOut, GenLeave DEF WipeSync
  <2>4. CASE LoadClaim(p)
    BY <2>4, GenMove, GenOut, GenLeave DEF LoadClaim, Require
  <2>5. CASE Released(p)
    BY <2>5, GenMove, GenOut, GenLeave DEF Released, Answer
  <2>6. CASE InitSnapshot(p)
    BY <2>6, GenMove, GenOut, GenLeave DEF InitSnapshot
  <2>7. CASE InitClaim(p)
    BY <2>7, GenMove, GenOut, GenLeave DEF InitClaim
  <2>8. CASE SyncState(p)
    <3>1. pc[p] \in GenSection
      BY <2>8 DEF SyncState, AfterSync
    <3> QED BY <2>8, <3>1, GenMove DEF SyncState
  <2> QED BY <1>2, <2>1, <2>2, <2>3, <2>4, <2>5, <2>6, <2>7, <2>8 DEF Claiming
<1>3. CASE Recovering(p)
  <2>1. CASE Recover(p)
    BY <2>1, GenMove, GenOut, GenLeave DEF Recover
  <2>2. CASE Drop(p)
    BY <2>2, GenMove, GenOut, GenLeave DEF Drop
  <2>3. CASE DropSync(p)
    BY <2>3, GenMove, GenOut, GenLeave DEF DropSync
  <2>4. CASE Sweep(p)
    BY <2>4, GenMove, GenOut, GenLeave DEF Sweep
  <2>5. CASE Recovered(p)
    BY <2>5, GenMove, GenOut, GenLeave DEF Recovered, Proceed, Require
  <2> QED BY <1>3, <2>1, <2>2, <2>3, <2>4, <2>5 DEF Recovering
<1>4. CASE Applying(p)
  <2>1. CASE WritePending(p)
    BY <2>1, GenMove, GenOut, GenLeave DEF WritePending
  <2>2. CASE SyncPending(p)
    BY <2>2, GenMove, GenOut, GenLeave DEF SyncPending
  <2>3. CASE ApplyPending(p)
    BY <2>3, GenMove, GenOut, GenLeave DEF ApplyPending, Require
  <2>4. CASE CheckOutput(p)
    BY <2>4, GenMove, GenOut, GenLeave DEF CheckOutput
  <2>5. CASE ActOnOutput(p)
    BY <2>5, GenMove, GenOut, GenLeave DEF ActOnOutput
  <2>6. CASE SyncOutput(p)
    BY <2>6, GenMove, GenOut, GenLeave DEF SyncOutput
  <2>7. CASE OutputsDone(p)
    BY <2>7, GenMove, GenOut, GenLeave DEF OutputsDone
  <2>8. CASE CommitSnapshot(p)
    BY <2>8, GenMove, GenOut, GenLeave DEF CommitSnapshot
  <2> QED BY <1>4, <2>1, <2>2, <2>3, <2>4, <2>5, <2>6, <2>7, <2>8 DEF Applying
<1>5. CASE Generating(p)
  <2>1. CASE Validated(p)
    BY <2>1, GenMove, GenOut, GenLeave DEF Validated
  <2>2. CASE RebuildStaging(p)
    BY <2>2, GenMove, GenOut, GenLeave DEF RebuildStaging
  <2>3. CASE Protoc(p)
    BY <2>3, GenMove, GenOut, GenLeave DEF Protoc
  <2>4. CASE Prepare(p)
    BY <2>4, GenMove, GenOut, GenLeave DEF Prepare
  <2>5. CASE CopyPayload(p)
    BY <2>5, GenMove, GenOut, GenLeave DEF CopyPayload
  <2>6. CASE SyncPayloads(p)
    BY <2>6, GenMove, GenOut, GenLeave DEF SyncPayloads
  <2>7. CASE Verify(p)
    BY <2>7, GenMove, GenOut, GenLeave DEF Verify
  <2>8. CASE CheckPublished(p)
    BY <2>8, GenMove, GenOut, GenLeave DEF CheckPublished, Require
  <2>9. CASE DiscardStaging(p)
    BY <2>9, GenMove, GenOut, GenLeave DEF DiscardStaging
  <2> QED BY <1>5, <2>1, <2>2, <2>3, <2>4, <2>5, <2>6, <2>7, <2>8, <2>9 DEF Generating
<1>6. CASE Configuring(p)
  <2>1. CASE RetireUnplanned(p)
    BY <2>1, GenMove, GenOut, GenLeave DEF RetireUnplanned
  <2>2. CASE RemoveStaging(p)
    BY <2>2, GenMove, GenOut, GenLeave DEF RemoveStaging
  <2>3. CASE SyncStaging(p)
    BY <2>3, GenMove, GenOut, GenLeave DEF SyncStaging
  <2>4. CASE WritePlan(p)
    BY <2>4, GenMove, GenOut, GenLeave DEF WritePlan
  <2>5. CASE ReturnToken(p)
    BY <2>5, GenMove, GenOut, GenLeave DEF ReturnToken, Answer
  <2>6. CASE StoreToken(p)
    BY <2>6, GenMove, GenOut, GenLeave DEF StoreToken
  <2> QED BY <1>6, <2>1, <2>2, <2>3, <2>4, <2>5, <2>6 DEF Configuring
<1>7. CASE Resetting(p)
  <2>1. CASE WriteResetIntent(p)
    BY <2>1, GenMove, GenOut, GenLeave DEF WriteResetIntent
  <2>2. CASE ResumeReset(p)
    BY <2>2, GenMove, GenOut, GenLeave DEF ResumeReset, Require
  <2>3. CASE Purge(p)
    BY <2>3, GenMove, GenOut, GenLeave DEF Purge
  <2>4. CASE RemoveDisposable(p)
    BY <2>4, GenMove, GenOut, GenLeave DEF RemoveDisposable
  <2>5. CASE Unclaim(p)
    BY <2>5, GenMove, GenOut, GenLeave DEF Unclaim
  <2>6. CASE Scrub(p)
    BY <2>6, GenMove, GenOut, GenLeave DEF Scrub
  <2>7. CASE RemoveState(p)
    BY <2>7, GenMove, GenOut, GenLeave DEF RemoveState
  <2> QED BY <1>7, <2>1, <2>2, <2>3, <2>4, <2>5, <2>6, <2>7 DEF Resetting
<1> QED BY <1>1, <1>2, <1>3, <1>4, <1>5, <1>6, <1>7 DEF Step

(* An environment event that is spent is not an orphan, if there is none    *)
(* left.                                                                    *)
LEMMA SpendKeepsNoOrphans ==
    ASSUME NoOrphans, NEW event \in Events, Spend(event)
    PROVE  NoOrphans' /\ event # "orphans"
BY DEF NoOrphans, Spend, Events

(* Only commands that start and environment events spend the budget.        *)
LEMMA StepKeepsBudget ==
    ASSUME NEW p \in Procs, Step(p)
    PROVE  budget' = budget
<1> USE DEF env
<1>1. CASE Locking(p)
  BY <1>1 DEF Locking, AcquireRegistry, AcquireGeneration, SpawnChild, AcquirePublication
<1>2. CASE Claiming(p)
  BY <1>2 DEF Claiming, ValidateRegistry, WipeFile, WipeSync, LoadClaim,
     Released, InitSnapshot, InitClaim, SyncState
<1>3. CASE Recovering(p)
  BY <1>3 DEF Recovering, Recover, Drop, DropSync, Sweep,
     Recovered
<1>4. CASE Applying(p)
  BY <1>4 DEF Applying, WritePending, SyncPending, ApplyPending, CheckOutput,
     ActOnOutput, SyncOutput, OutputsDone, CommitSnapshot
<1>5. CASE Generating(p)
  BY <1>5 DEF Generating, Validated, RebuildStaging, Protoc, Prepare,
     CopyPayload, SyncPayloads, Verify, CheckPublished, DiscardStaging
<1>6. CASE Configuring(p)
  BY <1>6 DEF Configuring, RetireUnplanned, RemoveStaging, SyncStaging, WritePlan,
     ReturnToken, StoreToken
<1>7. CASE Resetting(p)
  BY <1>7 DEF Resetting, WriteResetIntent, ResumeReset, Purge, RemoveDisposable,
     Unclaim, Scrub, RemoveState
<1> QED BY <1>1, <1>2, <1>3, <1>4, <1>5, <1>6, <1>7 DEF Step

(* Staging cleanup, protoc, validation and publication of one generation    *)
(* are not interleaved with another's, nor with a reconfiguration or a      *)
(* reset, as long as the parent that holds the lock does not die alone.     *)
THEOREM GenerationIsExclusive ==
    ASSUME \A b \in Budgets : b["orphans"] = 0
    PROVE  Spec => []GenerationExclusive
<1> DEFINE Inv == GenInv /\ NoOrphans
<1>1. Init => Inv
  BY BudgetAssumption DEF Init, GenInv, NoOrphans, GenSection, PubSection, Events
<1>2. Inv /\ [Next]_vars => Inv'
  <2> SUFFICES ASSUME Inv, [Next]_vars  PROVE Inv'
    OBVIOUS
  <2> USE DEF GenSection, PubSection, locks, Events
  <2>1. ASSUME NEW p \in Procs, Starting(p)  PROVE Inv'
    <3>1. ASSUME NEW label \in {"reg", "gen"}, NEW j, NEW event \in Events,
                 Start(p, event, label, j)
          PROVE  Inv'
      BY <3>1, GenMove, SpendKeepsNoOrphans DEF Start, GotoWith
    <3>2. ASSUME NEW b \in Builds, NEW outs \in Plans, StartConfigure(p, b, outs)
          PROVE  Inv'
      BY <3>2, <3>1 DEF StartConfigure
    <3>3. ASSUME NEW b \in Builds, StartRetire(p, b)  PROVE Inv'
      BY <3>3, <3>1 DEF StartRetire
    <3>4. ASSUME NEW b \in Builds, StartReset(p, b)  PROVE Inv'
      BY <3>4, <3>1 DEF StartReset
    <3>5. ASSUME NEW b \in Builds, NEW t \in Targets, StartGenerate(p, b, t)
          PROVE  Inv'
      BY <3>5, <3>1 DEF StartGenerate
    <3> QED BY <2>1, <3>2, <3>3, <3>4, <3>5 DEF Starting
  <2>2. ASSUME NEW p \in Procs, Step(p)  PROVE Inv'
    <3>1. budget' = budget
      BY <2>2, StepKeepsBudget
    <3> QED BY <3>1, <2>2, GenStep DEF NoOrphans
  <2>3. ASSUME NEW p \in Procs, Kill(p)  PROVE Inv'
    BY <2>3, GenLeave, SpendKeepsNoOrphans DEF Kill
  <2>4. ASSUME NEW p \in Procs, ParentDies(p)  PROVE Inv'
    BY <2>4, SpendKeepsNoOrphans DEF ParentDies
  <2>5. CASE PowerLoss
    BY <2>5, SpendKeepsNoOrphans DEF PowerLoss, GenInv
  <2>6. CASE UserStep
    BY <2>6, SpendKeepsNoOrphans DEF UserStep, UserWrites, UserDeletes, UserLinks, UserSets, GenInv
  <2>7. CASE UNCHANGED vars
    BY <2>7 DEF vars, env, GenInv, NoOrphans
  <2> QED BY <2>1, <2>2, <2>3, <2>4, <2>5, <2>6, <2>7 DEF Next, AtRest
<1>3. Inv => GenerationExclusive
  BY DEF GenInv, GenerationExclusive
<1> QED BY <1>1, <1>2, <1>3, PTL DEF Spec

---------------------------------------------------------------------------
(* What the locals of a process hold at a label. *)
Committing == {"drop", "drop_sync", "apply", "snap", "commit_sync"}
WithTxn == Committing \cup {"payload", "pend", "pend_sync"}
AtOutput == {"output", "act", "out_sync"}
LocalOK(label, j) ==
    /\ label # "idle" =>
        /\ j.cmd \in Commands /\ j.build \in Builds
        /\ j.cmd = "generate" => j.target \in Targets
        /\ j.cmd # "reset" /\ (j.cmd = "generate" => label \notin {"gen", "spawn"})
              => j.plan \in PlanRecords
    /\ label \in {"init_sync", "claim"} => j.token \in Nat
    /\ label \in WithTxn => j.txn \in Txns
    /\ label \notin WithTxn \cup AtOutput => j.txn = None
    /\ label \in Committing => j.ret \in Results
    /\ label \in AtOutput => j.txn = None \/ (j.txn \in Txns /\ j.ret \in Results)
    /\ label \in {"act", "out_sync"} => j.cur \in DOMAIN j.ops
    /\ label = "pend" => j.draft \in PendingRecords
    /\ label = "plan" => j.cmd # "reset"
    /\ label \in {"validated", "stage", "protoc", "prepare", "payload"} => j.cmd = "generate"
    /\ label = "retire" => j.cmd \in {"configure", "retire"}

(* What the disk holds for the process at that label. *)
Claimed == {"claim_sync", "recover", "sweep", "drop", "drop_sync", "apply", "output",
    "act", "out_sync", "snap", "commit_sync", "validated", "prepare", "payload", "pend",
    "pend_sync", "verify", "retire", "unstage", "unstage_sync", "plan", "plan_sync",
    "return", "intent", "intent_sync", "resume", "purge", "disposable", "unclaim"}
Replaying == {"pend_sync", "apply", "snap"} \cup AtOutput
DiskOK(label, j, s, t) ==
    /\ label \in Claimed => s.claim \in ClaimRecords
    /\ label \in {"prepare", "payload", "retire", "intent"} => s.snapshot \in Snapshots
    /\ label \in {"resume", "intent_sync", "purge"} => s.reset \in ResetRecords
    /\ label \in {"payload", "pend"} => t[j.txn].ent
    /\ label \in Replaying /\ j.txn \in Txns => t[j.txn].pend \in PendingRecords
Shape(p) == LocalOK(pc[p], job[p]) /\ DiskOK(pc[p], job[p], st, tx)

TypeInv == TypeOK /\ PubInv /\ \A p \in Procs : Shape(p)

---------------------------------------------------------------------------
(* Partial maps *)

(* A partial map is a function, from part of S into T.                      *)
LEMMA MapIntro ==
    ASSUME NEW S, NEW T, NEW D, D \subseteq S, NEW f, f \in [D -> T]
    PROVE  f \in PartialMaps(S, T)
BY DEF PartialMaps

(* What a member of PartialMaps is. *)
LEMMA MapElim ==
    ASSUME NEW S, NEW T, NEW f \in PartialMaps(S, T)
    PROVE  /\ DOMAIN f \subseteq S /\ f \in [DOMAIN f -> T]
           /\ \A x \in DOMAIN f : x \in S /\ f[x] \in T
BY DEF PartialMaps

(* The empty map, and maps with entries removed or added.                   *)
LEMMA MapEmpty == ASSUME NEW S, NEW T PROVE NoMap \in PartialMaps(S, T)
<1>1. NoMap \in [{} -> T]
  BY DEF NoMap
<1> QED BY <1>1, MapIntro

(* Removing entries leaves a partial map. *)
LEMMA MapWithout ==
    ASSUME NEW S, NEW T, NEW f \in PartialMaps(S, T), NEW R
    PROVE  Without(f, R) \in PartialMaps(S, T)
<1>1. Without(f, R) \in [DOMAIN f \ R -> T]
  BY MapElim DEF Without, Restrict
<1> QED BY <1>1, MapIntro, MapElim

(* Adding or replacing an entry leaves a partial map. *)
LEMMA MapPut ==
    ASSUME NEW S, NEW T, NEW f \in PartialMaps(S, T), NEW x \in S, NEW v \in T
    PROVE  Put(f, x, v) \in PartialMaps(S, T)
<1>1. Put(f, x, v) \in [DOMAIN f \cup {x} -> T]
  BY MapElim DEF Put
<1>2. DOMAIN f \cup {x} \subseteq S
  BY MapElim
<1> QED BY <1>1, <1>2, MapIntro

---------------------------------------------------------------------------
(* Control *)

(* Locals that differ in two fields, each of its type, have their type. *)
LEMMA WithTxnRet ==
    ASSUME NEW r \in JobRecords, NEW x \in OrNone(Txns), NEW y \in OrNone(Results)
    PROVE  [r EXCEPT !.txn = x, !.ret = y] \in JobRecords
BY DEF JobRecords

LEMMA WithDraftRet ==
    ASSUME NEW r \in JobRecords, NEW x \in OrNone(PendingRecords), NEW y \in OrNone(Results)
    PROVE  [r EXCEPT !.draft = x, !.ret = y] \in JobRecords
BY DEF JobRecords

LEMMA WithCurObs ==
    ASSUME NEW r \in JobRecords, NEW x \in OrNone(Paths), NEW y \in Contents \cup {Foreign, None}
    PROVE  [r EXCEPT !.cur = x, !.obs = y] \in JobRecords
BY DEF JobRecords

(* The locals a command starts with have their type. *)
LEMMA NoJobTyped == NoJob \in JobRecords
BY MapEmpty DEF NoJob, JobRecords, OrNone, Operations

LEMMA StartRegistered ==
    ASSUME NEW cmd \in {"configure", "retire"}, NEW b \in Builds, NEW pl \in PlanRecords, NEW j,
           j = [NoJob EXCEPT !.cmd = cmd, !.build = b, !.plan = pl]
    PROVE  j \in JobRecords /\ LocalOK("reg", j)
<1>1. cmd \in OrNone(Commands) /\ b \in OrNone(Builds) /\ pl \in OrNone(PlanRecords)
  BY DEF OrNone, Commands
<1>2. j \in JobRecords
  BY <1>1, NoJobTyped DEF JobRecords
<1>3. j.cmd = cmd /\ j.build = b /\ j.plan = pl /\ j.txn = None
  BY DEF NoJob
<1>4. LocalOK("reg", j)
  BY <1>3 DEF LocalOK, WithTxn, Committing, AtOutput, Commands
<1> QED BY <1>2, <1>4

LEMMA StartResetting ==
    ASSUME NEW b \in Builds, NEW token \in Nat, NEW j,
           j = [NoJob EXCEPT !.cmd = "reset", !.build = b, !.token = token]
    PROVE  j \in JobRecords /\ LocalOK("reg", j)
<1>1. "reset" \in OrNone(Commands) /\ b \in OrNone(Builds) /\ token \in OrNone(Nat)
  BY DEF OrNone, Commands
<1>2. j \in JobRecords
  BY <1>1, NoJobTyped DEF JobRecords
<1>3. j.cmd = "reset" /\ j.build = b /\ j.txn = None
  BY DEF NoJob
<1>4. LocalOK("reg", j)
  BY <1>3 DEF LocalOK, WithTxn, Committing, AtOutput, Commands
<1> QED BY <1>2, <1>4

LEMMA StartGenerating ==
    ASSUME NEW b \in Builds, NEW t \in Targets, NEW j,
           j = [NoJob EXCEPT !.cmd = "generate", !.build = b, !.target = t]
    PROVE  j \in JobRecords /\ LocalOK("gen", j)
<1>1. "generate" \in OrNone(Commands) /\ b \in OrNone(Builds) /\ t \in OrNone(Targets)
  BY DEF OrNone, Commands
<1>2. j \in JobRecords
  BY <1>1, NoJobTyped DEF JobRecords
<1>3. j.cmd = "generate" /\ j.build = b /\ j.target = t /\ j.txn = None
  BY DEF NoJob
<1>4. LocalOK("gen", j)
  BY <1>3 DEF LocalOK, WithTxn, Committing, AtOutput, Commands
<1> QED BY <1>2, <1>4

(* What each way of moving a process does to its type and its shape.        *)
LEMMA LeaveOK ==
    ASSUME ControlType, NEW p \in Procs, Leave(p)
    PROVE  ControlType' /\ Shape(p)'
<1>1. NoJob \in JobRecords
  BY MapEmpty DEF NoJob, JobRecords, OrNone, Operations
<1>2. pc'[p] = "idle" /\ job'[p].txn = None /\ pc' \in [Procs -> Labels] /\ job' \in [Procs -> JobRecords]
  BY <1>1 DEF ControlType, Leave, Labels, NoJob
<1>3. {regLock, genLock, pubLock}' \subseteq OrNone(Procs)
  BY DEF ControlType, Leave, Freed, OrNone
<1>4. Shape(p)'
  BY <1>2 DEF Shape, LocalOK, DiskOK, Committing, WithTxn, AtOutput, Claimed, Replaying
<1> QED BY <1>2, <1>3, <1>4 DEF ControlType

(* A process that moves with new locals of its type and shape keeps both. *)
LEMMA GotoWithOK ==
    ASSUME ControlType, NEW p \in Procs, NEW label \in Labels, NEW j \in JobRecords,
           GotoWith(p, label, j), LocalOK(label, j), DiskOK(label, j, st', tx')
    PROVE  ControlType' /\ Shape(p)'
BY DEF ControlType, GotoWith, Shape, locks

(* Answering with a claim token moves the process to where it stores the token. *)
LEMMA AnswerOK ==
    ASSUME ControlType, NEW p \in Procs, pc[p] \in {"load", "return"}, LocalOK(pc[p], job[p]),
           NEW token \in OrNone(Nat), Answer(p, token)
    PROVE  ControlType' /\ Shape(p)'
<1>1. {regLock, genLock, pubLock}' \subseteq OrNone(Procs)
  BY DEF ControlType, Answer, Freed, OrNone
<1>2. pc' \in [Procs -> Labels] /\ job' \in [Procs -> JobRecords]
  BY DEF ControlType, Answer, Labels, JobRecords
<1>3. pc'[p] = "store" /\ job'[p] = [job[p] EXCEPT !.token = token]
  BY DEF ControlType, Answer
<1>4. job[p] \in JobRecords
  BY DEF ControlType
<1> QED BY <1>1, <1>2, <1>3, <1>4 DEF ControlType, Shape, LocalOK, DiskOK, JobRecords,
       Committing, WithTxn, AtOutput, Claimed, Replaying

(* A process that moves with the same locals needs only their shape at the new label. *)
LEMMA GotoOK ==
    ASSUME ControlType, NEW p \in Procs, NEW label \in Labels,
           Goto(p, label), LocalOK(label, job[p]), DiskOK(label, job[p], st', tx')
    PROVE  ControlType' /\ Shape(p)'
BY DEF ControlType, Goto, Shape, locks

---------------------------------------------------------------------------
(* The disk *)

(* The file operations keep the types, if what they write has its type.     *)
LEMMA WriteStateOK ==
    ASSUME StateType, NEW file \in DOMAIN EmptyState, NEW value,
           [st EXCEPT ![file] = value] \in States, WriteState(file, value)
    PROVE  StateType'
BY DEF StateType, WriteState

(* Removing a state file keeps it too. *)
LEMMA StateNoneOK ==
    ASSUME NEW s \in States, NEW file \in DOMAIN EmptyState
    PROVE  [s EXCEPT ![file] = None] \in States
<1>1. CASE file = "claim"
  BY <1>1 DEF States, OrNone
<1>2. CASE file = "snapshot"
  BY <1>2 DEF States, OrNone
<1>3. CASE file = "plan"
  BY <1>3 DEF States, OrNone
<1>4. CASE file = "reset"
  BY <1>4 DEF States, OrNone
<1> QED BY <1>1, <1>2, <1>3, <1>4 DEF EmptyState

(* A sync forgets the older contents. *)
LEMMA SyncStateOK ==
    ASSUME StateType, st' = st, stOld' = {st} \/ stOld' = stOld
    PROVE  StateType'
BY DEF StateType

(* Writing a transaction that is a transaction record keeps the type. *)
LEMMA WriteTxOK ==
    ASSUME TxType, NEW x \in Txns, NEW new \in TxRecords, ~new.ent => new = NoTx,
           WriteTx(x, new)
    PROVE  TxType'
<1>1. txOld' \in [Txns -> TxOldRecords]
  BY DEF TxType, WriteTx, TxRecords, TxOldRecords
<1>2. tx' \in [Txns -> TxRecords]
  BY DEF TxType, WriteTx
<1>3. ASSUME NEW y \in Txns
      PROVE  /\ tx'[y].ent \in txOld'[y].ent /\ tx'[y].pend \in txOld'[y].pend
             /\ tx'[y].pay \in txOld'[y].pay
             /\ ~tx'[y].ent => tx'[y] = NoTx
  BY DEF TxType, WriteTx, TxRecords, TxOldRecords
<1> QED BY <1>1, <1>2, <1>3 DEF TxType

(* So does the directory of no transaction at all. *)
LEMMA NoTxOK ==
    ASSUME tx' = [x \in Txns |-> NoTx], txOld' = [x \in Txns |-> NoTxOld]
    PROVE  TxType'
BY MapEmpty DEF TxType, NoTx, NoTxOld, TxRecords, TxOldRecords, OrNone, Payloads

(* Syncing the directory of transactions leaves older contents that are possible. *)
LEMMA EntriesSyncedKind ==
    ASSUME TxType
    PROVE  /\ EntriesSynced(txOld, tx) \in [Txns -> TxOldRecords]
           /\ \A x \in Txns : /\ tx[x].ent \in EntriesSynced(txOld, tx)[x].ent
                             /\ tx[x].pend \in EntriesSynced(txOld, tx)[x].pend
                             /\ tx[x].pay \in EntriesSynced(txOld, tx)[x].pay
<1> DEFINE new == EntriesSynced(txOld, tx)
<1>1. NoTxOld \in TxOldRecords
  BY MapEmpty DEF NoTxOld, TxOldRecords, OrNone, Payloads
<1>2. new \in [Txns -> TxOldRecords]
  BY <1>1 DEF TxType, EntriesSynced, TxOldRecords
<1>3. ASSUME NEW x \in Txns
      PROVE  tx[x].ent \in new[x].ent /\ tx[x].pend \in new[x].pend /\ tx[x].pay \in new[x].pay
  <2>1. CASE tx[x].ent
    <3>1. new[x] = [txOld[x] EXCEPT !.ent = {TRUE}]
      BY <2>1 DEF EntriesSynced
    <3> QED BY <2>1, <3>1 DEF TxType, TxRecords, TxOldRecords
  <2>2. CASE ~tx[x].ent
    <3>1. new[x] = NoTxOld /\ tx[x] = NoTx
      BY <2>2 DEF EntriesSynced, TxType
    <3> QED BY <3>1 DEF NoTx, NoTxOld
  <2> QED BY <2>1, <2>2
<1> QED BY <1>2, <1>3

(* So it keeps the type of the transactions. *)
LEMMA EntriesSyncedOK ==
    ASSUME TxType, tx' = tx, txOld' = EntriesSynced(txOld, tx)
    PROVE  TxType'
BY EntriesSyncedKind DEF TxType

(* So does syncing one pending.json, *)
LEMMA PendSyncedOK ==
    ASSUME TxType, NEW x \in Txns, NEW old \in [Txns -> TxOldRecords],
           \A y \in Txns : /\ tx[y].ent \in old[y].ent /\ tx[y].pend \in old[y].pend
                           /\ tx[y].pay \in old[y].pay,
           tx' = tx, txOld' = [old EXCEPT ![x].pend = {tx[x].pend}]
    PROVE  TxType'
<1>1. txOld' \in [Txns -> TxOldRecords]
  BY DEF TxType, TxRecords, TxOldRecords
<1>2. ASSUME NEW y \in Txns
      PROVE  /\ tx[y].ent \in txOld'[y].ent /\ tx[y].pend \in txOld'[y].pend
             /\ tx[y].pay \in txOld'[y].pay
  BY DEF TxType, TxOldRecords
<1> QED BY <1>1, <1>2 DEF TxType

(* and syncing the payloads of one transaction. *)
LEMMA PaySyncedOK ==
    ASSUME TxType, NEW x \in Txns,
           tx' = tx, txOld' = [txOld EXCEPT ![x].pay = {tx[x].pay}]
    PROVE  TxType'
<1>1. txOld' \in [Txns -> TxOldRecords]
  BY DEF TxType, TxRecords, TxOldRecords
<1>2. ASSUME NEW y \in Txns
      PROVE  /\ tx[y].ent \in txOld'[y].ent /\ tx[y].pend \in txOld'[y].pend
             /\ tx[y].pay \in txOld'[y].pay
  BY DEF TxType, TxOldRecords
<1> QED BY <1>1, <1>2 DEF TxType

(* A new transaction directory is empty and exists. *)
LEMMA MakeTransactionOK ==
    ASSUME TxType, StateType, NEW x \in Txns, MakeTransaction(x)
    PROVE  TxType' /\ StateType' /\ st' = st /\ tx'[x].ent
<1>1. NoTx \in TxRecords /\ NoTxOld \in TxOldRecords
  BY MapEmpty DEF NoTx, NoTxOld, TxRecords, TxOldRecords, OrNone, Payloads
<1> DEFINE old == [txOld EXCEPT ![x] = NoTxOld]
<1>2. tx' \in [Txns -> TxRecords] /\ old \in [Txns -> TxOldRecords]
  BY <1>1 DEF MakeTransaction, TxType, TxRecords
<1>3. txOld' \in [Txns -> TxOldRecords]
  BY <1>1, <1>2 DEF MakeTransaction, EntriesSynced, TxOldRecords
<1>4. ASSUME NEW y \in Txns
      PROVE  /\ tx'[y].ent \in txOld'[y].ent /\ tx'[y].pend \in txOld'[y].pend
             /\ tx'[y].pay \in txOld'[y].pay
             /\ ~tx'[y].ent => tx'[y] = NoTx
  <2>1. CASE y = x
    BY <2>1, <1>1 DEF MakeTransaction, EntriesSynced, TxType, NoTx, NoTxOld
  <2>2. CASE y # x
    <3>1. tx'[y] = tx[y] /\ old[y] = txOld[y]
      BY <2>2 DEF MakeTransaction, TxType
    <3>2. CASE tx[y].ent
      <4>1. txOld'[y] = [txOld[y] EXCEPT !.ent = {TRUE}]
        BY <3>1, <3>2 DEF MakeTransaction, EntriesSynced
      <4> QED BY <3>1, <3>2, <4>1 DEF TxType, TxRecords, TxOldRecords
    <3>3. CASE ~tx[y].ent
      <4>1. txOld'[y] = NoTxOld /\ tx[y] = NoTx
        BY <3>1, <3>3 DEF MakeTransaction, EntriesSynced, TxType
      <4> QED BY <3>1, <4>1 DEF NoTx, NoTxOld
    <3> QED BY <3>2, <3>3
  <2> QED BY <2>1, <2>2
<1>5. StateType' /\ st' = st
  BY SyncStateOK DEF MakeTransaction
<1>6. tx'[x].ent
  BY <1>1 DEF MakeTransaction, TxType, NoTx
<1> QED BY <1>2, <1>3, <1>4, <1>5, <1>6 DEF TxType

(* Writing an output file keeps the type of the outputs. *)
LEMMA WriteOutOK ==
    ASSUME OutType, NEW o \in Paths, NEW cell \in Cells, WriteOut(o, cell),
           touched' \subseteq touched
    PROVE  OutType'
BY DEF OutType, WriteOut

(* So does syncing one. *)
LEMMA SyncOutOK ==
    ASSUME OutType, NEW o \in Paths, SyncOut(o), touched' = touched
    PROVE  OutType'
BY DEF OutType, SyncOut

---------------------------------------------------------------------------
(* Operations and snapshots *)

(* The entries of a snapshot.                                               *)
LEMMA EntriesElim ==
    ASSUME NEW entries \in Entries
    PROVE  /\ DOMAIN entries \subseteq Paths
           /\ \A o \in DOMAIN entries :
                entries[o].hash \in Contents /\ entries[o].target \in Targets
<1>1. \A o \in DOMAIN entries : o \in Paths /\ entries[o] \in EntryRecords
  BY MapElim DEF Entries
<1> QED BY <1>1 DEF EntryRecords

(* The targets and outputs of a plan.                                       *)
LEMMA PlanTargetsOK ==
    ASSUME NEW pl \in OrNone(PlanRecords)
    PROVE  PlanTargets(pl) \subseteq Targets
BY MapElim DEF PlanTargets, PlanRecords, OrNone

(* The outputs a plan assigns are paths. *)
LEMMA OutputsOfOK ==
    ASSUME NEW pl \in PlanRecords, NEW t
    PROVE  OutputsOf(pl, t) \subseteq Paths
BY MapElim DEF OutputsOf, PlanRecords

(* What the retirement, the publication and the reset plan to do, and the   *)
(* snapshot it leads to, have the type of operations and snapshots.         *)
LEMMA DeleteOpsOK ==
    ASSUME NEW entries \in Entries
    PROVE  DeleteOps(entries) \in Operations
<1>1. DeleteOps(entries) \in [DOMAIN entries -> OpRecords]
  BY EntriesElim DEF DeleteOps, OpRecords, OrNone
<1> QED BY <1>1, EntriesElim, MapIntro DEF Operations

(* A recorded hash is a content, or there is none. *)
LEMMA HashInOK ==
    ASSUME NEW entries \in Entries, NEW o
    PROVE  HashIn(entries, o) \in OrNone(Contents)
BY EntriesElim DEF HashIn, OrNone

(* The entries after the operations are entries. *)
LEMMA NextEntriesOK ==
    ASSUME NEW entries \in Entries, NEW ops \in Operations
    PROVE  NextEntries(entries, ops) \in Entries
<1> DEFINE added == {o \in DOMAIN ops : ops[o].after # None}
           moved == {o \in DOMAIN ops : ops[o].transfer # None}
           heirs == {ops[o].transfer.path : o \in moved}
           source(d) == CHOOSE o \in moved : ops[o].transfer.path = d
           value(o) == IF o \in added THEN [hash |-> ops[o].after, target |-> ops[o].target]
                       ELSE IF o \in heirs THEN [hash |-> ops[source(o)].before,
                                                 target |-> ops[source(o)].target]
                       ELSE entries[o]
           kept == (DOMAIN entries \ DOMAIN ops) \cup added \cup heirs
<1>1. \A o \in DOMAIN ops : o \in Paths /\ ops[o] \in OpRecords
  BY MapElim DEF Operations
<1>2. \A o \in DOMAIN entries : o \in Paths /\ entries[o] \in EntryRecords
  BY MapElim DEF Entries
<1>3. \A o \in moved : /\ ops[o].before \in Contents /\ ops[o].target \in Targets
                       /\ ops[o].transfer.path \in Paths
  BY <1>1 DEF OpRecords, OrNone
<1>4. \A d \in heirs : source(d) \in moved
  OBVIOUS
<1>5. kept \subseteq Paths
  BY <1>1, <1>2, <1>3
<1>6. \A o \in added : ops[o].after \in Contents /\ ops[o].target \in Targets
  BY <1>1 DEF OpRecords, OrNone
<1>7. \A o \in kept : value(o) \in EntryRecords
  BY <1>2, <1>3, <1>4, <1>6 DEF EntryRecords
<1>8. [o \in kept |-> value(o)] \in [kept -> EntryRecords]
  BY <1>7
<1>9. NextEntries(entries, ops) = [o \in kept |-> value(o)]
  BY DEF NextEntries
<1> QED BY <1>5, <1>8, <1>9, MapIntro DEF Entries

(* A draft built from operations is a pending.json. *)
LEMMA PendingOK ==
    ASSUME StateType, st.claim \in ClaimRecords, st.snapshot \in Snapshots,
           NEW b \in Builds, NEW outs \in PartialMaps(Paths, Targets), NEW ops \in Operations
    PROVE  Pending(b, outs, ops) \in PendingRecords
<1>1. NextEntries(st.snapshot.entries, ops) \in Entries
  BY NextEntriesOK DEF Snapshots
<1> QED BY <1>1 DEF Pending, PendingRecords, Plan, PlanRecords, Snapshots, ClaimRecords

(* What a publication plans are operations. *)
LEMMA PublishOpsOK ==
    ASSUME NEW p \in Procs, job \in [Procs -> JobRecords], TxType,
           job[p].plan \in PlanRecords, job[p].txn \in Txns, job[p].target \in Targets,
           Outputs(p) \subseteq DOMAIN tx[job[p].txn].pay, st.snapshot \in Snapshots
    PROVE  PublishOps(p) \in Operations
<1>1. tx[job[p].txn].pay \in Payloads
  BY DEF TxType, TxRecords
<1>2. \A o \in Outputs(p) : o \in Paths /\ tx[job[p].txn].pay[o] \in Contents
  BY <1>1, MapElim DEF Payloads
<1>3. \A o : HashIn(st.snapshot.entries, o) \in OrNone(Contents)
  BY HashInOK DEF Snapshots
<1>4. PublishOps(p) \in [Outputs(p) -> OpRecords]
  BY <1>2, <1>3 DEF PublishOps, OpRecords
<1> QED BY <1>2, <1>4, MapIntro DEF Operations

(* What a retirement plans are operations. *)
LEMMA RetireOpsOK ==
    ASSUME NEW p \in Procs, OutType,
           job[p].plan \in PlanRecords, st.snapshot \in Snapshots
    PROVE  RetireOps(p) \in Operations
<1> DEFINE heir(o) == CHOOSE d \in Linked(p, o) : TRUE
           first(d) == CHOOSE o \in Retired(p) : d \in Linked(p, o)
           gives(o) == Linked(p, o) # {} /\ first(heir(o)) = o
           entries == st.snapshot.entries
           op(o) == [before |-> entries[o].hash, after |-> None,
                     target |-> IF gives(o) THEN job[p].plan.outs[heir(o)]
                                ELSE entries[o].target,
                     transfer |-> IF gives(o)
                                  THEN [path |-> heir(o), inode |-> out[o].inode]
                                  ELSE None]
<1>1. \A o \in DOMAIN entries : /\ o \in Paths /\ entries[o].hash \in Contents
                                /\ entries[o].target \in Targets
  BY EntriesElim DEF Snapshots
<1>2. \A d \in DOMAIN job[p].plan.outs : d \in Paths /\ job[p].plan.outs[d] \in Targets
  BY MapElim DEF PlanRecords
<1>3. Retired(p) \subseteq DOMAIN entries
  BY DEF Retired
<1>4. ASSUME NEW o \in Retired(p), gives(o)
      PROVE  /\ heir(o) \in Paths /\ job[p].plan.outs[heir(o)] \in Targets
             /\ out[o].inode \in Inodes
  <2>1. heir(o) \in Linked(p, o)
    BY <1>4
  <2>2. out[o] # None /\ out[o] \in Cells
    BY <2>1, <1>1, <1>3 DEF Linked, SameFile, OutType
  <2> QED BY <2>1, <2>2, <1>2 DEF Linked, Cells, OrNone
<1>5. \A o \in Retired(p) : op(o) \in OpRecords
  <2> TAKE o \in Retired(p)
  <2>1. CASE gives(o)
    BY <2>1, <1>1, <1>3, <1>4 DEF OpRecords, OrNone
  <2>2. CASE ~gives(o)
    BY <2>2, <1>1, <1>3 DEF OpRecords, OrNone
  <2> QED BY <2>1, <2>2
<1>6. RetireOps(p) = [o \in Retired(p) |-> op(o)]
  BY DEF RetireOps
<1>7. Retired(p) \subseteq Paths
  BY <1>1, <1>3
<1>8. [o \in Retired(p) |-> op(o)] \in [Retired(p) -> OpRecords]
  BY <1>5
<1> QED BY <1>6, <1>7, <1>8, MapIntro DEF Operations

---------------------------------------------------------------------------
(* One lemma for each group of actions: the step of a process keeps the     *)
(* types, and leaves the process in the shape of its next label.            *)

(* Locks. *)
LEMMA LockingOK ==
    ASSUME TypeInv, NEW p \in Procs, Locking(p)
    PROVE  TypeOK' /\ Shape(p)'
<1>0. /\ ControlType /\ StateType /\ TxType /\ OutType /\ StageType /\ EnvType
      /\ pc[p] \in Labels /\ job[p] \in JobRecords
      /\ LocalOK(pc[p], job[p]) /\ DiskOK(pc[p], job[p], st, tx)
  BY DEF TypeInv, TypeOK, ControlType, Shape
<1>00. job[p] \in JobRecords
  BY <1>0
<1>1. ASSUME AcquireRegistry(p)  PROVE TypeOK' /\ Shape(p)'
  <2>1. ControlType' /\ Shape(p)'
    <3>1. ControlType'
      BY <1>1, <1>0 DEF AcquireRegistry, ControlType, OrNone, Labels
    <3>2. pc'[p] = "gen" /\ job'[p] = job[p] /\ pc[p] = "reg"
      BY <1>1, <1>0 DEF AcquireRegistry, ControlType
    <3> QED BY <1>0, <3>1, <3>2 DEF Shape, LocalOK, DiskOK, Committing, WithTxn, AtOutput,
               Claimed, Replaying
  <2>2. StateType' /\ TxType' /\ OutType' /\ StageType' /\ EnvType'
    BY <1>1, <1>0 DEF AcquireRegistry, disk, stVars, txVars, outVars, stageVars, env,
       StateType, TxType, OutType, StageType, EnvType
  <2> QED BY <2>1, <2>2 DEF TypeOK
<1>2. ASSUME AcquireGeneration(p)  PROVE TypeOK' /\ Shape(p)'
  <2>1. ControlType' /\ Shape(p)'
    <3>1. ControlType'
      BY <1>2, <1>0 DEF AcquireGeneration, ControlType, OrNone, Labels
    <3>2. /\ pc'[p] = IF job[p].cmd = "generate" THEN "spawn" ELSE "pub"
          /\ job'[p] = job[p] /\ pc[p] = "gen"
      BY <1>2, <1>0 DEF AcquireGeneration, ControlType
    <3> QED BY <1>0, <3>1, <3>2 DEF Shape, LocalOK, DiskOK, Committing, WithTxn, AtOutput,
               Claimed, Replaying
  <2>2. StateType' /\ TxType' /\ OutType' /\ StageType' /\ EnvType'
    BY <1>2, <1>0 DEF AcquireGeneration, disk, stVars, txVars, outVars, stageVars, env,
       StateType, TxType, OutType, StageType, EnvType
  <2> QED BY <2>1, <2>2 DEF TypeOK
<1>3. ASSUME SpawnChild(p)  PROVE TypeOK' /\ Shape(p)'
  <2>1. ControlType' /\ Shape(p)'
    <3>1. CASE planFile[job[p].build] = None
      BY <1>3, <1>0, <3>1, LeaveOK DEF SpawnChild
    <3>2. CASE planFile[job[p].build] # None
      <4> DEFINE j == [job[p] EXCEPT !.plan = planFile[job[p].build]]
      <4>1. planFile[job[p].build] \in PlanRecords
        BY <1>3, <1>0, <3>2 DEF SpawnChild, LocalOK, EnvType, OrNone
      <4>2. j \in JobRecords /\ LocalOK("pub", j) /\ DiskOK("pub", j, st', tx')
        BY <1>3, <1>0, <4>1 DEF SpawnChild, JobRecords, OrNone, LocalOK, DiskOK,
           Committing, WithTxn, AtOutput, Claimed, Replaying
      <4> QED BY <1>3, <1>0, <3>2, <4>2, GotoWithOK DEF SpawnChild, Labels
    <3> QED BY <3>1, <3>2
  <2>2. StateType' /\ TxType' /\ OutType' /\ StageType' /\ EnvType'
    BY <1>3, <1>0 DEF SpawnChild, disk, stVars, txVars, outVars, stageVars, env,
       StateType, TxType, OutType, StageType, EnvType
  <2> QED BY <2>1, <2>2 DEF TypeOK
<1>4. ASSUME AcquirePublication(p)  PROVE TypeOK' /\ Shape(p)'
  <2>1. ControlType' /\ Shape(p)'
    <3>1. ControlType'
      BY <1>4, <1>0 DEF AcquirePublication, ControlType, OrNone, Labels
    <3>2. /\ pc'[p] = IF job[p].cmd = "configure" THEN "registry" ELSE "load"
          /\ job'[p] = job[p] /\ pc[p] = "pub"
      BY <1>4, <1>0 DEF AcquirePublication, ControlType
    <3> QED BY <1>0, <3>1, <3>2 DEF Shape, LocalOK, DiskOK, Committing, WithTxn, AtOutput,
               Claimed, Replaying
  <2>2. StateType' /\ TxType' /\ OutType' /\ StageType' /\ EnvType'
    BY <1>4, <1>0 DEF AcquirePublication, disk, stVars, txVars, outVars, stageVars, env,
       StateType, TxType, OutType, StageType, EnvType
  <2> QED BY <2>1, <2>2 DEF TypeOK
<1> QED BY <1>1, <1>2, <1>3, <1>4 DEF Locking

(* Claiming the root. *)
LEMMA ClaimingOK ==
    ASSUME TypeInv, NEW p \in Procs, Claiming(p)
    PROVE  TypeOK' /\ Shape(p)'
<1>0. /\ ControlType /\ StateType /\ TxType /\ OutType /\ StageType /\ EnvType
      /\ pc[p] \in Labels /\ job[p] \in JobRecords
      /\ LocalOK(pc[p], job[p]) /\ DiskOK(pc[p], job[p], st, tx)
  BY DEF TypeInv, TypeOK, ControlType, Shape
<1>00. job[p] \in JobRecords
  BY <1>0
<1>1. ASSUME ValidateRegistry(p)  PROVE TypeOK' /\ Shape(p)'
  <2>1. ControlType' /\ Shape(p)'
    BY ZenonT(60), <1>1, <1>0, GotoOK, GotoWithOK, LeaveOK DEF ValidateRegistry, Require, disk,
       stVars, txVars, LocalOK, DiskOK, Committing, WithTxn, AtOutput, Claimed, Replaying,
       Labels
  <2>2. StateType' /\ TxType' /\ OutType' /\ StageType' /\ EnvType'
    BY <1>1, <1>0 DEF ValidateRegistry, disk, stVars, txVars, outVars, stageVars, env,
       StateType, TxType, OutType, StageType, EnvType
  <2> QED BY <2>1, <2>2 DEF TypeOK
<1>2. ASSUME NEW file \in DOMAIN EmptyState, WipeFile(p, file)  PROVE TypeOK' /\ Shape(p)'
  <2>1. ControlType' /\ Shape(p)'
    <3>1. pc' = pc /\ job' = job /\ locks' = locks /\ pc[p] = "wipe"
      BY <1>2 DEF WipeFile
    <3>2. ControlType'
      BY <1>0, <3>1 DEF ControlType, locks
    <3>3. DiskOK("wipe", job[p], st', tx')
      BY DEF DiskOK, Claimed, Replaying, AtOutput
    <3>4. LocalOK("wipe", job[p])
      BY <1>0, <3>1
    <3> QED BY <3>1, <3>2, <3>3, <3>4 DEF Shape
  <2>2. TxType' /\ OutType' /\ StageType' /\ EnvType'
    BY <1>2, <1>0 DEF WipeFile, disk, txVars, outVars, stageVars, env, TxType, OutType,
       StageType, EnvType
  <2>3. StateType'
    BY <1>2, <1>0, StateNoneOK, WriteStateOK DEF WipeFile, StateType
  <2> QED BY <2>1, <2>2, <2>3 DEF TypeOK
<1>3. ASSUME WipeSync(p)  PROVE TypeOK' /\ Shape(p)'
  <2>1. ControlType' /\ Shape(p)'
    BY ZenonT(60), <1>3, <1>0, GotoOK, GotoWithOK, LeaveOK DEF WipeSync, Require, disk, stVars,
       txVars, LocalOK, DiskOK, Committing, WithTxn, AtOutput, Claimed, Replaying, Labels
  <2>2. OutType' /\ StageType' /\ EnvType'
    BY <1>3, <1>0 DEF WipeSync, disk, outVars, stageVars, env, OutType, StageType, EnvType
  <2>3. StateType'
    BY <1>3, <1>0, SyncStateOK DEF WipeSync, disk, stVars
  <2>4. TxType'
    BY <1>3, NoTxOK DEF WipeSync
  <2> QED BY <2>1, <2>2, <2>3, <2>4 DEF TypeOK
<1>4. ASSUME LoadClaim(p)  PROVE TypeOK' /\ Shape(p)'
  <2>1. ControlType' /\ Shape(p)'
    <3>1. st' = st /\ tx' = tx /\ pc[p] = "load"
      BY <1>4 DEF LoadClaim, disk, stVars, txVars
    <3>2. st.claim # None => st.claim \in ClaimRecords
      BY <1>0 DEF StateType, States, OrNone
    <3>3. st.reset # None => st.reset \in ResetRecords
      BY <1>0 DEF StateType, States, OrNone
    <3>4. CASE job[p].cmd = "configure" /\ st.claim = None
      <4>1. Goto(p, "init")
        BY <1>4, <3>4 DEF LoadClaim
      <4>2. LocalOK("init", job[p]) /\ DiskOK("init", job[p], st', tx')
        BY <1>0, <3>1, <3>4 DEF LocalOK, DiskOK, Committing, WithTxn, AtOutput, Claimed,
           Replaying
      <4> QED BY <1>0, <4>1, <4>2, GotoOK DEF Labels
    <3>5. CASE OwnClaim(p) /\ Goto(p, "resume") /\ st.reset # None
      <4>1. LocalOK("resume", job[p]) /\ DiskOK("resume", job[p], st', tx')
        BY <1>0, <3>1, <3>2, <3>3, <3>5 DEF OwnClaim, LocalOK, DiskOK, Committing,
           WithTxn, AtOutput, Claimed, Replaying
      <4> QED BY <1>0, <3>5, <4>1, GotoOK DEF Labels
    <3>6. CASE OwnClaim(p) /\ Goto(p, "recover")
      <4>1. LocalOK("recover", job[p]) /\ DiskOK("recover", job[p], st', tx')
        BY <1>0, <3>1, <3>2, <3>6 DEF OwnClaim, LocalOK, DiskOK, Committing, WithTxn,
           AtOutput, Claimed, Replaying
      <4> QED BY <1>0, <3>6, <4>1, GotoOK DEF Labels
    <3>7. CASE Leave(p)
      BY <1>0, <3>7, LeaveOK
    <3> QED BY <1>4, <3>4, <3>5, <3>6, <3>7 DEF LoadClaim, Require
  <2>2. StateType' /\ TxType' /\ OutType' /\ StageType' /\ EnvType'
    BY <1>4, <1>0 DEF LoadClaim, disk, stVars, txVars, outVars, stageVars, env, StateType,
       TxType, OutType, StageType, EnvType
  <2> QED BY <2>1, <2>2 DEF TypeOK
<1>5. ASSUME Released(p)  PROVE TypeOK' /\ Shape(p)'
  <2>1. ControlType' /\ Shape(p)'
    BY <1>5, <1>0, AnswerOK DEF Released, OrNone
  <2>2. StateType' /\ TxType' /\ OutType' /\ StageType' /\ EnvType'
    BY <1>5, <1>0 DEF Released, disk, stVars, txVars, outVars, stageVars, env, StateType,
       TxType, OutType, StageType, EnvType
  <2> QED BY <2>1, <2>2 DEF TypeOK
<1>6. ASSUME InitSnapshot(p)  PROVE TypeOK' /\ Shape(p)'
  <2>1. ControlType' /\ Shape(p)'
    <3> DEFINE j == [job[p] EXCEPT !.token = nextToken]
    <3>1. j \in JobRecords /\ LocalOK("init_sync", j) /\ DiskOK("init_sync", j, st', tx')
      BY <1>6, <1>0 DEF InitSnapshot, JobRecords, OrNone, EnvType, LocalOK, DiskOK,
         Committing, WithTxn, AtOutput, Claimed, Replaying
    <3> QED BY <1>6, <1>0, <3>1, GotoWithOK DEF InitSnapshot, Labels
  <2>2. TxType' /\ OutType' /\ StageType'
    BY <1>6, <1>0 DEF InitSnapshot, disk, txVars, outVars, stageVars, env, TxType,
       OutType, StageType
  <2>3. StateType'
    <3>1. [token |-> nextToken, gen |-> 0, entries |-> NoMap] \in Snapshots
      BY <1>0, MapEmpty DEF EnvType, Snapshots, Entries
    <3> QED BY <1>6, <1>0, <3>1, WriteStateOK DEF InitSnapshot, EmptyState, StateType,
               States, OrNone
  <2>4. EnvType'
    BY <1>6, <1>0 DEF InitSnapshot, EnvType
  <2> QED BY <2>1, <2>2, <2>3, <2>4 DEF TypeOK
<1>7. ASSUME InitClaim(p)  PROVE TypeOK' /\ Shape(p)'
  <2>1. ControlType' /\ Shape(p)'
    <3>1. st'.claim \in ClaimRecords
      BY <1>7, <1>0 DEF InitClaim, WriteState, StateType, States, ClaimRecords, LocalOK
    <3>2. LocalOK("claim_sync", job[p]) /\ DiskOK("claim_sync", job[p], st', tx')
      BY <1>7, <1>0, <3>1 DEF InitClaim, LocalOK, DiskOK, Committing, WithTxn, AtOutput,
         Claimed, Replaying
    <3> QED BY <1>7, <1>0, <3>2, GotoOK DEF InitClaim, Labels
  <2>2. TxType' /\ OutType' /\ StageType' /\ EnvType'
    BY <1>7, <1>0 DEF InitClaim, disk, txVars, outVars, stageVars, env, TxType, OutType,
       StageType, EnvType
  <2>3. StateType'
    <3>1. [build |-> job[p].build, token |-> job[p].token] \in ClaimRecords
      BY <1>7, <1>0 DEF InitClaim, LocalOK, ClaimRecords
    <3> QED BY <1>7, <1>0, <3>1, WriteStateOK DEF InitClaim, EmptyState, StateType,
               States, OrNone
  <2> QED BY <2>1, <2>2, <2>3 DEF TypeOK
<1>8. ASSUME SyncState(p)  PROVE TypeOK' /\ Shape(p)'
  <2>1. ControlType' /\ Shape(p)'
    <3>1. st' = st /\ tx' = tx
      BY <1>8 DEF SyncState, txVars
    <3>2. CASE pc[p] = "init_sync"
      <4>1. Goto(p, "claim")
        BY <1>8, <3>2 DEF SyncState, AfterSync
      <4>2. LocalOK("claim", job[p]) /\ DiskOK("claim", job[p], st', tx')
        BY <1>0, <3>1, <3>2 DEF LocalOK, DiskOK, Committing, WithTxn, AtOutput, Claimed,
           Replaying
      <4> QED BY <1>0, <4>1, <4>2, GotoOK DEF Labels
    <3>3. CASE pc[p] = "claim_sync"
      <4>1. Goto(p, "recover")
        BY <1>8, <3>3 DEF SyncState, AfterSync
      <4>2. LocalOK("recover", job[p]) /\ DiskOK("recover", job[p], st', tx')
        BY <1>0, <3>1, <3>3 DEF LocalOK, DiskOK, Committing, WithTxn, AtOutput, Claimed,
           Replaying
      <4> QED BY <1>0, <4>1, <4>2, GotoOK DEF Labels
    <3>4. CASE pc[p] = "commit_sync"
      <4>1. Goto(p, "drop")
        BY <1>8, <3>4 DEF SyncState, AfterSync
      <4>2. LocalOK("drop", job[p]) /\ DiskOK("drop", job[p], st', tx')
        BY <1>0, <3>1, <3>4 DEF LocalOK, DiskOK, Committing, WithTxn, AtOutput, Claimed,
           Replaying
      <4> QED BY <1>0, <4>1, <4>2, GotoOK DEF Labels
    <3>5. CASE pc[p] = "plan_sync"
      <4>1. Goto(p, "return")
        BY <1>8, <3>5 DEF SyncState, AfterSync
      <4>2. LocalOK("return", job[p]) /\ DiskOK("return", job[p], st', tx')
        BY <1>0, <3>1, <3>5 DEF LocalOK, DiskOK, Committing, WithTxn, AtOutput, Claimed,
           Replaying
      <4> QED BY <1>0, <4>1, <4>2, GotoOK DEF Labels
    <3>6. CASE pc[p] = "intent_sync"
      <4>1. Goto(p, "purge")
        BY <1>8, <3>6 DEF SyncState, AfterSync
      <4>2. LocalOK("purge", job[p]) /\ DiskOK("purge", job[p], st', tx')
        BY <1>0, <3>1, <3>6 DEF LocalOK, DiskOK, Committing, WithTxn, AtOutput, Claimed,
           Replaying
      <4> QED BY <1>0, <4>1, <4>2, GotoOK DEF Labels
    <3>7. CASE pc[p] = "unclaim_sync"
      <4>1. Goto(p, "scrub")
        BY <1>8, <3>7 DEF SyncState, AfterSync
      <4>2. LocalOK("scrub", job[p]) /\ DiskOK("scrub", job[p], st', tx')
        BY <1>0, <3>1, <3>7 DEF LocalOK, DiskOK, Committing, WithTxn, AtOutput, Claimed,
           Replaying
      <4> QED BY <1>0, <4>1, <4>2, GotoOK DEF Labels
    <3>8. CASE pc[p] = "scrub_sync"
      <4>1. Goto(p, "scrub")
        BY <1>8, <3>8 DEF SyncState, AfterSync
      <4>2. LocalOK("scrub", job[p]) /\ DiskOK("scrub", job[p], st', tx')
        BY <1>0, <3>1, <3>8 DEF LocalOK, DiskOK, Committing, WithTxn, AtOutput, Claimed,
           Replaying
      <4> QED BY <1>0, <4>1, <4>2, GotoOK DEF Labels
    <3> QED BY <1>8, <3>2, <3>3, <3>4, <3>5, <3>6, <3>7, <3>8 DEF SyncState, AfterSync
  <2>2. TxType' /\ OutType' /\ StageType' /\ EnvType'
    BY <1>8, <1>0 DEF SyncState, disk, txVars, outVars, stageVars, env, TxType, OutType,
       StageType, EnvType
  <2>3. StateType'
    BY <1>8, <1>0, SyncStateOK DEF SyncState, disk, stVars
  <2> QED BY <2>1, <2>2, <2>3 DEF TypeOK
<1> QED BY <1>1, <1>2, <1>3, <1>4, <1>5, <1>6, <1>7, <1>8 DEF Claiming

(* Recovery. *)
LEMMA RecoveringOK ==
    ASSUME TypeInv, NEW p \in Procs, Recovering(p)
    PROVE  TypeOK' /\ Shape(p)'
<1>0. /\ ControlType /\ StateType /\ TxType /\ OutType /\ StageType /\ EnvType
      /\ pc[p] \in Labels /\ job[p] \in JobRecords
      /\ LocalOK(pc[p], job[p]) /\ DiskOK(pc[p], job[p], st, tx)
  BY DEF TypeInv, TypeOK, ControlType, Shape
<1>00. job[p] \in JobRecords
  BY <1>0
<1>1. ASSUME Recover(p)  PROVE TypeOK' /\ Shape(p)'
  <2>1. ControlType' /\ Shape(p)'
    <3>1. st' = st /\ tx' = tx /\ pc[p] = "recover"
      BY <1>1 DEF Recover
    <3>2. CASE Goto(p, "sweep")
      <4>1. LocalOK("sweep", job[p]) /\ DiskOK("sweep", job[p], st', tx')
        BY <1>0, <3>1 DEF LocalOK, DiskOK, Committing, WithTxn, AtOutput, Claimed, Replaying
      <4> QED BY <1>0, <3>2, <4>1, GotoOK DEF Labels
    <3>3. ASSUME NEW x \in Pendings,
                 GotoWith(p, "apply", [job[p] EXCEPT !.txn = x, !.ret = "sweep"])
          PROVE  ControlType' /\ Shape(p)'
      <4> DEFINE j == [job[p] EXCEPT !.txn = x, !.ret = "sweep"]
      <4>1. x \in Txns /\ tx[x].pend \in PendingRecords
        BY <1>0 DEF Pendings, TxType, TxRecords, OrNone
      <4>2. j \in JobRecords /\ j.txn = x /\ j.ret = "sweep" /\ j.cmd = job[p].cmd
            /\ j.build = job[p].build /\ j.plan = job[p].plan /\ j.target = job[p].target
        <5>1. job[p] \in JobRecords
          BY <1>0
        <5>2. x \in OrNone(Txns) /\ "sweep" \in OrNone(Results)
          BY <4>1 DEF OrNone, Results
        <5>3. j \in JobRecords
          BY <5>1, <5>2, WithTxnRet
        <5> QED BY <5>1, <5>3 DEF JobRecords
      <4>3. LocalOK("apply", j)
        BY <1>0, <3>1, <4>1, <4>2 DEF LocalOK, Committing, WithTxn, AtOutput, Results
      <4>4. DiskOK("apply", j, st', tx')
        BY <1>0, <3>1, <4>1, <4>2 DEF DiskOK, Claimed, Replaying, AtOutput
      <4> QED BY <1>0, <3>3, <4>2, <4>3, <4>4, GotoWithOK DEF Labels
    <3>4. CASE Leave(p)
      BY <1>0, <3>4, LeaveOK
    <3> QED BY <1>1, <3>2, <3>3, <3>4 DEF Recover
  <2>2. OutType' /\ StageType' /\ EnvType'
    BY <1>1, <1>0 DEF Recover, disk, outVars, stageVars, env, OutType, StageType, EnvType
  <2>3. StateType'
    BY <1>1, <1>0, SyncStateOK DEF Recover
  <2>4. TxType'
    <3>1. CASE UNCHANGED <<stOld, txOld>>
      BY <1>1, <1>0, <3>1 DEF Recover, TxType
    <3>2. ASSUME NEW x \in Pendings,
                 txOld' = [EntriesSynced(txOld, tx) EXCEPT ![x].pend = {tx[x].pend}]
          PROVE  TxType'
      <4> DEFINE old == EntriesSynced(txOld, tx)
      <4>1. old \in [Txns -> TxOldRecords] /\ x \in Txns
        BY <1>0, EntriesSyncedKind DEF Pendings
      <4>2. \A y \in Txns : /\ tx[y].ent \in old[y].ent /\ tx[y].pend \in old[y].pend
                            /\ tx[y].pay \in old[y].pay
        BY <1>0, EntriesSyncedKind
      <4>3. tx' = tx
        BY <1>1 DEF Recover
      <4> HIDE DEF old
      <4> QED BY <1>0, <3>2, <4>1, <4>2, <4>3, PendSyncedOK DEF old
    <3> QED BY <1>1, <3>1, <3>2 DEF Recover
  <2> QED BY <2>1, <2>2, <2>3, <2>4 DEF TypeOK
<1>2. ASSUME Drop(p)  PROVE TypeOK' /\ Shape(p)'
  <2>1. ControlType' /\ Shape(p)'
    <3>1. st' = st /\ pc[p] = "drop" /\ (Goto(p, "drop") \/ Goto(p, "drop_sync"))
      BY <1>2 DEF Drop, stVars
    <3>2. \A label \in {"drop", "drop_sync"} :
             LocalOK(label, job[p]) /\ DiskOK(label, job[p], st', tx')
      BY <1>0, <3>1 DEF LocalOK, DiskOK, Committing, WithTxn, AtOutput, Claimed, Replaying
    <3> QED BY <1>0, <3>1, <3>2, GotoOK DEF Labels
  <2>2. StateType' /\ OutType' /\ StageType' /\ EnvType'
    BY <1>2, <1>0 DEF Drop, disk, stVars, outVars, stageVars, env, StateType, OutType,
       StageType, EnvType
  <2>3. TxType'
    <3> DEFINE x == job[p].txn
    <3>1. x \in Txns /\ tx[x] \in TxRecords
      BY <1>2, <1>0 DEF Drop, LocalOK, WithTxn, Committing, TxType
    <3>2. ~tx[x].ent => tx[x].pay = NoMap /\ tx[x].pend = None
      BY <1>0, <3>1 DEF TxType, NoTx
    <3>3. CASE tx[x].pay # NoMap /\ WriteTx(x, [tx[x] EXCEPT !.pay = NoMap])
      <4>1. [tx[x] EXCEPT !.pay = NoMap] \in TxRecords /\ [tx[x] EXCEPT !.pay = NoMap].ent
        BY <3>1, <3>2, <3>3, MapEmpty DEF TxRecords, Payloads
      <4> QED BY <1>0, <3>1, <3>3, <4>1, WriteTxOK
    <3>4. CASE tx[x].pend # None /\ WriteTx(x, [tx[x] EXCEPT !.pend = None])
      <4>1. [tx[x] EXCEPT !.pend = None] \in TxRecords /\ [tx[x] EXCEPT !.pend = None].ent
        BY <3>1, <3>2, <3>4 DEF TxRecords, OrNone
      <4> QED BY <1>0, <3>1, <3>4, <4>1, WriteTxOK
    <3>5. CASE WriteTx(x, NoTx)
      <4>1. NoTx \in TxRecords
        BY MapEmpty DEF NoTx, TxRecords, OrNone, Payloads
      <4> QED BY <1>0, <3>1, <3>5, <4>1, WriteTxOK
    <3> QED BY <1>2, <3>3, <3>4, <3>5 DEF Drop
  <2> QED BY <2>1, <2>2, <2>3 DEF TypeOK
<1>3. ASSUME DropSync(p)  PROVE TypeOK' /\ Shape(p)'
  <2>1. ControlType' /\ Shape(p)'
    <3>1. st' = st /\ tx' = tx /\ pc[p] = "drop_sync"
      BY <1>3 DEF DropSync, stVars
    <3>2. CASE Leave(p)
      BY <1>0, <3>2, LeaveOK
    <3>3. ASSUME job[p].ret # "fail",
                 GotoWith(p, job[p].ret, [job[p] EXCEPT !.txn = None, !.ret = None])
          PROVE  ControlType' /\ Shape(p)'
      <4> DEFINE j == [job[p] EXCEPT !.txn = None, !.ret = None]
      <4>1. job[p].ret \in {"sweep", "verify", "unstage"}
        BY <1>0, <3>1, <3>3 DEF LocalOK, Committing, Results
      <4>2. j \in JobRecords /\ j.cmd = job[p].cmd /\ j.build = job[p].build
            /\ j.plan = job[p].plan /\ j.target = job[p].target /\ j.txn = None
        <5>1. job[p] \in JobRecords
          BY <1>0
        <5>2. None \in OrNone(Txns) /\ None \in OrNone(Results)
          BY DEF OrNone
        <5>3. j \in JobRecords
          BY <5>1, <5>2, WithTxnRet
        <5> QED BY <5>1, <5>3 DEF JobRecords
      <4>3. LocalOK(job[p].ret, j)
        BY <1>0, <3>1, <4>1, <4>2 DEF LocalOK, Committing, WithTxn, AtOutput
      <4>4. DiskOK(job[p].ret, j, st', tx')
        BY <1>0, <3>1, <4>1, <4>2 DEF DiskOK, Claimed, Replaying, AtOutput
      <4> QED BY <1>0, <3>3, <4>1, <4>2, <4>3, <4>4, GotoWithOK DEF Labels
    <3> QED BY <1>3, <3>2, <3>3 DEF DropSync
  <2>2. StateType' /\ OutType' /\ StageType' /\ EnvType'
    BY <1>3, <1>0 DEF DropSync, disk, stVars, outVars, stageVars, env, StateType, OutType,
       StageType, EnvType
  <2>3. TxType'
    BY <1>3, <1>0, EntriesSyncedOK DEF DropSync
  <2> QED BY <2>1, <2>2, <2>3 DEF TypeOK
<1>4. ASSUME Sweep(p)  PROVE TypeOK' /\ Shape(p)'
  <2>1. ControlType' /\ Shape(p)'
    <3>1. st' = st /\ tx' = tx /\ pc[p] = "sweep"
      BY <1>4 DEF Sweep, disk, stVars, txVars
    <3>2. ASSUME NEW x \in Txns,
                 GotoWith(p, "drop", [job[p] EXCEPT !.txn = x, !.ret = "sweep"])
          PROVE  ControlType' /\ Shape(p)'
      <4> DEFINE j == [job[p] EXCEPT !.txn = x, !.ret = "sweep"]
      <4>1. j \in JobRecords /\ j.cmd = job[p].cmd /\ j.build = job[p].build
            /\ j.plan = job[p].plan /\ j.target = job[p].target
            /\ j.txn = x /\ j.ret = "sweep"
        <5>1. job[p] \in JobRecords
          BY <1>0
        <5>2. x \in OrNone(Txns) /\ "sweep" \in OrNone(Results)
          BY DEF OrNone, Results
        <5>3. j \in JobRecords
          BY <5>1, <5>2, WithTxnRet
        <5> QED BY <5>1, <5>3 DEF JobRecords
      <4>2. LocalOK("drop", j)
        BY <1>0, <3>1, <4>1 DEF LocalOK, Committing, WithTxn, AtOutput, Results
      <4>3. DiskOK("drop", j, st', tx')
        BY <1>0, <3>1, <4>1 DEF DiskOK, Claimed, Replaying, AtOutput
      <4> QED BY <1>0, <3>2, <4>1, <4>2, <4>3, GotoWithOK DEF Labels
    <3> QED BY <1>4, <3>2 DEF Sweep
  <2>2. StateType' /\ TxType' /\ OutType' /\ StageType' /\ EnvType'
    BY <1>4, <1>0 DEF Sweep, disk, stVars, txVars, outVars, stageVars, env, StateType,
       TxType, OutType, StageType, EnvType
  <2> QED BY <2>1, <2>2 DEF TypeOK
<1>5. ASSUME Recovered(p)  PROVE TypeOK' /\ Shape(p)'
  <2>1. ControlType' /\ Shape(p)'
    <3>1. st' = st /\ tx' = tx /\ pc[p] = "sweep"
      BY <1>5 DEF Recovered, disk, stVars, txVars
    <3>2. st.snapshot # None => st.snapshot \in Snapshots
      BY <1>0 DEF StateType, States, OrNone
    <3>0. job[p].cmd \in Commands
      BY <1>0, <3>1 DEF LocalOK
    <3>3. ASSUME NEW label \in {"retire", "intent", "prepare"}, SnapshotLoads, Goto(p, label),
                 label = "retire" => job[p].cmd \in {"configure", "retire"},
                 label = "prepare" => job[p].cmd = "generate"
          PROVE  ControlType' /\ Shape(p)'
      <4>1. LocalOK(label, job[p]) /\ DiskOK(label, job[p], st', tx')
        BY <1>0, <3>1, <3>2, <3>3 DEF SnapshotLoads, LocalOK, DiskOK, Committing, WithTxn,
           AtOutput, Claimed, Replaying
      <4> QED BY <1>0, <3>3, <4>1, GotoOK DEF Labels
    <3>4. CASE job[p].cmd = "generate" /\ Goto(p, "validated")
      <4>1. LocalOK("validated", job[p]) /\ DiskOK("validated", job[p], st', tx')
        BY <1>0, <3>1, <3>4 DEF LocalOK, DiskOK, Committing, WithTxn, AtOutput, Claimed,
           Replaying
      <4> QED BY <1>0, <3>4, <4>1, GotoOK DEF Labels
    <3>5. CASE Leave(p)
      BY <1>0, <3>5, LeaveOK
    <3> QED BY <1>5, <3>0, <3>3, <3>4, <3>5 DEF Recovered, Proceed, Require, Commands
  <2>2. StateType' /\ TxType' /\ OutType' /\ StageType' /\ EnvType'
    BY <1>5, <1>0 DEF Recovered, disk, stVars, txVars, outVars, stageVars, env, StateType,
       TxType, OutType, StageType, EnvType
  <2> QED BY <2>1, <2>2 DEF TypeOK
<1> QED BY <1>1, <1>2, <1>3, <1>4, <1>5 DEF Recovering

(* Applying the pending transaction. *)
LEMMA ApplyingOK ==
    ASSUME TypeInv, NEW p \in Procs, Applying(p)
    PROVE  TypeOK' /\ Shape(p)'
<1>0. /\ ControlType /\ StateType /\ TxType /\ OutType /\ StageType /\ EnvType
      /\ pc[p] \in Labels /\ job[p] \in JobRecords
      /\ LocalOK(pc[p], job[p]) /\ DiskOK(pc[p], job[p], st, tx)
  BY DEF TypeInv, TypeOK, ControlType, Shape
<1>00. job[p] \in JobRecords
  BY <1>0
<1>1. ASSUME WritePending(p)  PROVE TypeOK' /\ Shape(p)'
  <2>1. ControlType' /\ Shape(p)'
    <3>1. pc[p] = "pend" /\ st' = st /\ Goto(p, "pend_sync")
      BY <1>1 DEF WritePending, stVars
    <3>2. job[p].txn \in Txns /\ job[p].draft \in PendingRecords
      BY <1>0, <3>1 DEF LocalOK, WithTxn
    <3>3. tx'[job[p].txn].pend \in PendingRecords
      BY <1>1, <1>0, <3>2 DEF WritePending, WriteTx, TxType, TxRecords
    <3>4. LocalOK("pend_sync", job[p]) /\ DiskOK("pend_sync", job[p], st', tx')
      BY <1>0, <3>1, <3>2, <3>3 DEF LocalOK, DiskOK, Committing, WithTxn, AtOutput,
         Claimed, Replaying
    <3> QED BY <1>0, <3>1, <3>4, GotoOK DEF Labels
  <2>2. StateType' /\ OutType' /\ StageType' /\ EnvType'
    BY <1>1, <1>0 DEF WritePending, disk, stVars, outVars, stageVars, env, StateType,
       OutType, StageType, EnvType
  <2>3. TxType'
    <3> DEFINE x == job[p].txn
               new == [tx[x] EXCEPT !.pend = job[p].draft]
    <3>1. x \in Txns /\ job[p].draft \in PendingRecords /\ tx[x].ent /\ tx[x] \in TxRecords
      BY <1>1, <1>0 DEF WritePending, LocalOK, DiskOK, WithTxn, TxType
    <3>2. new \in TxRecords /\ new.ent
      BY <3>1 DEF TxRecords, OrNone
    <3> QED BY <1>1, <1>0, <3>1, <3>2, WriteTxOK DEF WritePending
  <2> QED BY <2>1, <2>2, <2>3 DEF TypeOK
<1>2. ASSUME SyncPending(p)  PROVE TypeOK' /\ Shape(p)'
  <2>1. ControlType' /\ Shape(p)'
    <3>1. pc[p] = "pend_sync" /\ st' = st /\ tx' = tx
      BY <1>2 DEF SyncPending, stVars
    <3> DEFINE r == IF job[p].cmd = "generate" THEN "verify" ELSE "unstage"
               j == [job[p] EXCEPT !.draft = None, !.ret = r]
    <3>2. /\ j \in JobRecords /\ j.txn = job[p].txn /\ j.ret \in Results
          /\ j.cmd = job[p].cmd /\ j.build = job[p].build /\ j.plan = job[p].plan
          /\ j.target = job[p].target
      <4>1. r \in Results
        BY DEF Results
      <4>2. None \in OrNone(PendingRecords) /\ r \in OrNone(Results)
        BY <4>1 DEF OrNone
      <4> HIDE DEF r
      <4>3. j \in JobRecords
        BY <1>00, <4>2, WithDraftRet
      <4> QED BY <1>00, <4>1, <4>3 DEF JobRecords
    <3>3. GotoWith(p, "apply", j)
      BY <1>2 DEF SyncPending
    <3>4. LocalOK("apply", j)
      BY <1>0, <3>1, <3>2 DEF LocalOK, Committing, WithTxn, AtOutput
    <3>5. DiskOK("apply", j, st', tx')
      BY <1>0, <3>1, <3>2 DEF DiskOK, Claimed, Replaying, AtOutput
    <3> HIDE DEF j
    <3> QED BY <1>0, <3>2, <3>3, <3>4, <3>5, GotoWithOK DEF Labels
  <2>2. StateType' /\ OutType' /\ StageType' /\ EnvType'
    BY <1>2, <1>0 DEF SyncPending, disk, stVars, outVars, stageVars, env, StateType,
       OutType, StageType, EnvType
  <2>3. TxType'
    <3>1. job[p].txn \in Txns
      BY <1>2, <1>0 DEF SyncPending, LocalOK, WithTxn
    <3> QED BY <1>2, <1>0, <3>1, PendSyncedOK DEF SyncPending, TxType
  <2> QED BY <2>1, <2>2, <2>3 DEF TypeOK
<1>3. ASSUME ApplyPending(p)  PROVE TypeOK' /\ Shape(p)'
  <2>1. ControlType' /\ Shape(p)'
    <3>1. pc[p] = "apply" /\ st' = st /\ tx' = tx
      BY <1>3 DEF ApplyPending, stVars, txVars
    <3> DEFINE pd == tx[job[p].txn].pend
               j == [job[p] EXCEPT !.ops = pd.entries]
    <3>2. CASE Leave(p)
      BY <1>0, <3>2, LeaveOK
    <3>3. CASE Goto(p, "commit_sync")
      <4>1. LocalOK("commit_sync", job[p]) /\ DiskOK("commit_sync", job[p], st', tx')
        BY <1>0, <3>1 DEF LocalOK, DiskOK, Committing, WithTxn, AtOutput, Claimed, Replaying
      <4> QED BY <1>0, <3>3, <4>1, GotoOK DEF Labels
    <3>4. CASE GotoWith(p, "output", j)
      <4>1. job[p].txn \in Txns /\ pd.entries \in Operations
        BY <1>0, <3>1 DEF LocalOK, DiskOK, WithTxn, Committing, Replaying, PendingRecords
      <4>2. /\ j \in JobRecords /\ j.txn = job[p].txn /\ j.ret = job[p].ret
            /\ j.cmd = job[p].cmd /\ j.build = job[p].build /\ j.plan = job[p].plan
            /\ j.target = job[p].target
        BY <1>0, <4>1 DEF JobRecords
      <4>3. LocalOK("output", j)
        BY <1>0, <3>1, <4>1, <4>2 DEF LocalOK, Committing, WithTxn, AtOutput
      <4>4. DiskOK("output", j, st', tx')
        BY <1>0, <3>1, <4>1, <4>2 DEF DiskOK, Claimed, Replaying, AtOutput
      <4> HIDE DEF j
      <4> QED BY <1>0, <3>4, <4>2, <4>3, <4>4, GotoWithOK DEF Labels
    <3> QED BY <1>3, <3>2, <3>3, <3>4 DEF ApplyPending, Require
  <2>2. StateType' /\ TxType' /\ StageType' /\ EnvType'
    BY <1>3, <1>0 DEF ApplyPending, disk, stVars, txVars, stageVars, env, StateType,
       TxType, StageType, EnvType
  <2>3. OutType'
    BY <1>3, <1>0 DEF ApplyPending, OutType
  <2> QED BY <2>1, <2>2, <2>3 DEF TypeOK
<1>4. ASSUME CheckOutput(p)  PROVE TypeOK' /\ Shape(p)'
  <2>1. ControlType' /\ Shape(p)'
    <3>0. job[p].ops \in Operations /\ (\A o \in DOMAIN job[p].ops : o \in Paths)
      BY <1>0, MapElim DEF JobRecords, Operations
    <3>1. pc[p] = "output" /\ st' = st /\ tx' = tx
      BY <1>4 DEF CheckOutput, disk, stVars, txVars
    <3>2. CASE Leave(p)
      BY <1>0, <3>2, LeaveOK
    <3>3. ASSUME NEW o \in DOMAIN job[p].ops, NEW label \in {"act", "out_sync"},
                 GotoWith(p, label, [job[p] EXCEPT !.cur = o, !.obs = Bytes(out[o])])
          PROVE  ControlType' /\ Shape(p)'
      <4> DEFINE j == [job[p] EXCEPT !.cur = o, !.obs = Bytes(out[o])]
      <4>1. Bytes(out[o]) \in Contents \cup {Foreign, None}
        BY <1>0, <3>0 DEF OutType, Cells, OrNone, Bytes
      <4>2. /\ j \in JobRecords /\ j.txn = job[p].txn /\ j.ret = job[p].ret /\ j.cur = o
            /\ j.ops = job[p].ops /\ j.cmd = job[p].cmd /\ j.build = job[p].build
            /\ j.plan = job[p].plan
            /\ j.target = job[p].target
        <5>1. o \in OrNone(Paths)
          BY <3>0 DEF OrNone
        <5>2. j \in JobRecords
          BY <1>00, <4>1, <5>1, WithCurObs
        <5> QED BY <1>00, <5>2 DEF JobRecords
      <4>3. LocalOK(label, j)
        BY <1>0, <3>1, <4>2 DEF LocalOK, Committing, WithTxn, AtOutput
      <4>4. DiskOK(label, j, st', tx')
        BY <1>0, <3>1, <4>2 DEF DiskOK, Claimed, Replaying, AtOutput
      <4> HIDE DEF j
      <4> QED BY <1>0, <3>3, <4>2, <4>3, <4>4, GotoWithOK DEF Labels, j
    <3> QED BY <1>4, <3>2, <3>3 DEF CheckOutput
  <2>2. StateType' /\ TxType' /\ OutType' /\ StageType' /\ EnvType'
    BY <1>4, <1>0 DEF CheckOutput, disk, stVars, txVars, outVars, stageVars, env,
       StateType, TxType, OutType, StageType, EnvType
  <2> QED BY <2>1, <2>2 DEF TypeOK
<1>5. ASSUME ActOnOutput(p)  PROVE TypeOK' /\ Shape(p)'
  <2>1. ControlType' /\ Shape(p)'
    <3>1. pc[p] = "act" /\ st' = st /\ tx' = tx /\ Goto(p, "out_sync")
      BY <1>5 DEF ActOnOutput, stVars, txVars
    <3>2. LocalOK("out_sync", job[p]) /\ DiskOK("out_sync", job[p], st', tx')
      BY <1>0, <3>1 DEF LocalOK, DiskOK, Committing, WithTxn, AtOutput, Claimed, Replaying
    <3> QED BY <1>0, <3>1, <3>2, GotoOK DEF Labels
  <2>2. StateType' /\ TxType' /\ StageType' /\ EnvType'
    BY <1>5, <1>0 DEF ActOnOutput, disk, stVars, txVars, stageVars, env, StateType,
       TxType, StageType, EnvType
  <2>3. OutType'
    <3> DEFINE o == job[p].cur
               after == job[p].ops[o].after
               cell == IF after = None THEN None ELSE Cell(after, o)
    <3>1. o \in DOMAIN job[p].ops
      BY <1>5, <1>0 DEF ActOnOutput, LocalOK
    <3>2. o \in Paths /\ job[p].ops[o] \in OpRecords
      BY <1>0, <3>1, MapElim DEF JobRecords, Operations
    <3>3. after \in OrNone(Contents)
      BY <3>2 DEF OpRecords, OrNone
    <3>4. cell \in Cells
      BY <3>2, <3>3 DEF Cells, Cell, OrNone, Inodes
    <3>5. WriteOut(o, cell) /\ touched' \subseteq touched
      BY <1>5 DEF ActOnOutput
    <3> QED BY <1>0, <3>2, <3>4, <3>5, WriteOutOK
  <2> QED BY <2>1, <2>2, <2>3 DEF TypeOK
<1>6. ASSUME SyncOutput(p)  PROVE TypeOK' /\ Shape(p)'
  <2>1. ControlType' /\ Shape(p)'
    <3>1. pc[p] = "out_sync" /\ st' = st /\ tx' = tx
      BY <1>6 DEF SyncOutput, stVars, txVars
    <3> DEFINE ops == Without(job[p].ops, {job[p].cur})
               j == [job[p] EXCEPT !.ops = ops, !.cur = None, !.obs = None]
    <3>2. ops \in Operations
      BY <1>0, MapWithout DEF JobRecords, Operations
    <3>3. /\ j \in JobRecords /\ j.txn = job[p].txn /\ j.ret = job[p].ret
          /\ j.cmd = job[p].cmd /\ j.build = job[p].build /\ j.plan = job[p].plan
            /\ j.target = job[p].target
      <4> HIDE DEF ops
      <4>1. j \in JobRecords
        BY <1>00, <3>2 DEF JobRecords, OrNone
      <4> QED BY <1>00, <4>1 DEF JobRecords
    <3>4. GotoWith(p, "output", j)
      BY <1>6, <1>0 DEF SyncOutput, JobRecords
    <3>5. LocalOK("output", j)
      BY <1>0, <3>1, <3>3 DEF LocalOK, Committing, WithTxn, AtOutput
    <3>6. DiskOK("output", j, st', tx')
      BY <1>0, <3>1, <3>3 DEF DiskOK, Claimed, Replaying, AtOutput
    <3> HIDE DEF j
    <3> QED BY <1>0, <3>3, <3>4, <3>5, <3>6, GotoWithOK DEF Labels
  <2>2. StateType' /\ TxType' /\ StageType' /\ EnvType'
    BY <1>6, <1>0 DEF SyncOutput, disk, stVars, txVars, stageVars, env, StateType, TxType,
       StageType, EnvType
  <2>3. OutType'
    <3>1. job[p].cur \in DOMAIN job[p].ops
      BY <1>6, <1>0 DEF SyncOutput, LocalOK
    <3>2. job[p].cur \in Paths
      BY <1>0, <3>1, MapElim DEF JobRecords, Operations
    <3> QED BY <1>6, <1>0, <3>2, SyncOutOK DEF SyncOutput
  <2> QED BY <2>1, <2>2, <2>3 DEF TypeOK
<1>7. ASSUME OutputsDone(p)  PROVE TypeOK' /\ Shape(p)'
  <2>1. ControlType' /\ Shape(p)'
    <3>1. pc[p] = "output" /\ st' = st /\ tx' = tx
      BY <1>7 DEF OutputsDone, disk, stVars, txVars
    <3>2. CASE job[p].txn = None
      <4>1. LocalOK("unstage", job[p]) /\ DiskOK("unstage", job[p], st', tx')
        BY <1>0, <3>1, <3>2 DEF LocalOK, DiskOK, Committing, WithTxn, AtOutput, Claimed,
           Replaying
      <4> QED BY <1>7, <1>0, <3>2, <4>1, GotoOK DEF OutputsDone, Labels
    <3>3. CASE job[p].txn # None
      <4>1. LocalOK("snap", job[p]) /\ DiskOK("snap", job[p], st', tx')
        BY <1>0, <3>1, <3>3 DEF LocalOK, DiskOK, Committing, WithTxn, AtOutput, Claimed,
           Replaying
      <4> QED BY <1>7, <1>0, <3>3, <4>1, GotoOK DEF OutputsDone, Labels
    <3> QED BY <3>2, <3>3
  <2>2. StateType' /\ TxType' /\ OutType' /\ StageType' /\ EnvType'
    BY <1>7, <1>0 DEF OutputsDone, disk, stVars, txVars, outVars, stageVars, env,
       StateType, TxType, OutType, StageType, EnvType
  <2> QED BY <2>1, <2>2 DEF TypeOK
<1>8. ASSUME CommitSnapshot(p)  PROVE TypeOK' /\ Shape(p)'
  <2>1. ControlType' /\ Shape(p)'
    <3>1. pc[p] = "snap" /\ st'.claim = st.claim /\ Goto(p, "commit_sync")
      BY <1>8, <1>0 DEF CommitSnapshot, WriteState, StateType, States
    <3>2. LocalOK("commit_sync", job[p]) /\ DiskOK("commit_sync", job[p], st', tx')
      BY <1>0, <3>1 DEF LocalOK, DiskOK, Committing, WithTxn, AtOutput, Claimed, Replaying
    <3> QED BY <1>0, <3>1, <3>2, GotoOK DEF Labels
  <2>2. TxType' /\ OutType' /\ StageType' /\ EnvType'
    BY <1>8, <1>0 DEF CommitSnapshot, disk, txVars, outVars, stageVars, env, TxType,
       OutType, StageType, EnvType
  <2>3. StateType'
    <3> DEFINE snap == tx[job[p].txn].pend.snap
    <3>1. snap \in Snapshots
      BY <1>8, <1>0 DEF CommitSnapshot, LocalOK, DiskOK, WithTxn, Committing, Replaying,
         PendingRecords
    <3>2. [st EXCEPT !.snapshot = snap] \in States /\ "snapshot" \in DOMAIN EmptyState
      BY <1>0, <3>1 DEF StateType, States, OrNone, EmptyState
    <3> QED BY <1>8, <1>0, <3>2, WriteStateOK DEF CommitSnapshot
  <2> QED BY <2>1, <2>2, <2>3 DEF TypeOK
<1> QED BY <1>1, <1>2, <1>3, <1>4, <1>5, <1>6, <1>7, <1>8 DEF Applying

(* One generation. *)
LEMMA GeneratingOK ==
    ASSUME TypeInv, NEW p \in Procs, Generating(p)
    PROVE  TypeOK' /\ Shape(p)'
<1>0. /\ ControlType /\ StateType /\ TxType /\ OutType /\ StageType /\ EnvType
      /\ pc[p] \in Labels /\ job[p] \in JobRecords
      /\ LocalOK(pc[p], job[p]) /\ DiskOK(pc[p], job[p], st, tx)
  BY DEF TypeInv, TypeOK, ControlType, Shape
<1>00. job[p] \in JobRecords
  BY <1>0
<1>1. ASSUME Validated(p)  PROVE TypeOK' /\ Shape(p)'
  <2>1. ControlType' /\ Shape(p)'
    <3>1. pc[p] = "validated" /\ st' = st /\ tx' = tx
      BY <1>1 DEF Validated, disk, stVars, txVars
    <3>2. ControlType'
      BY <1>1, <1>0 DEF Validated, ControlType, Freed, OrNone, Labels
    <3>3. pc'[p] = "stage" /\ job' = job
      BY <1>1, <1>0 DEF Validated, ControlType
    <3> QED BY <1>0, <3>1, <3>2, <3>3 DEF Shape, LocalOK, DiskOK, Committing, WithTxn,
               AtOutput, Claimed, Replaying
  <2>2. StateType' /\ TxType' /\ OutType' /\ StageType' /\ EnvType'
    BY <1>1, <1>0 DEF Validated, disk, stVars, txVars, outVars, stageVars, env, StateType,
       TxType, OutType, StageType, EnvType
  <2> QED BY <2>1, <2>2 DEF TypeOK
<1>2. ASSUME RebuildStaging(p)  PROVE TypeOK' /\ Shape(p)'
  <2>1. ControlType' /\ Shape(p)'
    <3> DEFINE declared == OutputsOf(planFile[job[p].build], job[p].target)
               j == [job[p] EXCEPT !.declared = declared]
    <3>1. pc[p] = "stage"
      BY <1>2 DEF RebuildStaging
    <3>2. CASE Leave(p)
      BY <1>0, <3>2, LeaveOK
    <3>3. CASE job[p].target \in PlanTargets(planFile[job[p].build]) /\ GotoWith(p, "protoc", j)
      <4>1. planFile[job[p].build] \in PlanRecords
        BY <1>0, <3>1, <3>3 DEF PlanTargets, LocalOK, EnvType, OrNone
      <4>2. declared \subseteq Paths
        BY <4>1, OutputsOfOK
      <4>3. j \in JobRecords /\ j.txn = job[p].txn /\ j.cmd = job[p].cmd
            /\ j.build = job[p].build /\ j.plan = job[p].plan
            /\ j.target = job[p].target
        <5> HIDE DEF declared
        <5> QED BY <1>00, <4>2 DEF JobRecords
      <4>4. LocalOK("protoc", j) /\ DiskOK("protoc", j, st', tx')
        <5> HIDE DEF j
        <5> QED BY <1>0, <3>1, <4>3 DEF LocalOK, DiskOK, Committing, WithTxn, AtOutput,
                   Claimed, Replaying
      <4> HIDE DEF j
      <4> QED BY <1>0, <3>3, <4>3, <4>4, GotoWithOK DEF Labels
    <3> QED BY <1>2, <3>2, <3>3 DEF RebuildStaging
  <2>2. StateType' /\ TxType' /\ OutType' /\ EnvType'
    BY <1>2, <1>0 DEF RebuildStaging, disk, stVars, txVars, outVars, env, StateType,
       TxType, OutType, EnvType
  <2>3. StageType'
    <3>1. job[p].target \in Targets /\ NoMap \in Payloads
      BY <1>2, <1>0, MapEmpty DEF RebuildStaging, LocalOK, Payloads
    <3> QED BY <1>2, <1>0, <3>1 DEF RebuildStaging, stageVars, StageType, OrNone
  <2> QED BY <2>1, <2>2, <2>3 DEF TypeOK
<1>3. ASSUME Protoc(p)  PROVE TypeOK' /\ Shape(p)'
  <2>1. ControlType' /\ Shape(p)'
    <3>1. pc[p] = "protoc"
      BY <1>3 DEF Protoc
    <3>2. CASE Goto(p, "cleanup")
      <4>1. LocalOK("cleanup", job[p]) /\ DiskOK("cleanup", job[p], st', tx')
        BY <1>0, <3>1 DEF LocalOK, DiskOK, Committing, WithTxn, AtOutput, Claimed, Replaying
      <4> QED BY <1>0, <3>2, <4>1, GotoOK DEF Labels
    <3>3. CASE GotoWith(p, "spawn", [job[p] EXCEPT !.publishing = TRUE])
      <4> DEFINE j == [job[p] EXCEPT !.publishing = TRUE]
      <4>1. j \in JobRecords /\ j.txn = job[p].txn /\ j.cmd = job[p].cmd
            /\ j.build = job[p].build /\ j.plan = job[p].plan
            /\ j.target = job[p].target
        BY <1>00 DEF JobRecords
      <4>2. LocalOK("spawn", j) /\ DiskOK("spawn", j, st', tx')
        <5> HIDE DEF j
        <5> QED BY <1>0, <3>1, <4>1 DEF LocalOK, DiskOK, Committing, WithTxn, AtOutput,
                   Claimed, Replaying
      <4> HIDE DEF j
      <4> QED BY <1>0, <3>3, <4>1, <4>2, GotoWithOK DEF Labels, j
    <3> QED BY <1>3, <3>2, <3>3 DEF Protoc
  <2>2. StateType' /\ TxType' /\ OutType' /\ EnvType'
    BY <1>3, <1>0 DEF Protoc, disk, stVars, txVars, outVars, env, StateType, TxType,
       OutType, EnvType
  <2>3. StageType'
    <3> DEFINE pl == planFile[job[p].build]
               t == job[p].target
    <3>1. CASE UNCHANGED stage
      BY <1>3, <1>0, <3>1 DEF Protoc, StageType
    <3>2. ASSUME stage[t] # None, t \in PlanTargets(pl), NEW c \in Contents,
                 stage' = [stage EXCEPT ![t] = [o \in OutputsOf(pl, t) |-> c]]
          PROVE  StageType'
      <4>1. pl \in OrNone(PlanRecords)
        BY <1>3, <1>0 DEF Protoc, LocalOK, EnvType
      <4>2. pl \in PlanRecords /\ t \in Targets
        BY <3>2, <4>1, PlanTargetsOK DEF PlanTargets, OrNone
      <4>3. OutputsOf(pl, t) \subseteq Paths
        BY <4>2, OutputsOfOK
      <4>4. [o \in OutputsOf(pl, t) |-> c] \in [OutputsOf(pl, t) -> Contents]
        OBVIOUS
      <4>5. [o \in OutputsOf(pl, t) |-> c] \in Payloads
        BY <4>3, <4>4, MapIntro DEF Payloads
      <4>6. stageOld' = stageOld
        BY <1>3 DEF Protoc
      <4> QED BY <1>0, <3>2, <4>2, <4>5, <4>6 DEF StageType, OrNone
    <3> QED BY <1>3, <3>1, <3>2 DEF Protoc
  <2> QED BY <2>1, <2>2, <2>3 DEF TypeOK
<1>4. ASSUME Prepare(p)  PROVE TypeOK' /\ Shape(p)'
  <2>1. ControlType' /\ Shape(p)'
    <3>1. pc[p] = "prepare"
      BY <1>4 DEF Prepare
    <3>2. CASE Leave(p)
      BY <1>0, <3>2, LeaveOK
    <3>3. ASSUME NEW x \in Txns, MakeTransaction(x),
                 GotoWith(p, "payload", [job[p] EXCEPT !.txn = x])
          PROVE  ControlType' /\ Shape(p)'
      <4> DEFINE j == [job[p] EXCEPT !.txn = x]
      <4>1. j \in JobRecords /\ j.txn = x /\ j.cmd = job[p].cmd
            /\ j.build = job[p].build /\ j.plan = job[p].plan
            /\ j.target = job[p].target
        BY <1>00 DEF JobRecords, OrNone
      <4>2. st' = st /\ tx'[x].ent
        BY <1>0, <3>3, MakeTransactionOK
      <4>3. LocalOK("payload", j)
        <5> HIDE DEF j
        <5> QED BY <1>0, <3>1, <4>1 DEF LocalOK, Committing, WithTxn, AtOutput
      <4>4. DiskOK("payload", j, st', tx')
        <5> HIDE DEF j
        <5> QED BY <1>0, <3>1, <4>1, <4>2 DEF DiskOK, Claimed, Replaying, AtOutput
      <4> HIDE DEF j
      <4> QED BY <1>0, <3>3, <4>1, <4>3, <4>4, GotoWithOK DEF Labels, j
    <3> QED BY <1>4, <3>2, <3>3 DEF Prepare
  <2>2. OutType' /\ StageType' /\ EnvType'
    BY <1>4, <1>0 DEF Prepare, disk, outVars, stageVars, env, OutType, StageType, EnvType
  <2>3. StateType'
    <3>1. CASE UNCHANGED stVars
      BY <1>0, <3>1 DEF stVars, StateType
    <3>2. ASSUME NEW x \in Txns, MakeTransaction(x)  PROVE StateType'
      BY <1>0, <3>2, MakeTransactionOK
    <3> QED BY <1>4, <3>1, <3>2 DEF Prepare
  <2>4. TxType'
    <3>1. CASE UNCHANGED txVars
      BY <1>0, <3>1 DEF txVars, TxType
    <3>2. ASSUME NEW x \in Txns, MakeTransaction(x)  PROVE TxType'
      BY <1>0, <3>2, MakeTransactionOK
    <3> QED BY <1>4, <3>1, <3>2 DEF Prepare
  <2> QED BY <2>1, <2>2, <2>3, <2>4 DEF TypeOK
<1>5. ASSUME CopyPayload(p)  PROVE TypeOK' /\ Shape(p)'
  <2>1. ControlType' /\ Shape(p)'
    <3> DEFINE x == job[p].txn
    <3>1. pc[p] = "payload" /\ st' = st /\ x \in Txns /\ tx[x] \in TxRecords /\ tx[x].ent
      BY <1>5, <1>0 DEF CopyPayload, stVars, LocalOK, DiskOK, WithTxn, TxType
    <3>2. CASE Goto(p, "payload") /\ \E pay : WriteTx(x, [tx[x] EXCEPT !.pay = pay])
      <4>1. tx'[x].ent
        BY <1>0, <3>1, <3>2 DEF WriteTx, TxType, TxRecords
      <4>2. LocalOK("payload", job[p]) /\ DiskOK("payload", job[p], st', tx')
        BY <1>0, <3>1, <4>1 DEF LocalOK, DiskOK, Committing, WithTxn, AtOutput, Claimed,
           Replaying
      <4> QED BY <1>0, <3>2, <4>2, GotoOK DEF Labels
    <3>3. CASE GotoWith(p, "drop", [job[p] EXCEPT !.ret = "fail"])
      <4> DEFINE j == [job[p] EXCEPT !.ret = "fail"]
      <4>1. j \in JobRecords /\ j.txn = x /\ j.ret = "fail" /\ j.cmd = job[p].cmd
            /\ j.build = job[p].build /\ j.plan = job[p].plan
            /\ j.target = job[p].target
        BY <1>00 DEF JobRecords, OrNone, Results
      <4>2. LocalOK("drop", j)
        <5> HIDE DEF j
        <5> QED BY <1>0, <3>1, <4>1 DEF LocalOK, Committing, WithTxn, AtOutput, Results
      <4>3. DiskOK("drop", j, st', tx')
        <5> HIDE DEF j
        <5> QED BY <1>0, <3>1, <4>1 DEF DiskOK, Claimed, Replaying, AtOutput
      <4> HIDE DEF j
      <4> QED BY <1>0, <3>3, <4>1, <4>2, <4>3, GotoWithOK DEF Labels, j
    <3> QED BY <1>5, <3>2, <3>3 DEF CopyPayload
  <2>2. StateType' /\ OutType' /\ StageType' /\ EnvType'
    BY <1>5, <1>0 DEF CopyPayload, disk, stVars, outVars, stageVars, env, StateType,
       OutType, StageType, EnvType
  <2>3. TxType'
    <3> DEFINE x == job[p].txn
               t == job[p].target
    <3>1. /\ x \in Txns /\ tx[x] \in TxRecords /\ tx[x].ent
          /\ job[p].cmd \in Commands /\ pc[p] = "payload"
      BY <1>5, <1>0 DEF CopyPayload, LocalOK, DiskOK, WithTxn, TxType
    <3>2. CASE UNCHANGED txVars
      BY <1>0, <3>2 DEF txVars, TxType
    <3>3. ASSUME NEW o \in Outputs(p), Publishable(o, t),
                 WriteTx(x, [tx[x] EXCEPT !.pay = Put(tx[x].pay, o, stage[t][o])])
          PROVE  TxType'
      <4>1. stage[t] # None /\ o \in DOMAIN stage[t]
        BY <3>3 DEF Publishable
      <4>2. t \in Targets /\ job[p].plan \in PlanRecords
        BY <1>5, <1>0 DEF CopyPayload, LocalOK
      <4>3. stage[t] \in Payloads
        BY <1>0, <4>1, <4>2 DEF StageType, OrNone
      <4>4. o \in Paths /\ stage[t][o] \in Contents
        BY <4>1, <4>3, MapElim DEF Payloads
      <4> DEFINE pay == Put(tx[x].pay, o, stage[t][o])
                 new == [tx[x] EXCEPT !.pay = pay]
      <4>5. pay \in Payloads
        BY <3>1, <4>4, MapPut DEF TxRecords, Payloads
      <4>6. new \in TxRecords /\ new.ent
        <5> HIDE DEF pay
        <5> QED BY <3>1, <4>5 DEF TxRecords
      <4> HIDE DEF new
      <4> QED BY <1>0, <3>1, <3>3, <4>6, WriteTxOK DEF new
    <3> QED BY <1>5, <3>2, <3>3 DEF CopyPayload
  <2> QED BY <2>1, <2>2, <2>3 DEF TypeOK
<1>6. ASSUME SyncPayloads(p)  PROVE TypeOK' /\ Shape(p)'
  <2>1. ControlType' /\ Shape(p)'
    <3> DEFINE d == Pending(job[p].build, job[p].plan.outs, PublishOps(p))
               j == [job[p] EXCEPT !.draft = d]
    <3>1. pc[p] = "payload" /\ st' = st /\ tx' = tx /\ GotoWith(p, "pend", j)
      BY <1>6 DEF SyncPayloads, stVars
    <3>2. PublishOps(p) \in Operations
      BY <1>6, <1>0, <3>1, PublishOpsOK DEF SyncPayloads, LocalOK, DiskOK, WithTxn,
         ControlType
    <3>3. d \in PendingRecords
      BY <1>0, <3>1, <3>2, PendingOK DEF LocalOK, DiskOK, Claimed, PlanRecords
    <3>4. j \in JobRecords /\ j.txn = job[p].txn /\ j.draft = d /\ j.cmd = job[p].cmd
          /\ j.build = job[p].build /\ j.plan = job[p].plan
            /\ j.target = job[p].target
      <4> HIDE DEF d
      <4> QED BY <1>00, <3>3 DEF JobRecords, OrNone
    <3>5. LocalOK("pend", j)
      <4> HIDE DEF j, d
      <4> QED BY <1>0, <3>1, <3>3, <3>4 DEF LocalOK, Committing, WithTxn, AtOutput
    <3>6. DiskOK("pend", j, st', tx')
      <4> HIDE DEF j
      <4> QED BY <1>0, <3>1, <3>4 DEF DiskOK, Claimed, Replaying, AtOutput
    <3> HIDE DEF j
    <3> QED BY <1>0, <3>1, <3>4, <3>5, <3>6, GotoWithOK DEF Labels
  <2>2. StateType' /\ OutType' /\ StageType' /\ EnvType'
    BY <1>6, <1>0 DEF SyncPayloads, disk, stVars, outVars, stageVars, env, StateType,
       OutType, StageType, EnvType
  <2>3. TxType'
    <3>1. job[p].txn \in Txns
      BY <1>6, <1>0 DEF SyncPayloads, LocalOK, WithTxn
    <3> QED BY <1>6, <1>0, <3>1, PaySyncedOK DEF SyncPayloads
  <2> QED BY <2>1, <2>2, <2>3 DEF TypeOK
<1>7. ASSUME Verify(p)  PROVE TypeOK' /\ Shape(p)'
  <2>1. ControlType' /\ Shape(p)'
    <3>1. CASE Leave(p)
      BY <1>0, <3>1, LeaveOK
    <3>2. CASE /\ pc' = [pc EXCEPT ![p] = "published"] /\ pubLock' = Freed(pubLock, p)
               /\ UNCHANGED <<job, regLock, genLock>>
      <4>1. pc[p] = "verify" /\ st' = st /\ tx' = tx
        BY <1>7 DEF Verify, disk, stVars, txVars
      <4>2. ControlType'
        BY <3>2, <1>0 DEF Verify, ControlType, Freed, OrNone, Labels
      <4>3. pc'[p] = "published" /\ job' = job
        BY <3>2, <1>0 DEF Verify, ControlType
      <4> QED BY <1>0, <4>1, <4>2, <4>3 DEF Shape, LocalOK, DiskOK, Committing, WithTxn,
                 AtOutput, Claimed, Replaying
    <3> QED BY <1>7, <3>1, <3>2 DEF Verify
  <2>2. StateType' /\ TxType' /\ OutType' /\ StageType' /\ EnvType'
    BY <1>7, <1>0 DEF Verify, disk, stVars, txVars, outVars, stageVars, env, StateType,
       TxType, OutType, StageType, EnvType
  <2> QED BY <2>1, <2>2 DEF TypeOK
<1>8. ASSUME CheckPublished(p)  PROVE TypeOK' /\ Shape(p)'
  <2>1. ControlType' /\ Shape(p)'
    BY ZenonT(60), <1>8, <1>0, GotoOK, GotoWithOK, LeaveOK DEF CheckPublished, Require, disk, stVars,
       txVars, LocalOK, DiskOK, Committing, WithTxn, AtOutput, Claimed, Replaying, Labels
  <2>2. StateType' /\ TxType' /\ OutType' /\ StageType' /\ EnvType'
    BY <1>8, <1>0 DEF CheckPublished, disk, stVars, txVars, outVars, stageVars, env,
       StateType, TxType, OutType, StageType, EnvType
  <2> QED BY <2>1, <2>2 DEF TypeOK
<1>9. ASSUME DiscardStaging(p)  PROVE TypeOK' /\ Shape(p)'
  <2>1. ControlType' /\ Shape(p)'
    BY <1>9, <1>0, LeaveOK DEF DiscardStaging
  <2>2. StateType' /\ TxType' /\ OutType' /\ EnvType'
    BY <1>9, <1>0 DEF DiscardStaging, disk, stVars, txVars, outVars, env, StateType,
       TxType, OutType, EnvType
  <2>3. StageType'
    BY <1>9, <1>0 DEF DiscardStaging, StageType, OrNone
  <2> QED BY <2>1, <2>2, <2>3 DEF TypeOK
<1> QED BY <1>1, <1>2, <1>3, <1>4, <1>5, <1>6, <1>7, <1>8, <1>9 DEF Generating

(* Reconfiguration. *)
LEMMA ConfiguringOK ==
    ASSUME TypeInv, NEW p \in Procs, Configuring(p)
    PROVE  TypeOK' /\ Shape(p)'
<1>0. /\ ControlType /\ StateType /\ TxType /\ OutType /\ StageType /\ EnvType
      /\ pc[p] \in Labels /\ job[p] \in JobRecords
      /\ LocalOK(pc[p], job[p]) /\ DiskOK(pc[p], job[p], st, tx)
  BY DEF TypeInv, TypeOK, ControlType, Shape
<1>00. job[p] \in JobRecords
  BY <1>0
<1>1. ASSUME RetireUnplanned(p)  PROVE TypeOK' /\ Shape(p)'
  <2>1. ControlType' /\ Shape(p)'
    <3>1. pc[p] = "retire"
      BY <1>1 DEF RetireUnplanned
    <3>2. CASE Leave(p)
      BY <1>0, <3>2, LeaveOK
    <3>3. CASE Goto(p, "unstage") /\ st' = st
      <4>1. LocalOK("unstage", job[p]) /\ DiskOK("unstage", job[p], st', tx')
        BY <1>0, <3>1, <3>3 DEF LocalOK, DiskOK, Committing, WithTxn, AtOutput, Claimed,
           Replaying
      <4> QED BY <1>0, <3>3, <4>1, GotoOK DEF Labels
    <3> DEFINE d == Pending(job[p].build, job[p].plan.outs, RetireOps(p))
    <3>4. ASSUME NEW x \in Txns, MakeTransaction(x),
                 GotoWith(p, "pend", [job[p] EXCEPT !.txn = x, !.draft = d])
          PROVE  ControlType' /\ Shape(p)'
      <4> DEFINE j == [job[p] EXCEPT !.txn = x, !.draft = d]
      <4>1. job[p].plan \in PlanRecords /\ st.snapshot \in Snapshots
        BY <1>0, <3>1 DEF LocalOK, DiskOK
      <4>2. RetireOps(p) \in Operations
        BY <1>0, <4>1, RetireOpsOK
      <4>3. d \in PendingRecords
        BY <1>0, <3>1, <4>1, <4>2, PendingOK DEF LocalOK, DiskOK, Claimed, PlanRecords
      <4>4. j \in JobRecords
        <5> HIDE DEF d
        <5> QED BY <1>00, <4>3 DEF JobRecords, OrNone
      <4>5. j.txn = x /\ j.draft = d /\ j.cmd = job[p].cmd /\ j.build = job[p].build
            /\ j.plan = job[p].plan
            /\ j.target = job[p].target
        BY <1>00 DEF JobRecords
      <4>6. st' = st /\ tx'[x].ent
        BY <1>0, <3>4, MakeTransactionOK
      <4>7. LocalOK("pend", j)
        <5> HIDE DEF j, d
        <5> QED BY <1>0, <3>1, <4>3, <4>5 DEF LocalOK, Committing, WithTxn, AtOutput
      <4>8. DiskOK("pend", j, st', tx')
        <5> HIDE DEF j
        <5> QED BY <1>0, <3>1, <4>5, <4>6 DEF DiskOK, Claimed, Replaying, AtOutput
      <4> HIDE DEF j
      <4> QED BY <1>0, <3>4, <4>4, <4>7, <4>8, GotoWithOK DEF Labels, j
    <3> QED BY <1>1, <3>2, <3>3, <3>4 DEF RetireUnplanned, stVars
  <2>2. OutType' /\ StageType' /\ EnvType'
    BY <1>1, <1>0 DEF RetireUnplanned, disk, outVars, stageVars, env, OutType, StageType,
       EnvType
  <2>3. StateType'
    <3>1. CASE UNCHANGED stVars
      BY <1>0, <3>1 DEF stVars, StateType
    <3>2. ASSUME NEW x \in Txns, MakeTransaction(x)  PROVE StateType'
      BY <1>0, <3>2, MakeTransactionOK
    <3> QED BY <1>1, <3>1, <3>2 DEF RetireUnplanned
  <2>4. TxType'
    <3>1. CASE UNCHANGED txVars
      BY <1>0, <3>1 DEF txVars, TxType
    <3>2. ASSUME NEW x \in Txns, MakeTransaction(x)  PROVE TxType'
      BY <1>0, <3>2, MakeTransactionOK
    <3> QED BY <1>1, <3>1, <3>2 DEF RetireUnplanned
  <2> QED BY <2>1, <2>2, <2>3, <2>4 DEF TypeOK
<1>2. ASSUME RemoveStaging(p)  PROVE TypeOK' /\ Shape(p)'
  <2>1. ControlType' /\ Shape(p)'
    <3>1. pc[p] = "unstage" /\ st' = st /\ tx' = tx /\ Goto(p, "unstage_sync")
      BY <1>2 DEF RemoveStaging, disk, stVars, txVars
    <3>2. LocalOK("unstage_sync", job[p]) /\ DiskOK("unstage_sync", job[p], st', tx')
      BY <1>0, <3>1 DEF LocalOK, DiskOK, Committing, WithTxn, AtOutput, Claimed, Replaying
    <3> QED BY <1>0, <3>1, <3>2, GotoOK DEF Labels
  <2>2. StateType' /\ TxType' /\ OutType' /\ EnvType'
    BY <1>2, <1>0 DEF RemoveStaging, disk, stVars, txVars, outVars, env, StateType,
       TxType, OutType, EnvType
  <2>3. StageType'
    BY <1>2, <1>0 DEF RemoveStaging, StageType, OrNone
  <2> QED BY <2>1, <2>2, <2>3 DEF TypeOK
<1>3. ASSUME SyncStaging(p)  PROVE TypeOK' /\ Shape(p)'
  <2>1. ControlType' /\ Shape(p)'
    <3>1. pc[p] = "unstage_sync" /\ st' = st /\ tx' = tx
      BY <1>3 DEF SyncStaging, stVars, txVars
    <3>2. CASE job[p].cmd = "reset"
      <4>1. LocalOK("disposable", job[p]) /\ DiskOK("disposable", job[p], st', tx')
        BY <1>0, <3>1, <3>2 DEF LocalOK, DiskOK, Committing, WithTxn, AtOutput, Claimed,
           Replaying
      <4> QED BY <1>3, <1>0, <3>2, <4>1, GotoOK DEF SyncStaging, Labels
    <3>3. CASE job[p].cmd # "reset"
      <4>1. LocalOK("plan", job[p]) /\ DiskOK("plan", job[p], st', tx')
        BY <1>0, <3>1, <3>3 DEF LocalOK, DiskOK, Committing, WithTxn, AtOutput, Claimed,
           Replaying
      <4> QED BY <1>3, <1>0, <3>3, <4>1, GotoOK DEF SyncStaging, Labels
    <3> QED BY <3>2, <3>3
  <2>2. StateType' /\ TxType' /\ OutType' /\ EnvType'
    BY <1>3, <1>0 DEF SyncStaging, disk, stVars, txVars, outVars, env, StateType, TxType,
       OutType, EnvType
  <2>3. StageType'
    BY <1>3, <1>0 DEF SyncStaging, StageType, OrNone
  <2> QED BY <2>1, <2>2, <2>3 DEF TypeOK
<1>4. ASSUME WritePlan(p)  PROVE TypeOK' /\ Shape(p)'
  <2>1. ControlType' /\ Shape(p)'
    <3>1. pc[p] = "plan" /\ st'.claim = st.claim /\ Goto(p, "plan_sync")
      BY <1>4, <1>0 DEF WritePlan, WriteState, StateType, States
    <3>2. LocalOK("plan_sync", job[p]) /\ DiskOK("plan_sync", job[p], st', tx')
      BY <1>0, <3>1 DEF LocalOK, DiskOK, Committing, WithTxn, AtOutput, Claimed, Replaying
    <3> QED BY <1>0, <3>1, <3>2, GotoOK DEF Labels
  <2>2. TxType' /\ OutType' /\ StageType' /\ EnvType'
    BY <1>4, <1>0 DEF WritePlan, disk, txVars, outVars, stageVars, env, TxType, OutType,
       StageType, EnvType
  <2>3. StateType'
    <3>1. job[p].plan \in PlanRecords
      BY <1>4, <1>0 DEF WritePlan, LocalOK
    <3>2. [st EXCEPT !.plan = job[p].plan] \in States /\ "plan" \in DOMAIN EmptyState
      BY <1>0, <3>1 DEF StateType, States, OrNone, EmptyState
    <3> QED BY <1>4, <1>0, <3>2, WriteStateOK DEF WritePlan
  <2> QED BY <2>1, <2>2, <2>3 DEF TypeOK
<1>5. ASSUME ReturnToken(p)  PROVE TypeOK' /\ Shape(p)'
  <2>1. ControlType' /\ Shape(p)'
    <3>1. st.claim.token \in OrNone(Nat) /\ pc[p] = "return"
      BY <1>5, <1>0 DEF ReturnToken, DiskOK, Claimed, ClaimRecords, OrNone
    <3> QED BY <1>5, <1>0, <3>1, AnswerOK DEF ReturnToken
  <2>2. StateType' /\ TxType' /\ OutType' /\ StageType' /\ EnvType'
    BY <1>5, <1>0 DEF ReturnToken, disk, stVars, txVars, outVars, stageVars, env,
       StateType, TxType, OutType, StageType, EnvType
  <2> QED BY <2>1, <2>2 DEF TypeOK
<1>6. ASSUME StoreToken(p)  PROVE TypeOK' /\ Shape(p)'
  <2>1. ControlType' /\ Shape(p)'
    BY <1>6, <1>0, LeaveOK DEF StoreToken
  <2>2. StateType' /\ TxType' /\ OutType' /\ StageType'
    BY <1>6, <1>0 DEF StoreToken, disk, stVars, txVars, outVars, stageVars, env,
       StateType, TxType, OutType, StageType
  <2>3. EnvType'
    <3>1. job[p].token \in OrNone(Nat) /\ job[p].plan \in OrNone(PlanRecords)
      BY <1>00 DEF JobRecords
    <3>2. held' \in [Builds -> OrNone(Nat)]
      BY <1>6, <1>0, <3>1 DEF StoreToken, EnvType
    <3>3. planFile' \in [Builds -> OrNone(PlanRecords)]
      BY <1>6, <1>0, <3>1 DEF StoreToken, EnvType, OrNone
    <3> QED BY <1>6, <1>0, <3>2, <3>3 DEF StoreToken, EnvType
  <2> QED BY <2>1, <2>2, <2>3 DEF TypeOK
<1> QED BY <1>1, <1>2, <1>3, <1>4, <1>5, <1>6 DEF Configuring

(* Reset. *)
LEMMA ResettingOK ==
    ASSUME TypeInv, NEW p \in Procs, Resetting(p)
    PROVE  TypeOK' /\ Shape(p)'
<1>0. /\ ControlType /\ StateType /\ TxType /\ OutType /\ StageType /\ EnvType
      /\ pc[p] \in Labels /\ job[p] \in JobRecords
      /\ LocalOK(pc[p], job[p]) /\ DiskOK(pc[p], job[p], st, tx)
  BY DEF TypeInv, TypeOK, ControlType, Shape
<1>00. job[p] \in JobRecords
  BY <1>0
<1>1. ASSUME WriteResetIntent(p)  PROVE TypeOK' /\ Shape(p)'
  <2>1. ControlType' /\ Shape(p)'
    <3> DEFINE intent == [token |-> st.claim.token, entries |-> st.snapshot.entries,
                          targets |-> PlanTargets(st.plan)]
    <3>1. pc[p] = "intent" /\ st.claim \in ClaimRecords /\ st.snapshot \in Snapshots
          /\ st.plan \in OrNone(PlanRecords)
      BY <1>1, <1>0 DEF WriteResetIntent, DiskOK, Claimed, StateType, States
    <3>2. PlanTargets(st.plan) \subseteq Targets
      BY <3>1, PlanTargetsOK
    <3>3. intent \in ResetRecords
      BY <3>1, <3>2 DEF ResetRecords, ClaimRecords, Snapshots
    <3> HIDE DEF intent
    <3>4. CASE Leave(p)
      BY <1>0, <3>4, LeaveOK
    <3>5. CASE Goto(p, "intent_sync") /\ WriteState("reset", intent) /\ tx' = tx
      <4>1. st'.reset = intent /\ st'.claim = st.claim
        BY <1>0, <3>5 DEF WriteState, StateType, States
      <4>2. LocalOK("intent_sync", job[p]) /\ DiskOK("intent_sync", job[p], st', tx')
        BY <1>0, <3>1, <3>3, <4>1 DEF LocalOK, DiskOK, Committing, WithTxn, AtOutput,
           Claimed, Replaying
      <4> QED BY <1>0, <3>5, <4>2, GotoOK DEF Labels
    <3> QED BY <1>1, <3>4, <3>5 DEF WriteResetIntent, txVars, intent
  <2>2. TxType' /\ OutType' /\ StageType' /\ EnvType'
    BY <1>1, <1>0 DEF WriteResetIntent, disk, txVars, outVars, stageVars, env, TxType,
       OutType, StageType, EnvType
  <2>3. StateType'
    <3> DEFINE intent == [token |-> st.claim.token, entries |-> st.snapshot.entries,
                          targets |-> PlanTargets(st.plan)]
    <3>1. pc[p] = "intent" /\ st.claim \in ClaimRecords /\ st.snapshot \in Snapshots
          /\ st.plan \in OrNone(PlanRecords)
      BY <1>1, <1>0 DEF WriteResetIntent, DiskOK, Claimed, StateType, States
    <3>2. PlanTargets(st.plan) \subseteq Targets
      BY <3>1, PlanTargetsOK
    <3>3. intent \in ResetRecords
      BY <3>1, <3>2 DEF ResetRecords, ClaimRecords, Snapshots
    <3> HIDE DEF intent
    <3>4. CASE UNCHANGED stVars
      BY <1>0, <3>4 DEF stVars, StateType
    <3>5. CASE WriteState("reset", intent)
      <4>1. [st EXCEPT !.reset = intent] \in States /\ "reset" \in DOMAIN EmptyState
        BY <1>0, <3>3 DEF StateType, States, OrNone, EmptyState
      <4> QED BY <1>0, <3>5, <4>1, WriteStateOK
    <3> QED BY <1>1, <3>4, <3>5 DEF WriteResetIntent, intent
  <2> QED BY <2>1, <2>2, <2>3 DEF TypeOK
<1>2. ASSUME ResumeReset(p)  PROVE TypeOK' /\ Shape(p)'
  <2>1. ControlType' /\ Shape(p)'
    <3>1. pc[p] = "resume" /\ st' = st /\ tx' = tx
      BY <1>2 DEF ResumeReset, disk, stVars, txVars
    <3>2. LocalOK("purge", job[p]) /\ DiskOK("purge", job[p], st', tx')
      BY <1>0, <3>1 DEF LocalOK, DiskOK, Committing, WithTxn, AtOutput, Claimed, Replaying
    <3> QED BY <1>2, <1>0, <3>2, GotoOK, LeaveOK DEF ResumeReset, Require, Labels
  <2>2. StateType' /\ TxType' /\ OutType' /\ StageType' /\ EnvType'
    BY <1>2, <1>0 DEF ResumeReset, disk, stVars, txVars, outVars, stageVars, env,
       StateType, TxType, OutType, StageType, EnvType
  <2> QED BY <2>1, <2>2 DEF TypeOK
<1>3. ASSUME Purge(p)  PROVE TypeOK' /\ Shape(p)'
  <2>1. ControlType' /\ Shape(p)'
    <3> DEFINE ops == DeleteOps(st.reset.entries)
               j == [job[p] EXCEPT !.ops = ops]
    <3>1. pc[p] = "purge" /\ st' = st /\ tx' = tx /\ GotoWith(p, "output", j)
      BY <1>3 DEF Purge, disk, stVars, txVars
    <3>2. ops \in Operations
      BY <1>0, <3>1, DeleteOpsOK DEF DiskOK, ResetRecords
    <3>3. j \in JobRecords /\ j.txn = job[p].txn /\ j.cmd = job[p].cmd
          /\ j.build = job[p].build /\ j.plan = job[p].plan
            /\ j.target = job[p].target
      <4> HIDE DEF ops
      <4> QED BY <1>00, <3>2 DEF JobRecords
    <3>4. job[p].txn = None
      BY <1>0, <3>1  DEF LocalOK, WithTxn, Committing, AtOutput
    <3>5. LocalOK("output", j)
      <4> HIDE DEF j
      <4> QED BY <1>0, <3>1, <3>3, <3>4 DEF LocalOK, Committing, WithTxn, AtOutput
    <3>6. DiskOK("output", j, st', tx')
      <4> HIDE DEF j
      <4> QED BY <1>0, <3>1, <3>3, <3>4, NoneAssumption DEF DiskOK, Claimed, Replaying,
                 AtOutput
    <3> HIDE DEF j
    <3> QED BY <1>0, <3>1, <3>3, <3>5, <3>6, GotoWithOK DEF Labels
  <2>2. StateType' /\ TxType' /\ OutType' /\ StageType' /\ EnvType'
    BY <1>3, <1>0 DEF Purge, disk, stVars, txVars, outVars, stageVars, env, StateType,
       TxType, OutType, StageType, EnvType
  <2> QED BY <2>1, <2>2 DEF TypeOK
<1>4. ASSUME RemoveDisposable(p)  PROVE TypeOK' /\ Shape(p)'
  <2>1. ControlType' /\ Shape(p)'
    <3>1. pc[p] = "disposable" /\ st' = st /\ Goto(p, "unclaim")
      BY <1>4 DEF RemoveDisposable, stVars
    <3>2. LocalOK("unclaim", job[p]) /\ DiskOK("unclaim", job[p], st', tx')
      BY <1>0, <3>1 DEF LocalOK, DiskOK, Committing, WithTxn, AtOutput, Claimed, Replaying
    <3> QED BY <1>0, <3>1, <3>2, GotoOK DEF Labels
  <2>2. StateType' /\ OutType' /\ StageType' /\ EnvType'
    BY <1>4, <1>0 DEF RemoveDisposable, disk, stVars, outVars, stageVars, env, StateType,
       OutType, StageType, EnvType
  <2>3. TxType'
    BY <1>4, NoTxOK DEF RemoveDisposable
  <2> QED BY <2>1, <2>2, <2>3 DEF TypeOK
<1>5. ASSUME Unclaim(p)  PROVE TypeOK' /\ Shape(p)'
  <2>1. ControlType' /\ Shape(p)'
    <3>1. pc[p] = "unclaim" /\ Goto(p, "unclaim_sync")
      BY <1>5 DEF Unclaim
    <3>2. LocalOK("unclaim_sync", job[p]) /\ DiskOK("unclaim_sync", job[p], st', tx')
      BY <1>0, <3>1 DEF LocalOK, DiskOK, Committing, WithTxn, AtOutput, Claimed, Replaying
    <3> QED BY <1>0, <3>1, <3>2, GotoOK DEF Labels
  <2>2. TxType' /\ OutType' /\ StageType' /\ EnvType'
    BY <1>5, <1>0 DEF Unclaim, disk, txVars, outVars, stageVars, env, TxType, OutType,
       StageType, EnvType
  <2>3. StateType'
    <3>1. "claim" \in DOMAIN EmptyState
      BY DEF EmptyState
    <3> QED BY <1>5, <1>0, <3>1, StateNoneOK, WriteStateOK DEF Unclaim, StateType
  <2> QED BY <2>1, <2>2, <2>3 DEF TypeOK
<1>6. ASSUME Scrub(p)  PROVE TypeOK' /\ Shape(p)'
  <2>1. ControlType' /\ Shape(p)'
    <3>1. pc[p] = "scrub" /\ Goto(p, "scrub_sync")
      BY <1>6 DEF Scrub
    <3>2. LocalOK("scrub_sync", job[p]) /\ DiskOK("scrub_sync", job[p], st', tx')
      BY <1>0, <3>1 DEF LocalOK, DiskOK, Committing, WithTxn, AtOutput, Claimed, Replaying
    <3> QED BY <1>0, <3>1, <3>2, GotoOK DEF Labels
  <2>2. TxType' /\ OutType' /\ StageType' /\ EnvType'
    BY <1>6, <1>0 DEF Scrub, disk, txVars, outVars, stageVars, env, TxType, OutType,
       StageType, EnvType
  <2>3. StateType'
    <3>1. \A i \in 1..3 : ScrubOrder[i] \in DOMAIN EmptyState
      BY DEF ScrubOrder, EmptyState
    <3> QED BY <1>6, <1>0, <3>1, StateNoneOK, WriteStateOK DEF Scrub, StateType
  <2> QED BY <2>1, <2>2, <2>3 DEF TypeOK
<1>7. ASSUME RemoveState(p)  PROVE TypeOK' /\ Shape(p)'
  <2>1. ControlType' /\ Shape(p)'
    BY <1>7, <1>0, LeaveOK DEF RemoveState
  <2>2. TxType' /\ OutType' /\ StageType' /\ EnvType'
    BY <1>7, <1>0 DEF RemoveState, disk, txVars, outVars, stageVars, env, TxType, OutType,
       StageType, EnvType
  <2>3. StateType'
    BY <1>7, <1>0, SyncStateOK DEF RemoveState
  <2> QED BY <2>1, <2>2, <2>3 DEF TypeOK
<1> QED BY <1>1, <1>2, <1>3, <1>4, <1>5, <1>6, <1>7 DEF Resetting

---------------------------------------------------------------------------
(* The other processes *)

(* A step moves one process, and changes the state directory or a           *)
(* transaction only in the publication section.                             *)
Frame(p, q) ==
    /\ pc'[q] = pc[q] /\ job'[q] = job[q]
    /\ pc[p] \in PubSection \/ (st' = st /\ tx' = tx)

(* Moving p leaves the others where they are.                               *)
LEMMA MoveFrame ==
    ASSUME ControlType, NEW p \in Procs, NEW q \in Procs, q # p
    PROVE  /\ \A label : Goto(p, label) => pc'[q] = pc[q] /\ job'[q] = job[q]
           /\ \A label, j : GotoWith(p, label, j) => pc'[q] = pc[q] /\ job'[q] = job[q]
           /\ Leave(p) => pc'[q] = pc[q] /\ job'[q] = job[q]
           /\ \A token : Answer(p, token) => pc'[q] = pc[q] /\ job'[q] = job[q]
BY DEF ControlType, Goto, GotoWith, Leave, Answer

(* A step of p moves only p, and changes the disk only inside the publication section. *)
LEMMA StepFrame ==
    ASSUME ControlType, NEW p \in Procs, NEW q \in Procs, q # p, Step(p)
    PROVE  Frame(p, q)
<1> USE DEF Frame, ControlType
<1>1. CASE Locking(p)
  <2>1. CASE AcquireRegistry(p)
    BY <2>1, MoveFrame DEF AcquireRegistry, Require, disk, stVars, txVars, PubSection
  <2>2. CASE AcquireGeneration(p)
    BY <2>2, MoveFrame DEF AcquireGeneration, Require, disk, stVars, txVars, PubSection
  <2>3. CASE SpawnChild(p)
    BY <2>3, MoveFrame DEF SpawnChild, Require, disk, stVars, txVars, PubSection
  <2>4. CASE AcquirePublication(p)
    BY <2>4, MoveFrame DEF AcquirePublication, Require, disk, stVars, txVars, PubSection
  <2> QED BY <1>1, <2>1, <2>2, <2>3, <2>4 DEF Locking
<1>2. CASE Claiming(p)
  <2>1. CASE ValidateRegistry(p)
    BY <2>1, MoveFrame DEF ValidateRegistry, Require, disk, stVars, txVars, PubSection
  <2>2. ASSUME NEW file \in DOMAIN EmptyState, WipeFile(p, file)  PROVE Frame(p, q)
    BY <2>2, MoveFrame DEF WipeFile, Require, disk, stVars, txVars, PubSection
  <2>3. CASE WipeSync(p)
    BY <2>3, MoveFrame DEF WipeSync, Require, disk, stVars, txVars, PubSection
  <2>4. CASE LoadClaim(p)
    BY <2>4, MoveFrame DEF LoadClaim, Require, disk, stVars, txVars, PubSection
  <2>5. CASE Released(p)
    BY <2>5, MoveFrame DEF Released, Require, disk, stVars, txVars, PubSection
  <2>6. CASE InitSnapshot(p)
    BY <2>6, MoveFrame DEF InitSnapshot, Require, disk, stVars, txVars, PubSection
  <2>7. CASE InitClaim(p)
    BY <2>7, MoveFrame DEF InitClaim, Require, disk, stVars, txVars, PubSection
  <2>8. CASE SyncState(p)
    BY <2>8, MoveFrame DEF SyncState, Require, disk, stVars, txVars, PubSection, AfterSync
  <2> QED BY <1>2, <2>1, <2>2, <2>3, <2>4, <2>5, <2>6, <2>7, <2>8 DEF Claiming
<1>3. CASE Recovering(p)
  <2>1. CASE Recover(p)
    BY <2>1, MoveFrame DEF Recover, Require, disk, stVars, txVars, PubSection
  <2>2. CASE Drop(p)
    BY <2>2, MoveFrame DEF Drop, Require, disk, stVars, txVars, PubSection
  <2>3. CASE DropSync(p)
    BY <2>3, MoveFrame DEF DropSync, Require, disk, stVars, txVars, PubSection
  <2>4. CASE Sweep(p)
    BY <2>4, MoveFrame DEF Sweep, Require, disk, stVars, txVars, PubSection
  <2>5. CASE Recovered(p)
    BY <2>5, MoveFrame DEF Recovered, Require, disk, stVars, txVars, PubSection, Proceed
  <2> QED BY <1>3, <2>1, <2>2, <2>3, <2>4, <2>5 DEF Recovering
<1>4. CASE Applying(p)
  <2>1. CASE WritePending(p)
    BY <2>1, MoveFrame DEF WritePending, Require, disk, stVars, txVars, PubSection
  <2>2. CASE SyncPending(p)
    BY <2>2, MoveFrame DEF SyncPending, Require, disk, stVars, txVars, PubSection
  <2>3. CASE ApplyPending(p)
    BY <2>3, MoveFrame DEF ApplyPending, Require, disk, stVars, txVars, PubSection
  <2>4. CASE CheckOutput(p)
    BY <2>4, MoveFrame DEF CheckOutput, Require, disk, stVars, txVars, PubSection
  <2>5. CASE ActOnOutput(p)
    BY <2>5, MoveFrame DEF ActOnOutput, Require, disk, stVars, txVars, PubSection
  <2>6. CASE SyncOutput(p)
    BY <2>6, MoveFrame DEF SyncOutput, Require, disk, stVars, txVars, PubSection
  <2>7. CASE OutputsDone(p)
    BY <2>7, MoveFrame DEF OutputsDone, Require, disk, stVars, txVars, PubSection
  <2>8. CASE CommitSnapshot(p)
    BY <2>8, MoveFrame DEF CommitSnapshot, Require, disk, stVars, txVars, PubSection
  <2> QED BY <1>4, <2>1, <2>2, <2>3, <2>4, <2>5, <2>6, <2>7, <2>8 DEF Applying
<1>5. CASE Generating(p)
  <2>1. CASE Validated(p)
    BY <2>1, MoveFrame DEF Validated, Require, disk, stVars, txVars, PubSection
  <2>2. CASE RebuildStaging(p)
    BY <2>2, MoveFrame DEF RebuildStaging, Require, disk, stVars, txVars, PubSection
  <2>3. CASE Protoc(p)
    BY <2>3, MoveFrame DEF Protoc, Require, disk, stVars, txVars, PubSection
  <2>4. CASE Prepare(p)
    BY <2>4, MoveFrame DEF Prepare, Require, disk, stVars, txVars, PubSection
  <2>5. CASE CopyPayload(p)
    BY <2>5, MoveFrame DEF CopyPayload, Require, disk, stVars, txVars, PubSection
  <2>6. CASE SyncPayloads(p)
    BY <2>6, MoveFrame DEF SyncPayloads, Require, disk, stVars, txVars, PubSection
  <2>7. CASE Verify(p)
    BY <2>7, MoveFrame DEF Verify, Require, disk, stVars, txVars, PubSection
  <2>8. CASE CheckPublished(p)
    BY <2>8, MoveFrame DEF CheckPublished, Require, disk, stVars, txVars, PubSection
  <2>9. CASE DiscardStaging(p)
    BY <2>9, MoveFrame DEF DiscardStaging, Require, disk, stVars, txVars, PubSection
  <2> QED BY <1>5, <2>1, <2>2, <2>3, <2>4, <2>5, <2>6, <2>7, <2>8, <2>9 DEF Generating
<1>6. CASE Configuring(p)
  <2>1. CASE RetireUnplanned(p)
    BY <2>1, MoveFrame DEF RetireUnplanned, Require, disk, stVars, txVars, PubSection
  <2>2. CASE RemoveStaging(p)
    BY <2>2, MoveFrame DEF RemoveStaging, Require, disk, stVars, txVars, PubSection
  <2>3. CASE SyncStaging(p)
    BY <2>3, MoveFrame DEF SyncStaging, Require, disk, stVars, txVars, PubSection
  <2>4. CASE WritePlan(p)
    BY <2>4, MoveFrame DEF WritePlan, Require, disk, stVars, txVars, PubSection
  <2>5. CASE ReturnToken(p)
    BY <2>5, MoveFrame DEF ReturnToken, Require, disk, stVars, txVars, PubSection
  <2>6. CASE StoreToken(p)
    BY <2>6, MoveFrame DEF StoreToken, Require, disk, stVars, txVars, PubSection
  <2> QED BY <1>6, <2>1, <2>2, <2>3, <2>4, <2>5, <2>6 DEF Configuring
<1>7. CASE Resetting(p)
  <2>1. CASE WriteResetIntent(p)
    BY <2>1, MoveFrame DEF WriteResetIntent, Require, disk, stVars, txVars, PubSection
  <2>2. CASE ResumeReset(p)
    BY <2>2, MoveFrame DEF ResumeReset, Require, disk, stVars, txVars, PubSection
  <2>3. CASE Purge(p)
    BY <2>3, MoveFrame DEF Purge, Require, disk, stVars, txVars, PubSection
  <2>4. CASE RemoveDisposable(p)
    BY <2>4, MoveFrame DEF RemoveDisposable, Require, disk, stVars, txVars, PubSection
  <2>5. CASE Unclaim(p)
    BY <2>5, MoveFrame DEF Unclaim, Require, disk, stVars, txVars, PubSection
  <2>6. CASE Scrub(p)
    BY <2>6, MoveFrame DEF Scrub, Require, disk, stVars, txVars, PubSection
  <2>7. CASE RemoveState(p)
    BY <2>7, MoveFrame DEF RemoveState, Require, disk, stVars, txVars, PubSection
  <2> QED BY <1>7, <2>1, <2>2, <2>3, <2>4, <2>5, <2>6, <2>7 DEF Resetting
<1> QED BY <1>1, <1>2, <1>3, <1>4, <1>5, <1>6, <1>7 DEF Step

(* So what the others know stays true.                                      *)
LEMMA OthersKeepShape ==
    ASSUME TypeInv, NEW p \in Procs, Step(p), NEW q \in Procs, q # p
    PROVE  Shape(q)'
<1>1. Frame(p, q) /\ Shape(q)
  BY StepFrame DEF TypeInv, TypeOK
<1>2. LocalOK(pc'[q], job'[q])
  BY <1>1 DEF Frame, Shape
<1>3. DiskOK(pc'[q], job'[q], st', tx')
  <2>1. CASE pc[q] \in PubSection
    <3>1. st' = st /\ tx' = tx
      BY <1>1, <2>1 DEF Frame, TypeInv, PubInv
    <3> QED BY <1>1, <3>1 DEF Frame, Shape
  <2>2. CASE pc[q] \notin PubSection
    BY <1>1, <2>2 DEF Frame, DiskOK, Claimed, Replaying, AtOutput, PubSection
  <2> QED BY <2>1, <2>2
<1> QED BY <1>2, <1>3 DEF Shape

---------------------------------------------------------------------------
(* The theorem *)

(* Every program step keeps the inductive invariant.                        *)
LEMMA StepKeepsTypeInv ==
    ASSUME TypeInv, NEW p \in Procs, Step(p)
    PROVE  TypeInv'
<1>1. TypeOK' /\ Shape(p)'
  BY LockingOK, ClaimingOK, RecoveringOK, ApplyingOK, GeneratingOK, ConfiguringOK,
     ResettingOK DEF Step
<1>2. PubInv'
  BY PubStep DEF TypeInv
<1>3. \A q \in Procs : Shape(q)'
  BY <1>1, OthersKeepShape
<1> QED BY <1>1, <1>2, <1>3 DEF TypeInv

(* So does the start of a command,                                          *)
LEMMA StartKeepsTypeInv ==
    ASSUME TypeInv, NEW p \in Procs, NEW event \in Events, NEW label \in {"reg", "gen"},
           NEW j \in JobRecords, LocalOK(label, j), Start(p, event, label, j),
           planFile' \in [Builds -> OrNone(PlanRecords)]
    PROVE  TypeInv'
<1>0. ControlType /\ StateType /\ TxType /\ OutType /\ StageType /\ EnvType
  BY DEF TypeInv, TypeOK
<1>1. GotoWith(p, label, j) /\ UNCHANGED <<disk, held, nextToken>> /\ Spend(event)
  BY DEF Start
<1>2. DiskOK(label, j, st', tx')
  BY DEF DiskOK, Claimed, Replaying, AtOutput
<1>3. ControlType' /\ Shape(p)'
  BY <1>0, <1>1, <1>2, GotoWithOK DEF Labels
<1>4. StateType' /\ TxType' /\ OutType' /\ StageType'
  BY <1>0, <1>1 DEF disk, StateType, TxType, OutType, StageType
<1>5. EnvType'
  BY <1>0, <1>1 DEF EnvType, Spend
<1>6. PubInv'
  BY <1>1, PubMove DEF TypeInv, GotoWith, locks, PubSection
<1>7. ASSUME NEW q \in Procs, q # p  PROVE Shape(q)'
  BY <1>0, <1>1, <1>7, MoveFrame DEF TypeInv, Shape, disk
<1> QED BY <1>3, <1>4, <1>5, <1>6, <1>7 DEF TypeInv, TypeOK

(* whichever command it is, *)
LEMMA StartingKeepsTypeInv ==
    ASSUME TypeInv, NEW p \in Procs, Starting(p)
    PROVE  TypeInv'
<1>0. EnvType /\ StateType
  BY DEF TypeInv, TypeOK
<1>1. NoJob \in JobRecords /\ NoJob.txn = None
  BY MapEmpty DEF NoJob, JobRecords, OrNone, Operations
<1>2. {"configures", "generates", "resets"} \subseteq Events
  BY DEF Events
<1>3. ASSUME NEW b \in Builds, NEW outs \in Plans, StartConfigure(p, b, outs)
      PROVE  TypeInv'
  <2> DEFINE j == [NoJob EXCEPT !.cmd = "configure", !.build = b, !.plan = Plan(b, outs)]
  <2>1. Plan(b, outs) \in PlanRecords
    BY PlansAssumption DEF Plan, PlanRecords, PartialMaps
  <2>2. j \in JobRecords /\ LocalOK("reg", j)
    BY <2>1, StartRegistered
  <2>3. planFile' \in [Builds -> OrNone(PlanRecords)]
    BY <1>0, <1>3, <2>1 DEF StartConfigure, EnvType, OrNone
  <2> HIDE DEF j
  <2> QED BY <1>2, <1>3, <2>2, <2>3, StartKeepsTypeInv DEF StartConfigure, j
<1>4. ASSUME NEW b \in Builds, StartRetire(p, b)
      PROVE  TypeInv'
  <2> DEFINE j == [NoJob EXCEPT !.cmd = "retire", !.build = b, !.plan = Plan(b, NoMap)]
  <2>1. Plan(b, NoMap) \in PlanRecords
    BY MapEmpty DEF Plan, PlanRecords
  <2>2. j \in JobRecords /\ LocalOK("reg", j)
    BY <2>1, StartRegistered
  <2>3. planFile' \in [Builds -> OrNone(PlanRecords)]
    BY <1>0, <1>4 DEF StartRetire, EnvType
  <2> HIDE DEF j
  <2> QED BY <1>2, <1>4, <2>2, <2>3, StartKeepsTypeInv DEF StartRetire, j
<1>5. ASSUME NEW b \in Builds, StartReset(p, b)
      PROVE  TypeInv'
  <2> DEFINE j == [NoJob EXCEPT !.cmd = "reset", !.build = st.claim.build, !.token = held[b]]
  <2>1. st.claim.build \in Builds /\ held[b] \in Nat
    BY <1>0, <1>5 DEF StartReset, StateType, States, ClaimRecords, EnvType, OrNone
  <2>2. j \in JobRecords /\ LocalOK("reg", j)
    BY <2>1, StartResetting
  <2>3. planFile' \in [Builds -> OrNone(PlanRecords)]
    BY <1>0, <1>5 DEF StartReset, EnvType
  <2> HIDE DEF j
  <2> QED BY <1>2, <1>5, <2>2, <2>3, StartKeepsTypeInv DEF StartReset, j
<1>6. ASSUME NEW b \in Builds, NEW t \in Targets, StartGenerate(p, b, t)
      PROVE  TypeInv'
  <2> DEFINE j == [NoJob EXCEPT !.cmd = "generate", !.build = b, !.target = t]
  <2>1. j \in JobRecords /\ LocalOK("gen", j)
    BY StartGenerating
  <2>2. planFile' \in [Builds -> OrNone(PlanRecords)]
    BY <1>0, <1>6 DEF StartGenerate, EnvType
  <2> HIDE DEF j
  <2> QED BY <1>2, <1>6, <2>1, <2>2, StartKeepsTypeInv DEF StartGenerate, j
<1> QED BY <1>3, <1>4, <1>5, <1>6 DEF Starting

(* a loss of power                                                          *)
LEMMA PowerLossKeepsTypeInv == ASSUME TypeInv, PowerLoss PROVE TypeInv'
<1>0. ControlType /\ StateType /\ TxType /\ OutType /\ StageType /\ EnvType
  BY DEF TypeInv, TypeOK
<1>1. NoJob \in JobRecords /\ NoJob.txn = None
  BY MapEmpty DEF NoJob, JobRecords, OrNone, Operations
<1>2. ControlType' /\ PubInv'
  BY <1>1 DEF PowerLoss, ControlType, PubInv, PubSection, Labels, OrNone
<1>3. \A p \in Procs : Shape(p)'
  <2> TAKE p \in Procs
  <2>1. pc'[p] = "idle" /\ job'[p] = NoJob
    BY DEF PowerLoss
  <2> QED BY <1>1, <2>1 DEF Shape, LocalOK, DiskOK, Committing, WithTxn, AtOutput, Claimed,
         Replaying
<1>4. StateType'
  <2>1. StateSurvivors \subseteq States
    BY <1>0 DEF StateSurvivors, StateType, States
  <2> QED BY <2>1 DEF PowerLoss, StateType
<1>5. TxType'
  <2>1. \A x \in Txns : \A r \in TxSurvivors(x) : r \in TxRecords /\ (~r.ent => r = NoTx)
    <3> TAKE x \in Txns
    <3>1. NoTx \in TxRecords
      BY MapEmpty DEF NoTx, TxRecords, OrNone, Payloads
    <3>2. txOld[x] \in TxOldRecords
      BY <1>0 DEF TxType
    <3>3. \A d \in txOld[x].pend, y \in txOld[x].pay :
             [ent |-> TRUE, pend |-> d, pay |-> y] \in TxRecords
      BY <3>2 DEF TxOldRecords, TxRecords
    <3> QED BY <3>1, <3>3 DEF TxSurvivors
  <2>2. PICK r \in [Txns -> UNION {TxSurvivors(x) : x \in Txns}] :
           /\ \A x \in Txns : r[x] \in TxSurvivors(x)
           /\ tx' = r /\ txOld' = [x \in Txns |-> Survived(r[x])]
    BY DEF PowerLoss
  <2>3. \A x \in Txns : r[x] \in TxRecords /\ (~r[x].ent => r[x] = NoTx)
    BY <2>1, <2>2
  <2>4. \A x \in Txns : Survived(r[x]) \in TxOldRecords
    BY <2>3 DEF Survived, TxOldRecords, TxRecords
  <2>5. tx' \in [Txns -> TxRecords] /\ txOld' \in [Txns -> TxOldRecords]
    BY <2>2, <2>3, <2>4
  <2>6. \A x \in Txns : /\ tx'[x].ent \in txOld'[x].ent /\ tx'[x].pend \in txOld'[x].pend
                        /\ tx'[x].pay \in txOld'[x].pay
                        /\ ~tx'[x].ent => tx'[x] = NoTx
    BY <2>2, <2>3 DEF Survived
  <2> QED BY <2>5, <2>6 DEF TxType
<1>6. OutType'
  <2>1. PICK f \in [Paths -> UNION {outOld[o] : o \in Paths}] :
           /\ \A o \in Paths : f[o] \in outOld[o]
           /\ out' = f /\ outOld' = [o \in Paths |-> {f[o]}]
    BY DEF PowerLoss
  <2>2. \A o \in Paths : f[o] \in Cells
    BY <1>0, <2>1 DEF OutType
  <2> QED BY <1>0, <2>1, <2>2 DEF PowerLoss, OutType
<1>7. StageType'
  <2>1. PICK S \in SUBSET stageOld :
           /\ stage' = [t \in Targets |-> IF t \in S THEN NoMap ELSE None]
           /\ stageOld' = S
    BY DEF PowerLoss
  <2>2. NoMap \in Payloads
    BY MapEmpty DEF Payloads
  <2> QED BY <1>0, <2>1, <2>2 DEF StageType, OrNone
<1>8. EnvType'
  BY <1>0 DEF PowerLoss, EnvType, Spend, Events
<1> QED BY <1>2, <1>3, <1>4, <1>5, <1>6, <1>7, <1>8 DEF TypeInv, TypeOK

(* and an edit by the user.                                                 *)
LEMMA UserStepKeepsTypeInv == ASSUME TypeInv, UserStep PROVE TypeInv'
<1>0. ControlType /\ StateType /\ TxType /\ OutType /\ StageType /\ EnvType
  BY DEF TypeInv, TypeOK
<1>1. ASSUME NEW D \in SUBSET Paths, NEW changes \in [D -> Cells], UserSets(changes),
             touched' \subseteq Paths
      PROVE  TypeInv'
  <2>1. OutType'
    BY <1>0, <1>1 DEF UserSets, OutType
  <2>2. StateType' /\ TxType' /\ StageType' /\ ControlType'
    BY <1>0, <1>1 DEF UserSets, stVars, txVars, stageVars, locks, StateType, TxType,
       StageType, ControlType
  <2>3. EnvType'
    BY <1>0, <1>1 DEF UserSets, EnvType, Spend, Events
  <2>4. PubInv' /\ \A p \in Procs : Shape(p)'
    BY <1>1 DEF TypeInv, UserSets, PubInv, Shape, locks, stVars, txVars
  <2> QED BY <2>1, <2>2, <2>3, <2>4 DEF TypeInv, TypeOK
<1>2. ASSUME NEW o \in Paths, UserWrites(o)  PROVE TypeInv'
  <2>1. [q \in {o} |-> Cell(Foreign, o)] \in [{o} -> Cells]
    BY DEF Cell, Cells, Inodes, OrNone
  <2> QED BY <1>0, <1>1, <1>2, <2>1 DEF UserWrites, OutType
<1>3. ASSUME NEW o \in Paths, UserDeletes(o)  PROVE TypeInv'
  <2>1. [q \in {o} |-> None] \in [{o} -> Cells]
    BY DEF Cells, OrNone
  <2> QED BY <1>0, <1>1, <1>3, <2>1 DEF UserDeletes, OutType
<1>4. ASSUME NEW o \in Paths, NEW d \in Paths, UserLinks(o, d)  PROVE TypeInv'
  <2>1. out[o] # None /\ out[o] \in Cells
    BY <1>0, <1>4 DEF UserLinks, OutType
  <2>2. [q \in {o, d} |-> Cell(out[o].bytes, Shared)] \in [{o, d} -> Cells]
    BY <2>1 DEF Cell, Cells, Inodes, OrNone
  <2> QED BY <1>0, <1>1, <1>4, <2>2 DEF UserLinks, OutType
<1> QED BY <1>2, <1>3, <1>4 DEF UserStep

(* The inductive invariant holds at the start, *)
LEMMA TypeInvInit == ASSUME Init PROVE TypeInv
<1>1. NoJob \in JobRecords /\ NoJob.txn = None
  BY MapEmpty DEF NoJob, JobRecords, OrNone, Operations
<1>2. ControlType /\ PubInv
  BY <1>1 DEF Init, ControlType, PubInv, PubSection, Labels, OrNone
<1>3. StateType
  BY DEF Init, StateType, EmptyState, States, OrNone
<1>4. TxType
  BY MapEmpty DEF Init, TxType, NoTx, NoTxOld, TxRecords, TxOldRecords, OrNone, Payloads
<1>5. OutType /\ StageType
  BY DEF Init, OutType, StageType, Cells, OrNone
<1>6. EnvType
  BY BudgetAssumption DEF Init, EnvType, OrNone
<1>7. ASSUME NEW p \in Procs  PROVE Shape(p)
  BY <1>1 DEF Init, Shape, LocalOK, DiskOK, Committing, WithTxn, AtOutput, Claimed,
     Replaying
<1> QED BY <1>2, <1>3, <1>4, <1>5, <1>6, <1>7 DEF TypeInv, TypeOK

(* and every step keeps it.                                                 *)
LEMMA TypeInvNext == ASSUME TypeInv, [Next]_vars PROVE TypeInv'
<1>0. ControlType /\ StateType /\ TxType /\ OutType /\ StageType /\ EnvType
  BY DEF TypeInv, TypeOK
<1>1. ASSUME NEW p \in Procs, Kill(p)  PROVE TypeInv'
  <2>1. ControlType' /\ Shape(p)'
    BY <1>0, <1>1, LeaveOK DEF Kill
  <2>2. StateType' /\ TxType' /\ OutType' /\ StageType' /\ EnvType'
    BY <1>0, <1>1 DEF Kill, disk, StateType, TxType, OutType, StageType, EnvType, Spend,
       Events
  <2>3. PubInv'
    BY <1>1, PubLeave DEF Kill, TypeInv
  <2>4. ASSUME NEW q \in Procs, q # p  PROVE Shape(q)'
    BY <1>0, <1>1, <2>4, MoveFrame DEF Kill, TypeInv, Shape, disk
  <2> QED BY <2>1, <2>2, <2>3, <2>4 DEF TypeInv, TypeOK
<1>2. ASSUME NEW p \in Procs, ParentDies(p)  PROVE TypeInv'
  <2>1. ControlType'
    BY <1>0, <1>2 DEF ParentDies, ControlType, OrNone
  <2>2. StateType' /\ TxType' /\ OutType' /\ StageType' /\ EnvType'
    BY <1>0, <1>2 DEF ParentDies, disk, StateType, TxType, OutType, StageType, EnvType,
       Spend, Events
  <2>3. PubInv' /\ \A q \in Procs : Shape(q)'
    BY <1>2 DEF ParentDies, TypeInv, PubInv, Shape, disk
  <2> QED BY <2>1, <2>2, <2>3 DEF TypeInv, TypeOK
<1>3. CASE UNCHANGED vars
  BY <1>3 DEF vars, locks, disk, env, TypeInv, TypeOK, ControlType, StateType, TxType,
     OutType, StageType, EnvType, PubInv, Shape
<1> QED BY <1>1, <1>2, <1>3, StartingKeepsTypeInv, StepKeepsTypeInv,
       PowerLossKeepsTypeInv, UserStepKeepsTypeInv DEF Next, AtRest

(* Every variable always holds a value of the kind the code gives it: no    *)
(* step reads a claim, a snapshot, a pending.json or an intent that is not  *)
(* there.                                                                   *)
THEOREM TypeCorrect == Spec => []TypeOK
<1>1. Init => TypeInv
  BY TypeInvInit
<1>2. TypeInv /\ [Next]_vars => TypeInv'
  BY TypeInvNext
<1>3. TypeInv => TypeOK
  BY DEF TypeInv
<1> QED BY <1>1, <1>2, <1>3, PTL DEF Spec
=============================================================================
