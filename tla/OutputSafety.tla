--------------------------- MODULE OutputSafety ---------------------------
(***************************************************************************)
(* What the coordinator of one output root promises.  Most properties are  *)
(* about every disk a loss of power could leave NOW, not only about what   *)
(* the processes can read.                                                  *)
(***************************************************************************)
EXTENDS OutputCoordinator

PartialMaps(S, T) == UNION {[D -> T] : D \in SUBSET S}
OrNone(S) == S \cup {None}

Labels == {"idle", "reg", "gen", "spawn", "pub", "registry", "wipe", "load", "init",
    "init_sync", "claim", "claim_sync", "recover", "sweep", "drop", "drop_sync", "apply",
    "output", "act", "out_sync", "snap", "commit_sync", "validated", "stage", "protoc",
    "prepare", "payload", "pend", "pend_sync", "verify", "published", "cleanup", "retire", "unstage",
    "unstage_sync", "plan", "plan_sync", "return", "store", "intent", "intent_sync", "resume",
    "purge", "disposable", "unclaim", "unclaim_sync", "scrub", "scrub_sync"}
Commands == {"configure", "retire", "generate", "reset"}

Inodes == Paths \cup {Shared}
Cells == OrNone([bytes : Contents \cup {Foreign}, inode : Inodes])
EntryRecords == [hash : Contents, target : Targets]
Entries == PartialMaps(Paths, EntryRecords)
PlanRecords == [build : Builds, outs : PartialMaps(Paths, Targets)]
Snapshots == [token : Nat, gen : Nat, entries : Entries]
ClaimRecords == [build : Builds, token : Nat]
ResetRecords == [token : Nat, entries : Entries, targets : SUBSET Targets]
States == [claim : OrNone(ClaimRecords), snapshot : OrNone(Snapshots),
           plan : OrNone(PlanRecords), reset : OrNone(ResetRecords)]
(* A publication replaces or creates; a retirement deletes, or deletes one  *)
(* of two hard links and passes ownership to the other.                     *)
OpRecords ==
    [before : OrNone(Contents), after : Contents, target : Targets, transfer : {None}]
    \cup [before : Contents, after : {None}, target : Targets,
          transfer : OrNone([path : Paths, inode : Inodes])]
Payloads == PartialMaps(Paths, Contents)
Operations == PartialMaps(Paths, OpRecords)
PendingRecords ==
    [base : Nat, entries : Operations, plan : PlanRecords, snap : Snapshots]
Results == {"sweep", "verify", "unstage", "fail"}
JobRecords ==
    [cmd : OrNone(Commands), build : OrNone(Builds), plan : OrNone(PlanRecords),
     target : OrNone(Targets), token : OrNone(Nat), publishing : BOOLEAN,
     declared : SUBSET Paths, ops : Operations, cur : OrNone(Paths),
     obs : Contents \cup {Foreign, None}, txn : OrNone(Txns),
     draft : OrNone(PendingRecords), ret : OrNone(Results)]
TxRecords == [ent : BOOLEAN, pend : OrNone(PendingRecords), pay : Payloads]
TxOldRecords ==
    [ent : SUBSET BOOLEAN, pend : SUBSET OrNone(PendingRecords), pay : SUBSET Payloads]

(* None stands for what is absent: it is no record.                         *)
ASSUME NoneIsNoRecord ==
    /\ None \notin ClaimRecords /\ None \notin Snapshots /\ None \notin PlanRecords
    /\ None \notin ResetRecords /\ None \notin PendingRecords /\ None \notin Nat
    /\ None \notin [bytes : Contents \cup {Foreign}, inode : Inodes]
    /\ None \notin [path : Paths, inode : Inodes]

ControlType ==
    /\ pc \in [Procs -> Labels] /\ job \in [Procs -> JobRecords]
    /\ {regLock, genLock, pubLock} \subseteq OrNone(Procs)
StateType == st \in stOld /\ stOld \subseteq States
(* A transaction whose directory is gone has no content. *)
TxType ==
    /\ tx \in [Txns -> TxRecords] /\ txOld \in [Txns -> TxOldRecords]
    /\ \A x \in Txns :
        /\ tx[x].ent \in txOld[x].ent /\ tx[x].pend \in txOld[x].pend
        /\ tx[x].pay \in txOld[x].pay
        /\ ~tx[x].ent => tx[x] = NoTx
OutType ==
    /\ out \in [Paths -> Cells] /\ outOld \in [Paths -> SUBSET Cells]
    /\ \A o \in Paths : out[o] \in outOld[o]
    /\ touched \subseteq Paths
StageType ==
    /\ stage \in [Targets -> OrNone(Payloads)]
    /\ {t \in Targets : stage[t] # None} \subseteq stageOld /\ stageOld \subseteq Targets
EnvType ==
    /\ planFile \in [Builds -> OrNone(PlanRecords)]
    /\ held \in [Builds -> OrNone(Nat)]
    /\ nextToken \in Nat /\ budget \in [Events -> Nat]

(* Every variable holds a value of the kind the code gives it. *)
TypeOK ==
    /\ ControlType /\ StateType /\ TxType /\ OutType /\ StageType /\ EnvType

MayBePending(x) == {r \in TxSurvivors(x) : r.pend # None}

(* A claim that may survive is backed by its own committed snapshot: the   *)
(* order of writes in _initialize_claim_locked and of unlinks in            *)
(* _release_claim never exposes a claim no command could load.              *)
ClaimBacked ==
    \A s \in StateSurvivors : s.claim # None =>
        s.snapshot # None /\ s.snapshot.token = s.claim.token

(* A committed output survives with the committed bytes, unless the user   *)
(* changed it, a reset has begun to delete it, or a durable pending         *)
(* transaction is there to restore it.                                      *)
Restorable(o, gen) ==
    \E x \in Txns : \A r \in TxSurvivors(x) :
        r.pend # None /\ r.pend.base = gen /\ o \in DOMAIN r.pend.entries
CommittedIsDurable ==
    \A s \in StateSurvivors :
        s.claim # None /\ s.reset = None /\ st.reset = None =>
            \A o \in DOMAIN s.snapshot.entries \ touched :
                \/ \A c \in outOld[o] : Bytes(c) = s.snapshot.entries[o].hash
                \/ Restorable(o, s.snapshot.gen)

(* A pending transaction that may survive can be rolled forward from what   *)
(* survives with it: it follows the surviving snapshot or is already        *)
(* committed by it, and its payloads are all there.                         *)
PendingReplayable ==
    \A x \in Txns : \A r \in MayBePending(x) : \A s \in StateSurvivors :
        s.claim # None =>
            /\ r.pend.snap.token = s.claim.token
            /\ \/ s.snapshot = r.pend.snap
               \/ /\ s.snapshot.gen = r.pend.base
                  /\ \A o \in DOMAIN r.pend.entries :
                        LET op == r.pend.entries[o] IN
                        /\ op.before = HashIn(s.snapshot.entries, o)
                        /\ op.after # None =>
                              o \in DOMAIN r.pay /\ r.pay[o] = op.after

(* No loss of power leaves two pending transactions, which _recover could   *)
(* only refuse for ever.                                                    *)
OnePending ==
    \A x, y \in Txns : MayBePending(x) # {} /\ MayBePending(y) # {} => x = y

(* What a loss of power leaves of a publication can be rolled forward, and  *)
(* only one is left.                                                        *)
PendingSound == PendingReplayable /\ OnePending

(* An uncommitted publication is authorized by the plan committed for the   *)
(* root: a stale build or a reconfiguration never slips one past it.        *)
PublicationAuthorized ==
    \A x \in Txns : \A r \in MayBePending(x) : \A s \in StateSurvivors :
        (/\ s.claim # None /\ s.snapshot.gen = r.pend.base
         /\ \E o \in DOMAIN r.pend.entries : r.pend.entries[o].after # None)
        => s.plan = r.pend.plan

(* A publication whose parent or whose process died is still one that its   *)
(* plan allows and that the next command can complete.                      *)
PublicationSafe == PublicationAuthorized /\ PendingReplayable

(* When a plan is committed the root records no output outside it, except  *)
(* one the user changed, which stays recorded.                              *)
UnplannedIsRetired ==
    [][st'.plan # None /\ st'.plan # st.plan /\ budget'.losses = budget.losses =>
          DOMAIN st.snapshot.entries \ DOMAIN st'.plan.outs \subseteq touched]_vars

(* A root that nobody can still own holds no file the coordinator wrote.   *)
ReleasedIsClean ==
    (\A s \in StateSurvivors : s.claim = None) =>
        \A o \in Paths \ touched : outOld[o] = {None}

(* Every staging directory that may survive is recorded by the plan that    *)
(* survives, so that a reconfiguration or a reset can still remove it.      *)
StagingRecorded ==
    \A s \in StateSurvivors : stageOld \subseteq PlanTargets(s.plan)

(* An interrupted reset can be resumed: the intent it finds is the state    *)
(* _load_reset_intent demands.                                              *)
ResetResumable == st.claim # None /\ st.reset # None => IntentMatches

(* A reset deletes an output only once its intent is durable.               *)
IntentBeforePurge ==
    \A p \in Procs : pc[p] = "act" /\ job[p].cmd = "reset" /\ job[p].txn = None =>
        \A s \in StateSurvivors : s.reset # None

(* One process at a time reads and changes the state of the root.           *)
PubSection == {"registry", "wipe", "load", "init", "init_sync", "claim", "claim_sync",
    "recover", "sweep", "drop", "drop_sync", "apply", "output", "act", "out_sync",
    "snap", "commit_sync", "validated", "prepare", "payload", "pend", "pend_sync",
    "verify", "retire", "unstage", "unstage_sync", "plan", "plan_sync", "return",
    "intent", "intent_sync", "resume", "purge", "disposable", "unclaim",
    "unclaim_sync", "scrub", "scrub_sync"}
PublicationExclusive ==
    \A p, q \in Procs : pc[p] \in PubSection /\ pc[q] \in PubSection => p = q

(* Staging cleanup, protoc and publication of one generation are not        *)
(* interleaved with another generation, a reconfiguration or a reset.       *)
GenSection == PubSection \cup {"spawn", "pub", "stage", "protoc", "published", "cleanup"}
GenerationExclusive ==
    \A p, q \in Procs : pc[p] \in GenSection /\ pc[q] \in GenSection => p = q

(* Bytes the user wrote are replaced or deleted by a command only if they   *)
(* came after that command looked at the file.                              *)
UserBytesKept ==
    [][\A o \in Paths : Bytes(out[o]) = Foreign /\ Bytes(out'[o]) # Foreign =>
          \/ budget'.edits < budget.edits
          \/ \E p \in Procs : /\ pc[p] = "act" /\ job[p].cur = o
                              /\ job[p].obs # Foreign]_vars

(* The claim is immutable: it goes only by a reset that presents its token, *)
(* or in a loss of power before reconcile returned the token to anyone.     *)
ClaimImmutable ==
    [][st.claim # None /\ st'.claim # st.claim =>
          \/ \E p \in Procs : /\ pc[p] = "unclaim"
                              /\ job[p].cmd = "reset" /\ job[p].token = st.claim.token
          \/ /\ budget'.losses < budget.losses
             /\ \A b \in Builds : held[b] # st.claim.token]_vars

(* Every command ends, in success or failure: no lock order deadlocks and   *)
(* no recovery loops.                                                       *)
CommandsEnd == \A p \in Procs : pc[p] # "idle" ~> pc[p] = "idle"
===========================================================================
