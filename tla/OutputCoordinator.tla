------------------------- MODULE OutputCoordinator -------------------------
(***************************************************************************)
(* cmake/ProtocyteOutputCoordinator.py for ONE output root: the claim, the *)
(* committed snapshot, the write-ahead publication transaction, reconfigu- *)
(* ration and reset, with the three advisory locks that order them, the    *)
(* file system they persist through, and the process tree that             *)
(* cmake/ProtocyteGenerate.cmake runs around validate and publish.         *)
(*                                                                         *)
(* The file system has two faces.  A variable such as st is what every     *)
(* process reads now; its companion stOld holds the versions a power loss  *)
(* may leave behind, and a directory sync reduces it to the present one.   *)
(* Killing a process keeps what it wrote, synced or not.                   *)
(*                                                                         *)
(* Abstracted: hashes and bytes are one value, a token is a counter, the   *)
(* JSON shape checks and path checks (links, case aliases, root overlap)   *)
(* always succeed, and temporary files of an atomic write are invisible.   *)
(* _durable_mkdir and _durable_rmtree of the transactions directory are    *)
(* one step; the removal of one transaction or of a claimless state is not.*)
(***************************************************************************)
EXTENDS Integers, FiniteSets, Functions

CONSTANTS
    Procs,        \* operating-system processes (configure, generate or reset)
    Builds,       \* canonical CMake build trees
    Paths,        \* generated output paths below the root
    Targets,      \* codegen targets
    Contents,     \* what protoc may generate
    Txns,         \* transaction directory names
    Plans,        \* the plans a build may configure: partial maps Paths -> Targets
    None,         \* an absent file, lock holder or value
    Foreign,      \* bytes the user writes into an output
    Shared,       \* the one inode a user hard link may share between outputs
    Budgets,      \* the scenarios: how often each environment event may happen
    BuildsStopped,\* TRUE: no build runs while a reset is running or unfinished
    Reorder       \* TRUE: a power loss keeps each entry of a directory on its own

Events == {"configures", "generates", "resets", "kills", "losses", "orphans", "edits"}

ASSUME NoneAssumption ==
    /\ None \notin Procs \cup Builds \cup Paths \cup Targets \cup Contents \cup Txns
    /\ Foreign \notin Contents \cup {None}
    /\ Shared \notin Paths \cup {None}
ASSUME PlansAssumption == Plans \subseteq UNION {[D -> Targets] : D \in SUBSET Paths}
ASSUME BudgetAssumption == Budgets \subseteq [Events -> Nat]
ASSUME SwitchAssumption == BuildsStopped \in BOOLEAN /\ Reorder \in BOOLEAN

VARIABLES
    pc, job,                      \* control state and locals of each process
    regLock, genLock, pubLock,    \* holders of the three file locks
    st, stOld,                    \* the root's state directory
    tx, txOld,                    \* transactions/<id>
    out, outOld,                  \* the generated files
    touched,                      \* history: outputs last changed by the user
    stage, stageOld,              \* private staging directory of each target
    planFile, held,               \* each build's .plan and .claim-token files
    nextToken, budget             \* fresh tokens; environment events left

locks == <<regLock, genLock, pubLock>>
stVars == <<st, stOld>>
txVars == <<tx, txOld>>
outVars == <<out, outOld, touched>>
stageVars == <<stage, stageOld>>
disk == <<st, stOld, tx, txOld, out, outOld, touched, stage, stageOld>>
env == <<planFile, held, nextToken, budget>>
vars == <<pc, job, locks, disk, env>>

---------------------------------------------------------------------------
(* Data *)

NoMap == [x \in {} |-> None]
Without(f, S) == Restrict(f, DOMAIN f \ S)
Put(f, x, v) == [y \in DOMAIN f \cup {x} |-> IF y = x THEN v ELSE f[y]]

Plan(b, outs) == [build |-> b, outs |-> outs]
PlanTargets(pl) == IF pl = None THEN {} ELSE {pl.outs[o] : o \in DOMAIN pl.outs}
OutputsOf(pl, t) == {o \in DOMAIN pl.outs : pl.outs[o] = t}

EmptyState == [claim |-> None, snapshot |-> None, plan |-> None, reset |-> None]
NoTx == [ent |-> FALSE, pend |-> None, pay |-> NoMap]
NoTxOld == [ent |-> {FALSE}, pend |-> {None}, pay |-> {NoMap}]
NoJob == [cmd |-> None, build |-> None, plan |-> None, target |-> None,
          token |-> None, publishing |-> FALSE, declared |-> {}, ops |-> NoMap, cur |-> None,
          obs |-> None, txn |-> None, draft |-> None, ret |-> None]

Bytes(cell) == IF cell = None THEN None ELSE cell.bytes
Cell(bytes, inode) == [bytes |-> bytes, inode |-> inode]
SameFile(c, d) == c # None /\ d # None /\ c.inode = d.inode

Pendings == {x \in Txns : tx[x].ent /\ tx[x].pend # None}
(* A delete of an output whose bytes must still be the committed ones. *)
DeleteOps(entries) ==
    [o \in DOMAIN entries |->
        [before |-> entries[o].hash, after |-> None,
         target |-> entries[o].target, transfer |-> None]]

---------------------------------------------------------------------------
(* Control *)

Goto(p, label) == pc' = [pc EXCEPT ![p] = label] /\ UNCHANGED <<job, locks>>
GotoWith(p, label, j) ==
    /\ pc' = [pc EXCEPT ![p] = label]
    /\ job' = [job EXCEPT ![p] = j]
    /\ UNCHANGED locks
Freed(lock, p) == IF lock = p THEN None ELSE lock
(* The process ends, in success or through _fail: every lock is released. *)
Leave(p) ==
    /\ pc' = [pc EXCEPT ![p] = "idle"]
    /\ job' = [job EXCEPT ![p] = NoJob]
    /\ regLock' = Freed(regLock, p)
    /\ genLock' = Freed(genLock, p)
    /\ pubLock' = Freed(pubLock, p)
Require(p, condition, label) == IF condition THEN Goto(p, label) ELSE Leave(p)

(* File operations: a write is visible at once and durable after the sync. *)
WriteState(file, value) ==
    /\ st' = [st EXCEPT ![file] = value]
    /\ stOld' = stOld \cup {st'}
WriteTx(x, new) ==
    /\ tx' = [tx EXCEPT ![x] = new]
    /\ txOld' = [txOld EXCEPT ![x] = [ent |-> @.ent \cup {new.ent},
                                      pend |-> @.pend \cup {new.pend},
                                      pay |-> @.pay \cup {new.pay}]]
(* Syncing transactions/ fixes which directories exist; a directory that is *)
(* durably absent has no durable content.                                   *)
EntriesSynced(old, new) ==
    [x \in Txns |-> IF new[x].ent THEN [old[x] EXCEPT !.ent = {TRUE}] ELSE NoTxOld]
WriteOut(o, cell) ==
    /\ out' = [out EXCEPT ![o] = cell]
    /\ outOld' = [outOld EXCEPT ![o] = @ \cup {cell}]
(* Faulty SyncOut: the directory of the output is not synced. *)
SyncOutSkipped(o) == UNCHANGED <<out, outOld>>
SyncOut(o) == outOld' = [outOld EXCEPT ![o] = {out[o]}] /\ UNCHANGED out

---------------------------------------------------------------------------
(* Commands: what a user or a build starts *)

Spend(event) ==
    /\ budget[event] > 0
    /\ budget' = [budget EXCEPT ![event] = @ - 1]
(* "Stop all builds that can use the output first": the operator's part.   *)
MayBuild == BuildsStopped =>
    /\ st.claim = None \/ st.reset = None
    /\ \A q \in Procs : job[q].cmd # "reset"
MayReset == BuildsStopped => \A q \in Procs : pc[q] = "idle"

Start(p, event, label, j) ==
    /\ pc[p] = "idle"
    /\ Spend(event)
    /\ GotoWith(p, label, j)
    /\ UNCHANGED <<disk, held, nextToken>>

(* finalize_output_plans writes the plan file, then runs reconcile-set. *)
StartConfigure(p, b, outs) ==
    /\ MayBuild
    /\ Start(p, "configures", "reg", [NoJob EXCEPT !.cmd = "configure", !.build = b,
                                     !.plan = Plan(b, outs)])
    /\ planFile' = [planFile EXCEPT ![b] = Plan(b, outs)]
(* A root the build no longer uses is reconciled against an empty plan. *)
StartRetire(p, b) ==
    /\ MayBuild
    /\ planFile[b] # None
    /\ Start(p, "configures", "reg", [NoJob EXCEPT !.cmd = "retire", !.build = b,
                                     !.plan = Plan(b, NoMap)])
    /\ UNCHANGED planFile
StartGenerate(p, b, t) ==
    /\ MayBuild
    /\ t \in PlanTargets(planFile[b])
    /\ Start(p, "generates", "gen", [NoJob EXCEPT !.cmd = "generate", !.build = b, !.target = t])
    /\ UNCHANGED planFile
(* _load_snapshot and _load_recorded_plan: both belong to the claim. *)
SnapshotLoads == st.snapshot # None /\ st.snapshot.token = st.claim.token
PlanLoads == st.plan # None => st.plan.build = st.claim.build
(* plan_for_root reads claim and plan before any lock is taken. *)
StartReset(p, b) ==
    /\ MayReset
    /\ st.claim # None /\ PlanLoads /\ held[b] # None
    /\ Start(p, "resets", "reg", [NoJob EXCEPT !.cmd = "reset", !.build = st.claim.build,
                                     !.token = held[b]])
    /\ UNCHANGED planFile

---------------------------------------------------------------------------
(* Locks, in the order registry, generation, publication *)

AcquireRegistry(p) ==
    /\ pc[p] = "reg" /\ regLock = None
    /\ regLock' = p
    /\ pc' = [pc EXCEPT ![p] = "gen"]
    /\ UNCHANGED <<job, genLock, pubLock, disk, env>>
(* Faulty AcquireGeneration: the lock is taken without looking at its holder. *)
AcquireGenerationHeld(p) ==
    /\ pc[p] = "gen"
    /\ genLock' = p
    /\ pc' = [pc EXCEPT ![p] = IF job[p].cmd = "generate" THEN "spawn" ELSE "pub"]
    /\ UNCHANGED <<job, regLock, pubLock, disk, env>>
AcquireGeneration(p) ==
    /\ pc[p] = "gen" /\ genLock = None
    /\ genLock' = p
    /\ pc' = [pc EXCEPT ![p] = IF job[p].cmd = "generate" THEN "spawn" ELSE "pub"]
    /\ UNCHANGED <<job, regLock, pubLock, disk, env>>
(* validate and publish are children that read the plan file, then lock. *)
SpawnChild(p) ==
    /\ pc[p] = "spawn"
    /\ IF planFile[job[p].build] = None THEN Leave(p)
       ELSE GotoWith(p, "pub", [job[p] EXCEPT !.plan = planFile[job[p].build]])
    /\ UNCHANGED <<disk, env>>
(* Faulty AcquirePublication: the lock is taken without looking at its holder. *)
AcquirePublicationHeld(p) ==
    /\ pc[p] = "pub"
    /\ pubLock' = p
    /\ pc' = [pc EXCEPT ![p] = IF job[p].cmd = "configure" THEN "registry" ELSE "load"]
    /\ UNCHANGED <<job, regLock, genLock, disk, env>>
AcquirePublication(p) ==
    /\ pc[p] = "pub" /\ pubLock = None
    /\ pubLock' = p
    /\ pc' = [pc EXCEPT ![p] = IF job[p].cmd = "configure" THEN "registry" ELSE "load"]
    /\ UNCHANGED <<job, regLock, genLock, disk, env>>

---------------------------------------------------------------------------
(* Claiming the root *)

(* A state directory without a claim is removed whole: rmtree, then sync. *)
ValidateRegistry(p) ==
    /\ pc[p] = "registry"
    /\ IF st.claim # None THEN Require(p, PlanLoads, "load")
       ELSE Goto(p, IF st = EmptyState THEN "load" ELSE "wipe")
    /\ UNCHANGED <<disk, env>>
WipeFile(p, file) ==
    /\ pc[p] = "wipe" /\ st[file] # None
    /\ WriteState(file, None)
    /\ UNCHANGED <<pc, job, locks, txVars, outVars, stageVars, env>>
WipeSync(p) ==
    /\ pc[p] = "wipe" /\ st = EmptyState
    /\ Goto(p, "load")
    /\ stOld' = {st}
    /\ tx' = [x \in Txns |-> NoTx] /\ txOld' = [x \in Txns |-> NoTxOld]
    /\ UNCHANGED <<st, outVars, stageVars, env>>

OwnClaim(p) == st.claim # None /\ st.claim.build = job[p].build
(* Faulty LoadClaim: a reset is not asked for the token of the claim. *)
LoadClaimUnchecked(p) ==
    /\ pc[p] = "load"
    /\ job[p].cmd = "retire" => OwnClaim(p)
    /\ IF job[p].cmd = "configure" /\ st.claim = None THEN Goto(p, "init")
       ELSE Require(p, OwnClaim(p),
                IF job[p].cmd = "reset" /\ st.reset # None THEN "resume" ELSE "recover")
    /\ UNCHANGED <<disk, env>>
LoadClaim(p) ==
    /\ pc[p] = "load"
    /\ job[p].cmd = "retire" => OwnClaim(p)
    /\ IF job[p].cmd = "configure" /\ st.claim = None THEN Goto(p, "init")
       ELSE Require(p,
                OwnClaim(p) /\ (job[p].cmd = "reset" => st.claim.token = job[p].token),
                IF job[p].cmd = "reset" /\ st.reset # None THEN "resume" ELSE "recover")
    /\ UNCHANGED <<disk, env>>
(* The coordinator prints the claim's token, or "released", and exits.      *)
Answer(p, token) ==
    /\ pc' = [pc EXCEPT ![p] = "store"]
    /\ job' = [job EXCEPT ![p].token = token]
    /\ regLock' = Freed(regLock, p)
    /\ genLock' = Freed(genLock, p)
    /\ pubLock' = Freed(pubLock, p)
(* A retired root that is not this build's any more is left alone.          *)
Released(p) ==
    /\ pc[p] = "load" /\ job[p].cmd = "retire" /\ ~OwnClaim(p)
    /\ Answer(p, None)
    /\ UNCHANGED <<disk, env>>
(* Faulty InitSnapshot: the claim follows before the snapshot is durable. *)
InitSnapshotUnsynced(p) ==
    /\ pc[p] = "init"
    /\ WriteState("snapshot", [token |-> nextToken, gen |-> 0, entries |-> NoMap])
    /\ GotoWith(p, "claim", [job[p] EXCEPT !.token = nextToken])
    /\ nextToken' = nextToken + 1
    /\ UNCHANGED <<txVars, outVars, stageVars, planFile, held, budget>>
(* Faulty InitSnapshot: the snapshot is written before the token is drawn. *)
InitSnapshotTokenless(p) ==
    /\ pc[p] = "init"
    /\ WriteState("snapshot", [token |-> job[p].token, gen |-> 0, entries |-> NoMap])
    /\ GotoWith(p, "init_sync", [job[p] EXCEPT !.token = nextToken])
    /\ nextToken' = nextToken + 1
    /\ UNCHANGED <<txVars, outVars, stageVars, planFile, held, budget>>
InitSnapshot(p) ==
    /\ pc[p] = "init"
    /\ WriteState("snapshot", [token |-> nextToken, gen |-> 0, entries |-> NoMap])
    /\ GotoWith(p, "init_sync", [job[p] EXCEPT !.token = nextToken])
    /\ nextToken' = nextToken + 1
    /\ UNCHANGED <<txVars, outVars, stageVars, planFile, held, budget>>
(* The claim is published last, over a durable snapshot. *)
InitClaim(p) ==
    /\ pc[p] = "claim"
    /\ WriteState("claim", [build |-> job[p].build, token |-> job[p].token])
    /\ Goto(p, "claim_sync")
    /\ UNCHANGED <<txVars, outVars, stageVars, env>>

(* The directory sync that ends an _atomic_write or an unlink. *)
AfterSync == [l \in {"init_sync", "claim_sync", "commit_sync", "plan_sync",
                     "intent_sync", "unclaim_sync", "scrub_sync"} |->
    CASE l = "init_sync" -> "claim"
      [] l = "claim_sync" -> "recover"
      [] l = "commit_sync" -> "drop"
      [] l = "plan_sync" -> "return"
      [] l = "intent_sync" -> "purge"
      [] l \in {"unclaim_sync", "scrub_sync"} -> "scrub"]
SyncState(p) ==
    /\ pc[p] \in DOMAIN AfterSync
    /\ stOld' = {st}
    /\ Goto(p, AfterSync[pc[p]])
    /\ UNCHANGED <<st, txVars, outVars, stageVars, env>>

---------------------------------------------------------------------------
(* Recovery: roll the pending transaction forward, then sweep the rest *)

(* Faulty Recover: a pending transaction is swept away with the rest. *)
RecoverRollsBack(p) ==
    /\ pc[p] = "recover"
    /\ Goto(p, "sweep")
    /\ UNCHANGED <<disk, env>>
Recover(p) ==
    /\ pc[p] = "recover"
    /\ IF Pendings = {} THEN
          /\ Goto(p, "sweep")
          /\ UNCHANGED <<stOld, txOld>>
       ELSE IF Cardinality(Pendings) > 1
               \/ \E x \in Pendings : tx[x].pend.plan.build # st.claim.build THEN
          /\ Leave(p)
          /\ UNCHANGED <<stOld, txOld>>
       ELSE \E x \in Pendings :
          /\ GotoWith(p, "apply", [job[p] EXCEPT !.txn = x, !.ret = "sweep"])
          /\ stOld' = {st}
          /\ txOld' = [EntriesSynced(txOld, tx) EXCEPT ![x].pend = {tx[x].pend}]
    /\ UNCHANGED <<st, tx, outVars, stageVars, env>>
(* Faulty Drop: the directory is emptied but not removed, and found again. *)
DropContents(p) ==
    /\ pc[p] = "drop"
    /\ WriteTx(job[p].txn, [NoTx EXCEPT !.ent = TRUE])
    /\ Goto(p, "drop_sync")
    /\ UNCHANGED <<stVars, outVars, stageVars, env>>
(* The rmtree of a transaction takes its payloads and its pending.json in   *)
(* either order, then the directory itself.                                 *)
Drop(p) ==
    /\ pc[p] = "drop"
    /\ LET x == job[p].txn IN
       \/ /\ tx[x].pay # NoMap
          /\ WriteTx(x, [tx[x] EXCEPT !.pay = NoMap])
          /\ Goto(p, "drop")
       \/ /\ tx[x].pend # None
          /\ WriteTx(x, [tx[x] EXCEPT !.pend = None])
          /\ Goto(p, "drop")
       \/ /\ tx[x].pay = NoMap /\ tx[x].pend = None
          /\ WriteTx(x, NoTx)
          /\ Goto(p, "drop_sync")
    /\ UNCHANGED <<stVars, outVars, stageVars, env>>
DropSync(p) ==
    /\ pc[p] = "drop_sync"
    /\ txOld' = EntriesSynced(txOld, tx)
    /\ IF job[p].ret = "fail" THEN Leave(p)
       ELSE GotoWith(p, job[p].ret, [job[p] EXCEPT !.txn = None, !.ret = None])
    /\ UNCHANGED <<tx, stVars, outVars, stageVars, env>>
Sweep(p) ==
    /\ pc[p] = "sweep"
    /\ \E x \in Txns :
       /\ tx[x].ent
       /\ GotoWith(p, "drop", [job[p] EXCEPT !.txn = x, !.ret = "sweep"])
    /\ UNCHANGED <<disk, env>>
(* _require_current_plan: the plan this build was configured with is the   *)
(* one committed for the root.                                              *)
(* Faulty CurrentPlan: publish relies on what validate has seen. *)
CurrentPlanOnce(p) == job[p].publishing \/ st.plan = job[p].plan
(* Faulty CurrentPlan: any plan of the same build will do. *)
CurrentPlanOfBuild(p) == st.plan # None /\ st.plan.build = job[p].plan.build
CurrentPlan(p) == st.plan = job[p].plan
Proceed(p) ==
    CASE job[p].cmd \in {"configure", "retire"} ->
            Require(p, SnapshotLoads /\ PlanLoads, "retire")
      [] job[p].cmd = "reset" ->
            Require(p, SnapshotLoads /\ PlanLoads, "intent")
      [] OTHER ->
            Require(p, CurrentPlan(p) /\ (job[p].publishing => SnapshotLoads),
                       IF job[p].publishing THEN "prepare" ELSE "validated")
Recovered(p) ==
    /\ pc[p] = "sweep" /\ \A x \in Txns : ~tx[x].ent
    /\ Proceed(p)
    /\ UNCHANGED <<disk, env>>

---------------------------------------------------------------------------
(* Applying the pending transaction *)

(* The snapshot entries that a transaction's operations lead to. *)
NextEntries(entries, ops) ==
    LET added == {o \in DOMAIN ops : ops[o].after # None}
        moved == {o \in DOMAIN ops : ops[o].transfer # None}
        heirs == {ops[o].transfer.path : o \in moved}
        source(d) == CHOOSE o \in moved : ops[o].transfer.path = d
    IN [o \in (DOMAIN entries \ DOMAIN ops) \cup added \cup heirs |->
          IF o \in added THEN [hash |-> ops[o].after, target |-> ops[o].target]
          ELSE IF o \in heirs THEN [hash |-> ops[source(o)].before,
                                    target |-> ops[source(o)].target]
          ELSE entries[o]]
Pending(b, outs, ops) ==
    [base |-> st.snapshot.gen, entries |-> ops, plan |-> Plan(b, outs),
     snap |-> [token |-> st.claim.token, gen |-> st.snapshot.gen + 1,
               entries |-> NextEntries(st.snapshot.entries, ops)]]
HashIn(entries, o) == IF o \in DOMAIN entries THEN entries[o].hash ELSE None

(* The hard-linked heir of a retired output is still the same unchanged file. *)
TransferHolds(op) == op.transfer = None \/
    LET cell == out[op.transfer.path] IN
    cell # None /\ cell.inode = op.transfer.inode /\ cell.bytes = op.before
ValidOp(o, op, pd, pay) ==
    /\ op.before = HashIn(st.snapshot.entries, o)
    /\ IF op.after # None
       THEN /\ o \in DOMAIN pd.plan.outs /\ pd.plan.outs[o] = op.target
            /\ o \in DOMAIN pay /\ pay[o] = op.after
       ELSE /\ o \in DOMAIN st.snapshot.entries /\ o \notin DOMAIN pd.plan.outs
            /\ op.transfer = None => op.target = st.snapshot.entries[o].target
            /\ TransferHolds(op)
            /\ op.transfer # None =>
                 /\ op.transfer.path \notin DOMAIN st.snapshot.entries
                 /\ op.transfer.path \in OutputsOf(pd.plan, op.target)
ValidPending(x) ==
    LET pd == tx[x].pend IN
    /\ pd.base = st.snapshot.gen
    /\ \A o \in DOMAIN pd.entries : ValidOp(o, pd.entries[o], pd, tx[x].pay)
    /\ pd.snap.entries = NextEntries(st.snapshot.entries, pd.entries)
Heirs(ops) == {ops[o].transfer.path : o \in {q \in DOMAIN ops : ops[q].transfer # None}}

PendingLoads(pd) == pd.snap.token = st.claim.token /\ pd.snap.gen = pd.base + 1

ApplyPending(p) ==
    /\ pc[p] = "apply"
    /\ LET pd == tx[job[p].txn].pend IN
       IF ~SnapshotLoads \/ ~PendingLoads(pd) THEN Leave(p) /\ UNCHANGED touched
       ELSE IF st.snapshot.gen = pd.snap.gen THEN
          /\ Require(p, st.snapshot = pd.snap, "commit_sync")
          /\ UNCHANGED touched
       ELSE IF ValidPending(job[p].txn) THEN
          /\ GotoWith(p, "output", [job[p] EXCEPT !.ops = pd.entries])
          /\ touched' = touched \ Heirs(pd.entries)
       ELSE Leave(p) /\ UNCHANGED touched
    /\ UNCHANGED <<stVars, txVars, out, outOld, stageVars, env>>

(* _publish_one and _delete_if_state: look at the destination, act on it,  *)
(* sync its directory.  An absent committed output is repaired; an output   *)
(* already as wanted is only synced; any other bytes stop the transaction.  *)
AsWanted(op, cell) == Bytes(cell) = op.after
(* Faulty Replaceable: whatever is there is replaced. *)
ReplaceableAlways(op, cell) == TRUE
Replaceable(op, cell) == cell = None \/ cell.bytes = op.before
(* Faulty CheckOutput: an output already as wanted is taken to be durable. *)
CheckOutputTrusting(p) ==
    /\ pc[p] = "output"
    /\ \E o \in DOMAIN job[p].ops :
       LET op == job[p].ops[o]
           seen == [job[p] EXCEPT !.cur = o, !.obs = Bytes(out[o])]
       IN IF ~TransferHolds(op) THEN Leave(p)
          ELSE IF AsWanted(op, out[o])
               THEN GotoWith(p, "output", [job[p] EXCEPT !.ops = Without(@, {o})])
          ELSE IF Replaceable(op, out[o]) THEN GotoWith(p, "act", seen)
          ELSE Leave(p)
    /\ UNCHANGED <<disk, env>>
CheckOutput(p) ==
    /\ pc[p] = "output"
    /\ \E o \in DOMAIN job[p].ops :
       LET op == job[p].ops[o]
           seen == [job[p] EXCEPT !.cur = o, !.obs = Bytes(out[o])]
       IN IF ~TransferHolds(op) THEN Leave(p)
          ELSE IF AsWanted(op, out[o]) THEN GotoWith(p, "out_sync", seen)
          ELSE IF Replaceable(op, out[o]) THEN GotoWith(p, "act", seen)
          ELSE Leave(p)
    /\ UNCHANGED <<disk, env>>
ActOnOutput(p) ==
    /\ pc[p] = "act"
    /\ LET o == job[p].cur
           after == job[p].ops[o].after
       IN /\ WriteOut(o, IF after = None THEN None ELSE Cell(after, o))
          /\ touched' = touched \ {o}
    /\ Goto(p, "out_sync")
    /\ UNCHANGED <<stVars, txVars, stageVars, env>>
SyncOutput(p) ==
    /\ pc[p] = "out_sync"
    /\ SyncOut(job[p].cur)
    /\ GotoWith(p, "output", [job[p] EXCEPT !.ops = Without(@, {job[p].cur}),
                                            !.cur = None, !.obs = None])
    /\ UNCHANGED <<stVars, txVars, touched, stageVars, env>>
(* A reset deletes outputs outside any transaction. *)
OutputsDone(p) ==
    /\ pc[p] = "output" /\ DOMAIN job[p].ops = {}
    /\ Goto(p, IF job[p].txn = None THEN "unstage" ELSE "snap")
    /\ UNCHANGED <<disk, env>>
CommitSnapshot(p) ==
    /\ pc[p] = "snap"
    /\ WriteState("snapshot", tx[job[p].txn].pend.snap)
    /\ Goto(p, "commit_sync")
    /\ UNCHANGED <<txVars, outVars, stageVars, env>>

(* _durable_mkdir of a new transaction directory syncs the state directory *)
(* and transactions/ on its way down.                                       *)
MakeTransaction(x) ==
    /\ TRUE \notin txOld[x].ent
    /\ tx' = [tx EXCEPT ![x] = [NoTx EXCEPT !.ent = TRUE]]
    /\ txOld' = EntriesSynced([txOld EXCEPT ![x] = NoTxOld], tx')
    /\ stOld' = {st}
    /\ UNCHANGED st
WritePending(p) ==
    /\ pc[p] = "pend"
    /\ WriteTx(job[p].txn, [tx[job[p].txn] EXCEPT !.pend = job[p].draft])
    /\ Goto(p, "pend_sync")
    /\ UNCHANGED <<stVars, outVars, stageVars, env>>
SyncPending(p) ==
    /\ pc[p] = "pend_sync"
    /\ txOld' = [txOld EXCEPT ![job[p].txn].pend = {tx[job[p].txn].pend}]
    /\ GotoWith(p, "apply", [job[p] EXCEPT !.draft = None,
           !.ret = IF job[p].cmd = "generate" THEN "verify" ELSE "unstage"])
    /\ UNCHANGED <<tx, stVars, outVars, stageVars, env>>

---------------------------------------------------------------------------
(* One generation: validate, discard staging, protoc, publish *)

(* validate succeeded: its child exits and releases the publication lock. *)
Validated(p) ==
    /\ pc[p] = "validated"
    /\ pubLock' = Freed(pubLock, p)
    /\ pc' = [pc EXCEPT ![p] = "stage"]
    /\ UNCHANGED <<job, regLock, genLock, disk, env>>
(* target-outputs refuses a target without outputs before staging is touched. *)
RebuildStaging(p) ==
    /\ pc[p] = "stage"
    /\ IF job[p].target \in PlanTargets(planFile[job[p].build]) THEN
          /\ stage' = [stage EXCEPT ![job[p].target] = NoMap]
          /\ stageOld' = stageOld \cup {job[p].target}
          /\ GotoWith(p, "protoc", [job[p] EXCEPT !.declared =
                 OutputsOf(planFile[job[p].build], job[p].target)])
       ELSE Leave(p) /\ UNCHANGED stageVars
    /\ UNCHANGED <<stVars, txVars, outVars, env>>
(* protoc writes what the build generates now, and no declared output may   *)
(* be missing; or it fails or times out, and staging is discarded.          *)
Protoc(p) ==
    /\ pc[p] = "protoc"
    /\ LET b == job[p].build
           t == job[p].target
       IN \/ /\ stage[t] # None /\ t \in PlanTargets(planFile[b])
             /\ job[p].declared \subseteq OutputsOf(planFile[b], t)
             /\ \E c \in Contents :
                  stage' = [stage EXCEPT ![t] = [o \in OutputsOf(planFile[b], t) |-> c]]
             /\ GotoWith(p, "spawn", [job[p] EXCEPT !.publishing = TRUE])
          \/ /\ Goto(p, "cleanup")
             /\ UNCHANGED stage
    /\ UNCHANGED <<stVars, txVars, outVars, stageOld, env>>
Prepare(p) ==
    /\ pc[p] = "prepare"
    /\ IF job[p].target \in PlanTargets(job[p].plan) THEN
          \E x \in Txns :
            /\ MakeTransaction(x)
            /\ GotoWith(p, "payload", [job[p] EXCEPT !.txn = x])
       ELSE Leave(p) /\ UNCHANGED <<stVars, txVars>>
    /\ UNCHANGED <<outVars, stageVars, env>>
Outputs(p) == OutputsOf(job[p].plan, job[p].target)
(* Each staged output is copied once its destination is seen to be absent  *)
(* or still the committed bytes; otherwise the transaction is abandoned.    *)
Publishable(o, t) ==
    /\ stage[t] # None /\ o \in DOMAIN stage[t]
    /\ out[o] = None \/ out[o].bytes = HashIn(st.snapshot.entries, o)
CopyPayload(p) ==
    /\ pc[p] = "payload"
    /\ LET x == job[p].txn
           t == job[p].target
       IN \E o \in Outputs(p) \ DOMAIN tx[x].pay :
          IF Publishable(o, t)
          THEN /\ WriteTx(x, [tx[x] EXCEPT !.pay = Put(@, o, stage[t][o])])
               /\ Goto(p, "payload")
          ELSE /\ GotoWith(p, "drop", [job[p] EXCEPT !.ret = "fail"])
               /\ UNCHANGED txVars
    /\ UNCHANGED <<stVars, outVars, stageVars, env>>
PublishOps(p) ==
    [o \in Outputs(p) |->
        [before |-> HashIn(st.snapshot.entries, o),
         after |-> tx[job[p].txn].pay[o],
         target |-> job[p].target, transfer |-> None]]
(* Faulty SyncPayloads: pending.json is written over volatile payloads. *)
SyncPayloadsSkipped(p) ==
    /\ pc[p] = "payload" /\ Outputs(p) \subseteq DOMAIN tx[job[p].txn].pay
    /\ GotoWith(p, "pend", [job[p] EXCEPT
           !.draft = Pending(job[p].build, job[p].plan.outs, PublishOps(p))])
    /\ UNCHANGED <<txVars, stVars, outVars, stageVars, env>>
SyncPayloads(p) ==
    /\ pc[p] = "payload" /\ Outputs(p) \subseteq DOMAIN tx[job[p].txn].pay
    /\ txOld' = [txOld EXCEPT ![job[p].txn].pay = {tx[job[p].txn].pay}]
    /\ GotoWith(p, "pend", [job[p] EXCEPT
           !.draft = Pending(job[p].build, job[p].plan.outs, PublishOps(p))])
    /\ UNCHANGED <<tx, stVars, outVars, stageVars, env>>
(* publish returns success only when every output has the published bytes. *)
Verify(p) ==
    /\ pc[p] = "verify"
    /\ IF \A o \in Outputs(p) : Bytes(out[o]) = HashIn(st.snapshot.entries, o)
       THEN /\ pc' = [pc EXCEPT ![p] = "published"]
            /\ pubLock' = Freed(pubLock, p)
            /\ UNCHANGED <<job, regLock, genLock>>
       ELSE Leave(p)
    /\ UNCHANGED <<disk, env>>
(* The generation fails, and keeps its staging, if an output is gone again. *)
CheckPublished(p) ==
    /\ pc[p] = "published"
    /\ Require(p, \A o \in job[p].declared : out[o] # None, "cleanup")
    /\ UNCHANGED <<disk, env>>
DiscardStaging(p) ==
    /\ pc[p] = "cleanup"
    /\ stage' = [stage EXCEPT ![job[p].target] = None]
    /\ Leave(p)
    /\ UNCHANGED <<stVars, txVars, outVars, stageOld, env>>

---------------------------------------------------------------------------
(* Reconfiguration: retire unplanned outputs, then staging, then commit *)

(* Committed outputs the new plan drops.  A modified one stays recorded.    *)
(* Faulty Retired: only the outputs of targets that left the plan. *)
RetiredOfGoneTargets(p) ==
    {o \in DOMAIN st.snapshot.entries :
        /\ st.snapshot.entries[o].target \notin PlanTargets(job[p].plan)
        /\ out[o] = None \/ out[o].bytes = st.snapshot.entries[o].hash}
Retired(p) ==
    {o \in DOMAIN st.snapshot.entries \ DOMAIN job[p].plan.outs :
        out[o] = None \/ out[o].bytes = st.snapshot.entries[o].hash}
(* Newly planned outputs that the user hard-linked to a retired one.        *)
Linked(p, o) ==
    {d \in DOMAIN job[p].plan.outs \ DOMAIN st.snapshot.entries :
        SameFile(out[o], out[d])}
RetireOps(p) ==
    LET heir(o) == CHOOSE d \in Linked(p, o) : TRUE
        first(d) == CHOOSE o \in Retired(p) : d \in Linked(p, o)
        gives(o) == Linked(p, o) # {} /\ first(heir(o)) = o
    IN [o \in Retired(p) |->
        [before |-> st.snapshot.entries[o].hash,
         after |-> None,
         target |-> IF gives(o) THEN job[p].plan.outs[heir(o)]
                    ELSE st.snapshot.entries[o].target,
         transfer |-> IF gives(o) THEN [path |-> heir(o), inode |-> out[o].inode]
                      ELSE None]]
RetireUnplanned(p) ==
    /\ pc[p] = "retire"
    /\ IF \E o \in Retired(p) : Cardinality(Linked(p, o)) > 1 THEN
          Leave(p) /\ UNCHANGED <<stVars, txVars>>
       ELSE IF Retired(p) = {} THEN
          Goto(p, "unstage") /\ UNCHANGED <<stVars, txVars>>
       ELSE \E x \in Txns :
          /\ MakeTransaction(x)
          /\ GotoWith(p, "pend", [job[p] EXCEPT !.txn = x,
                !.draft = Pending(job[p].build, job[p].plan.outs, RetireOps(p))])
    /\ UNCHANGED <<outVars, stageVars, env>>
(* Staging of targets that left the plan, or all that a reset recorded. *)
(* Faulty LeavingTargets: the difference taken the wrong way round. *)
JoiningTargets(p) == PlanTargets(job[p].plan) \ PlanTargets(st.plan)
LeavingTargets(p) == IF job[p].cmd = "reset" THEN st.reset.targets
                     ELSE PlanTargets(st.plan) \ PlanTargets(job[p].plan)
RemoveStaging(p) ==
    /\ pc[p] = "unstage"
    /\ stage' = [t \in Targets |-> IF t \in LeavingTargets(p) THEN None ELSE stage[t]]
    /\ Goto(p, "unstage_sync")
    /\ UNCHANGED <<stVars, txVars, outVars, stageOld, env>>
SyncStaging(p) ==
    /\ pc[p] = "unstage_sync"
    /\ stageOld' = {t \in stageOld : t \in LeavingTargets(p) => stage[t] # None}
    /\ Goto(p, IF job[p].cmd = "reset" THEN "disposable" ELSE "plan")
    /\ UNCHANGED <<stVars, txVars, outVars, stage, env>>
WritePlan(p) ==
    /\ pc[p] = "plan"
    /\ WriteState("plan", job[p].plan)
    /\ Goto(p, "plan_sync")
    /\ UNCHANGED <<txVars, outVars, stageVars, env>>
ReturnToken(p) ==
    /\ pc[p] = "return"
    /\ Answer(p, st.claim.token)
    /\ UNCHANGED <<disk, env>>
(* CMake stores the token beside the plan file, which a retirement replaces *)
(* by the empty one, or forgets a released root.                            *)
StoreToken(p) ==
    /\ pc[p] = "store"
    /\ held' = [held EXCEPT ![job[p].build] = job[p].token]
    /\ planFile' = IF job[p].cmd = "configure" THEN planFile
                   ELSE [planFile EXCEPT ![job[p].build] =
                            IF job[p].token = None THEN None ELSE job[p].plan]
    /\ Leave(p)
    /\ UNCHANGED <<disk, nextToken, budget>>

---------------------------------------------------------------------------
(* Reset: durable intent, outputs, staging, transactions, claim, the rest *)

(* Every recorded output is absent or unmodified and nothing else in the   *)
(* root looks generated.                                                    *)
CleanInventory ==
    \A o \in Paths : out[o] = None \/ out[o].bytes = HashIn(st.snapshot.entries, o)
(* Faulty WriteResetIntent: the intent is not synced before it is acted on. *)
WriteResetIntentUnsynced(p) ==
    /\ pc[p] = "intent"
    /\ IF CleanInventory THEN
          /\ WriteState("reset", [token |-> st.claim.token,
                                  entries |-> st.snapshot.entries,
                                  targets |-> PlanTargets(st.plan)])
          /\ Goto(p, "purge")
       ELSE Leave(p) /\ UNCHANGED stVars
    /\ UNCHANGED <<txVars, outVars, stageVars, env>>
WriteResetIntent(p) ==
    /\ pc[p] = "intent"
    /\ IF CleanInventory THEN
          /\ WriteState("reset", [token |-> st.claim.token,
                                  entries |-> st.snapshot.entries,
                                  targets |-> PlanTargets(st.plan)])
          /\ Goto(p, "intent_sync")
       ELSE Leave(p) /\ UNCHANGED stVars
    /\ UNCHANGED <<txVars, outVars, stageVars, env>>
IntentMatches ==
    /\ st.reset.token = st.claim.token
    /\ st.reset.entries = st.snapshot.entries
    /\ st.reset.targets = PlanTargets(st.plan)
(* A reset that finds an intent resumes it, without recovering first. *)
ResumeReset(p) ==
    /\ pc[p] = "resume"
    /\ Require(p, SnapshotLoads /\ PlanLoads /\ IntentMatches, "purge")
    /\ UNCHANGED <<disk, env>>
Purge(p) ==
    /\ pc[p] = "purge"
    /\ GotoWith(p, "output", [job[p] EXCEPT !.ops = DeleteOps(st.reset.entries)])
    /\ UNCHANGED <<disk, env>>
(* Faulty RemoveDisposable: the state goes before the claim. *)
RemoveDisposableAndState(p) ==
    /\ pc[p] = "disposable"
    /\ tx' = [x \in Txns |-> NoTx] /\ txOld' = [x \in Txns |-> NoTxOld]
    /\ Goto(p, "scrub")
    /\ UNCHANGED <<stVars, outVars, stageVars, env>>
RemoveDisposable(p) ==
    /\ pc[p] = "disposable"
    /\ tx' = [x \in Txns |-> NoTx] /\ txOld' = [x \in Txns |-> NoTxOld]
    /\ Goto(p, "unclaim")
    /\ UNCHANGED <<stVars, outVars, stageVars, env>>
Unclaim(p) ==
    /\ pc[p] = "unclaim"
    /\ WriteState("claim", None)
    /\ Goto(p, "unclaim_sync")
    /\ UNCHANGED <<txVars, outVars, stageVars, env>>
ScrubOrder == <<"plan", "snapshot", "reset">>
Scrub(p) ==
    /\ pc[p] = "scrub"
    /\ \E i \in 1..3 :
       /\ st[ScrubOrder[i]] # None /\ \A k \in 1..(i - 1) : st[ScrubOrder[k]] = None
       /\ WriteState(ScrubOrder[i], None)
    /\ Goto(p, "scrub_sync")
    /\ UNCHANGED <<txVars, outVars, stageVars, env>>
RemoveState(p) ==
    /\ pc[p] = "scrub" /\ st = EmptyState
    /\ stOld' = {st}
    /\ Leave(p)
    /\ UNCHANGED <<st, txVars, outVars, stageVars, env>>

---------------------------------------------------------------------------
(* The environment *)

(* A process and its children die; the system releases their locks. *)
Kill(p) ==
    /\ pc[p] # "idle"
    /\ Spend("kills")
    /\ Leave(p)
    /\ UNCHANGED <<disk, planFile, held, nextToken>>
(* Only run-generation dies: its child goes on without the generation lock. *)
ParentDies(p) ==
    /\ job[p].cmd = "generate" /\ genLock = p
    /\ Spend("orphans")
    /\ genLock' = None
    /\ UNCHANGED <<pc, job, regLock, pubLock, disk, planFile, held, nextToken>>

(* What a loss of power may leave of the state directory: the state at some *)
(* moment since the last sync or, where the file system reorders, each      *)
(* entry as it was at some moment of its own.                               *)
StateSurvivors ==
    IF ~Reorder THEN stOld
    ELSE [claim : {s.claim : s \in stOld}, snapshot : {s.snapshot : s \in stOld},
          plan : {s.plan : s \in stOld}, reset : {s.reset : s \in stOld}]
TxSurvivors(x) ==
    {IF e THEN [ent |-> TRUE, pend |-> d, pay |-> y] ELSE NoTx :
        e \in txOld[x].ent, d \in txOld[x].pend, y \in txOld[x].pay}
Survived(r) == [ent |-> {r.ent}, pend |-> {r.pend}, pay |-> {r.pay}]
PowerLoss ==
    /\ Spend("losses")
    /\ pc' = [p \in Procs |-> "idle"] /\ job' = [p \in Procs |-> NoJob]
    /\ regLock' = None /\ genLock' = None /\ pubLock' = None
    /\ \E s \in StateSurvivors : st' = s /\ stOld' = {s}
    /\ \E r \in [Txns -> UNION {TxSurvivors(x) : x \in Txns}] :
       /\ \A x \in Txns : r[x] \in TxSurvivors(x)
       /\ tx' = r /\ txOld' = [x \in Txns |-> Survived(r[x])]
    /\ \E f \in [Paths -> UNION {outOld[o] : o \in Paths}] :
       /\ \A o \in Paths : f[o] \in outOld[o]
       /\ out' = f /\ outOld' = [o \in Paths |-> {f[o]}]
    /\ \E S \in SUBSET stageOld :
       /\ stage' = [t \in Targets |-> IF t \in S THEN NoMap ELSE None]
       /\ stageOld' = S
    /\ UNCHANGED <<touched, planFile, held, nextToken>>

(* What the user does to an output is durable at once. *)
UserSets(changes) ==
    /\ Spend("edits")
    /\ out' = [o \in Paths |-> IF o \in DOMAIN changes THEN changes[o] ELSE out[o]]
    /\ outOld' = [o \in Paths |-> IF o \in DOMAIN changes THEN {changes[o]} ELSE outOld[o]]
    /\ UNCHANGED <<pc, job, locks, stVars, txVars, stageVars, planFile, held, nextToken>>
UserWrites(o) ==
    UserSets([q \in {o} |-> Cell(Foreign, o)]) /\ touched' = touched \cup {o}
UserDeletes(o) ==
    /\ out[o] # None
    /\ UserSets([q \in {o} |-> None]) /\ touched' = touched \cup {o}
UserLinks(o, d) ==
    /\ out[o] # None /\ out[d] = None
    /\ \A q \in Paths : \A c \in outOld[q] : c # None => c.inode # Shared
    /\ UserSets([q \in {o, d} |-> Cell(out[o].bytes, Shared)])
    /\ touched' = touched \cup {d}

---------------------------------------------------------------------------
(* Specification *)

Init ==
    /\ pc = [p \in Procs |-> "idle"] /\ job = [p \in Procs |-> NoJob]
    /\ regLock = None /\ genLock = None /\ pubLock = None
    /\ st = EmptyState /\ stOld = {EmptyState}
    /\ tx = [x \in Txns |-> NoTx] /\ txOld = [x \in Txns |-> NoTxOld]
    /\ out = [o \in Paths |-> None] /\ outOld = [o \in Paths |-> {None}]
    /\ touched = {}
    /\ stage = [t \in Targets |-> None] /\ stageOld = {}
    /\ planFile = [b \in Builds |-> None] /\ held = [b \in Builds |-> None]
    /\ nextToken = 1 /\ budget \in Budgets

Locking(p) ==
    \/ AcquireRegistry(p) \/ AcquireGeneration(p)
    \/ SpawnChild(p) \/ AcquirePublication(p)
Claiming(p) ==
    \/ ValidateRegistry(p) \/ (\E file \in DOMAIN EmptyState : WipeFile(p, file))
    \/ WipeSync(p) \/ LoadClaim(p) \/ Released(p) \/ InitSnapshot(p) \/ InitClaim(p) \/ SyncState(p)
Recovering(p) ==
    \/ Recover(p) \/ Drop(p) \/ DropSync(p) \/ Sweep(p) \/ Recovered(p)
Applying(p) ==
    \/ WritePending(p) \/ SyncPending(p) \/ ApplyPending(p) \/ CheckOutput(p)
    \/ ActOnOutput(p) \/ SyncOutput(p) \/ OutputsDone(p) \/ CommitSnapshot(p)
Generating(p) ==
    \/ Validated(p) \/ RebuildStaging(p) \/ Protoc(p) \/ Prepare(p) \/ CopyPayload(p)
    \/ SyncPayloads(p) \/ Verify(p) \/ CheckPublished(p) \/ DiscardStaging(p)
Configuring(p) ==
    \/ RetireUnplanned(p) \/ RemoveStaging(p) \/ SyncStaging(p)
    \/ WritePlan(p) \/ ReturnToken(p) \/ StoreToken(p)
Resetting(p) ==
    \/ WriteResetIntent(p) \/ ResumeReset(p) \/ Purge(p) \/ RemoveDisposable(p)
    \/ Unclaim(p) \/ Scrub(p) \/ RemoveState(p)
Step(p) ==
    \/ Locking(p) \/ Claiming(p) \/ Recovering(p) \/ Applying(p)
    \/ Generating(p) \/ Configuring(p) \/ Resetting(p)

Starting(p) ==
    \/ \E b \in Builds, outs \in Plans : StartConfigure(p, b, outs)
    \/ \E b \in Builds : StartRetire(p, b) \/ StartReset(p, b)
    \/ \E b \in Builds, t \in Targets : StartGenerate(p, b, t)
UserStep ==
    \/ \E o \in Paths : UserWrites(o) \/ UserDeletes(o)
    \/ \E o, d \in Paths : UserLinks(o, d)
(* Nobody is running anything: the one way the system may stand still. *)
AtRest == (\A p \in Procs : pc[p] = "idle") /\ UNCHANGED vars
Next ==
    \/ \E p \in Procs : Starting(p) \/ Step(p) \/ Kill(p) \/ ParentDies(p)
    \/ PowerLoss \/ UserStep \/ AtRest

Spec == Init /\ [][Next]_vars
(* The operating system runs every process that can run. *)
FairSpec == Spec /\ \A p \in Procs : WF_vars(Step(p))
============================================================================
