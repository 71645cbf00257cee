------------------------- MODULE OutputReleaseProofs -------------------------
(***************************************************************************)
(* What becomes of a root that is reset, once the operator has stopped its  *)
(* builds: an interrupted reset can be resumed, through resets, builds and  *)
(* losses of power the root is the abstract store of OutputStore, and a     *)
(* root that is given up holds no file the coordinator wrote.               *)
(***************************************************************************)
EXTENDS OutputDurabilityProofs, OutputRefinement

---------------------------------------------------------------------------
(* An interrupted reset can be resumed *)

(* The intent of a claimed root is about the state it lies beside.          *)
Matches(s) ==
    s.claim # None /\ s.reset # None =>
        /\ s.reset.token = s.claim.token
        /\ s.reset.entries = s.snapshot.entries
        /\ s.reset.targets = PlanTargets(s.plan)

(* A reset recovers only if it found no intent, and clears the state only   *)
(* after the claim.                                                         *)
Recovery == {"recover", "sweep", "drop", "drop_sync", "apply", "snap", "commit_sync", "intent"}
Unclaiming == {"unclaim_sync", "scrub", "scrub_sync"}
Settling == {"init", "init_sync", "claim"}
Resuming(label, j) ==
    /\ label = "load" /\ j.cmd = "configure" => st.claim # None \/ st.reset = None
    /\ label \in Settling => st.reset = None
    /\ label \in Unclaiming => st.claim = None
    /\ label \in Recovery /\ j.cmd = "reset" => st.reset = None
    /\ label \in AtOutput /\ j.txn # None /\ j.cmd = "reset" => st.reset = None
    /\ label \in {"pend", "pend_sync", "claim_sync"} => j.cmd # "reset"
    /\ label = "intent" => j.cmd = "reset"
Ready(p) == Resuming(pc[p], job[p])
Resumable == (\A p \in Procs : Ready(p)) /\ \A s \in stOld : Matches(s)
ResetInv == TypeInv /\ ClaimInv /\ Stopped /\ Resumable

(* Every step of a command keeps what it relies on to resume a reset.       *)
LEMMA StepKeepsResuming ==
    ASSUME TypeInv, ClaimInv, NEW p \in Procs, Step(p), Ready(p)
    PROVE  Ready(p)'
<1>0. /\ pc \in [Procs -> Labels] /\ job \in [Procs -> JobRecords] /\ job[p] \in JobRecords
      /\ LocalOK(pc[p], job[p]) /\ StateType /\ KnowsClaim(pc[p], job[p])
      /\ Resuming(pc[p], job[p])
  BY DEF Ready, TypeInv, TypeOK, ControlType, Shape, ClaimInv
<1> DEFINE Same(j) == j.cmd = job[p].cmd /\ j.txn = job[p].txn
           Open == {"spawn", "pub", "gen", "registry", "stage", "protoc", "cleanup", "idle", "reg",
                    "published", "validated", "prepare", "payload", "verify", "retire", "unstage",
                    "unstage_sync", "plan", "plan_sync", "return", "store", "intent_sync",
                    "resume", "purge", "disposable", "unclaim", "wipe"}
<1>o. \A label \in Open : \A j : Resuming(label, j)
  BY DEF Resuming, Settling, Unclaiming, Recovery, AtOutput
<1>a. \A label : Goto(p, label) /\ st' = st /\ Resuming(label, job[p]) => Ready(p)'
  BY <1>0 DEF Ready, Goto, Resuming
<1>a2. \A label \in Open : Goto(p, label) => Ready(p)'
  BY <1>0 DEF Ready, Goto, Resuming, Settling, Unclaiming, Recovery, AtOutput
<1>b. Leave(p) => Ready(p)'
  BY <1>0 DEF Ready, Leave, Resuming, Settling, Unclaiming, Recovery, AtOutput
<1>c. \A label, j : GotoWith(p, label, j) /\ st' = st /\ Resuming(label, j) => Ready(p)'
  BY <1>0 DEF Ready, GotoWith, Resuming
<1>p. pc'[p] \in Open => Ready(p)'
  BY DEF Ready, Resuming, Settling, Unclaiming, Recovery, AtOutput
<1>r. \A condition : \A label \in Open : Require(p, condition, label) => Ready(p)'
  BY <1>a2, <1>b DEF Require
<1>m. \A label \in Recovery \ {"intent"} : \A j :
         pc[p] \in Recovery /\ j.cmd = job[p].cmd => Resuming(label, j)
  BY <1>0 DEF Resuming, Settling, Unclaiming, Recovery, AtOutput
<1>n. \A label \in AtOutput : \A j :
         /\ pc[p] \in Recovery \cup AtOutput /\ j.cmd = job[p].cmd
         /\ pc[p] \in AtOutput => j.txn = job[p].txn
         => Resuming(label, j)
  BY <1>0 DEF Resuming, Settling, Unclaiming, Recovery, AtOutput
<1>g. \A label \in {"pend", "pend_sync"} : \A j : j.cmd # "reset" => Resuming(label, j)
  BY DEF Resuming, Settling, Unclaiming, Recovery, AtOutput
<1>j1. \A v, w : [job[p] EXCEPT !.txn = v, !.ret = w].cmd = job[p].cmd
  BY <1>0 DEF JobRecords
<1>j2. \A v : Same([job[p] EXCEPT !.ops = v])
  BY <1>0 DEF JobRecords
<1>j3. \A v, w : Same([job[p] EXCEPT !.cur = v, !.obs = w])
  BY <1>0 DEF JobRecords
<1>j4. \A u, v, w : Same([job[p] EXCEPT !.ops = u, !.cur = v, !.obs = w])
  BY <1>0 DEF JobRecords
<1>j5. \A v, w : [job[p] EXCEPT !.draft = v, !.ret = w].cmd = job[p].cmd
  BY <1>0 DEF JobRecords
<1>j6. \A v : [job[p] EXCEPT !.ret = v].cmd = job[p].cmd
  BY <1>0 DEF JobRecords
<1>j7. \A v : [job[p] EXCEPT !.draft = v].cmd = job[p].cmd
  BY <1>0 DEF JobRecords
<1>j8. \A v, w : [job[p] EXCEPT !.txn = v, !.draft = w].cmd = job[p].cmd
  BY <1>0 DEF JobRecords
<1> HIDE DEF Same
<1>1. CASE Locking(p)
  <2>1. CASE AcquireRegistry(p) \/ AcquireGeneration(p)
    BY <1>0, <1>p, <2>1 DEF AcquireRegistry, AcquireGeneration
  <2>2. CASE SpawnChild(p)
    BY <1>b, <1>c, <1>o, <2>2 DEF SpawnChild, disk, stVars
  <2>3. CASE AcquirePublication(p)
    <3>1. CASE job[p].cmd = "configure"
      BY <1>0, <1>p, <2>3, <3>1 DEF AcquirePublication
    <3>2. CASE job[p].cmd # "configure"
      <4>1. pc'[p] = "load" /\ job'[p] = job[p]
        BY <1>0, <2>3, <3>2 DEF AcquirePublication
      <4> QED BY <3>2, <4>1 DEF Ready, Resuming, Settling, Unclaiming, Recovery, AtOutput
    <3> QED BY <3>1, <3>2
  <2> QED BY <1>1, <2>1, <2>2, <2>3 DEF Locking
<1>2. CASE Claiming(p)
  <2>1. CASE ValidateRegistry(p)
    <3>1. st' = st
      BY <2>1 DEF ValidateRegistry, disk, stVars
    <3>2. CASE st.claim # None
      <4>1. Resuming("load", job[p])
        BY <3>2 DEF Resuming, Settling, Unclaiming, Recovery, AtOutput
      <4> QED BY <1>a, <1>b, <2>1, <3>1, <3>2, <4>1 DEF ValidateRegistry, Require
    <3>3. CASE st.claim = None
      <4>1. st = EmptyState => Resuming("load", job[p])
        BY DEF EmptyState, Resuming, Settling, Unclaiming, Recovery, AtOutput
      <4> QED BY <1>a, <1>a2, <2>1, <3>1, <3>3, <4>1 DEF ValidateRegistry
    <3> QED BY <3>2, <3>3
  <2>2. ASSUME NEW file \in DOMAIN EmptyState, WipeFile(p, file)
        PROVE  Ready(p)'
    BY <1>p, <2>2 DEF WipeFile
  <2>3. CASE WipeSync(p)
    <3>1. Resuming("load", job[p])
      BY <2>3 DEF WipeSync, EmptyState, Resuming, Settling, Unclaiming, Recovery, AtOutput
    <3> QED BY <1>a, <2>3, <3>1 DEF WipeSync
  <2>4. CASE LoadClaim(p)
    <3>1. st' = st /\ pc[p] = "load"
      BY <2>4 DEF LoadClaim, disk, stVars
    <3>2. CASE job[p].cmd = "configure" /\ st.claim = None
      <4>1. Resuming("init", job[p])
        BY <1>0, <3>1, <3>2 DEF Resuming, Settling, Unclaiming, Recovery, AtOutput
      <4> QED BY <1>a, <2>4, <3>1, <3>2, <4>1 DEF LoadClaim
    <3>3. CASE ~(job[p].cmd = "configure" /\ st.claim = None)
      <4>1. ~(job[p].cmd = "reset" /\ st.reset # None) => Resuming("recover", job[p])
        BY DEF Resuming, Settling, Unclaiming, Recovery, AtOutput
      <4>2. \/ Leave(p) \/ Goto(p, "resume")
            \/ Goto(p, "recover") /\ ~(job[p].cmd = "reset" /\ st.reset # None)
        BY <2>4, <3>3 DEF LoadClaim, Require
      <4>3. Goto(p, "resume") => Ready(p)'
        BY <1>a2
      <4>4. Goto(p, "recover") /\ Resuming("recover", job[p]) => Ready(p)'
        BY <1>a, <3>1
      <4> QED BY <1>b, <4>1, <4>2, <4>3, <4>4
    <3> QED BY <3>2, <3>3
  <2>5. CASE Released(p)
    <3>1. pc'[p] = "store"
      BY <1>0, <2>5 DEF Released, Answer
    <3> QED BY <1>p, <3>1
  <2>6. CASE InitSnapshot(p)
    <3>1. pc'[p] = "init_sync" /\ st'.reset = st.reset /\ pc[p] = "init"
      BY <1>0, <2>6, SnapshotWritten DEF InitSnapshot, GotoWith
    <3> QED BY <3>1 DEF Ready, Resuming, Settling, Unclaiming, Recovery, AtOutput
  <2>7. CASE InitClaim(p)
    <3>1. pc'[p] = "claim_sync" /\ job'[p] = job[p] /\ job[p].cmd = "configure"
      BY <1>0, <2>7 DEF InitClaim, Goto, KnowsClaim
    <3> QED BY <3>1 DEF Ready, Resuming, Settling, Unclaiming, Recovery, AtOutput
  <2>8. CASE SyncState(p)
    <3>1. Goto(p, AfterSync[pc[p]]) /\ st' = st
      BY <2>8 DEF SyncState
    <3>2. Resuming(AfterSync[pc[p]], job[p])
      <4>1. CASE pc[p] = "init_sync"
        BY <1>0, <4>1 DEF AfterSync, Resuming, Settling, Unclaiming, Recovery, AtOutput
      <4>2. CASE pc[p] = "claim_sync"
        BY <1>0, <4>2 DEF AfterSync, Resuming, Settling, Unclaiming, Recovery, AtOutput
      <4>3. CASE pc[p] = "commit_sync"
        BY <1>0, <4>3 DEF AfterSync, Resuming, Settling, Unclaiming, Recovery, AtOutput
      <4>4. CASE pc[p] \in {"plan_sync", "intent_sync"}
        BY <1>o, <4>4 DEF AfterSync
      <4>5. CASE pc[p] \in {"unclaim_sync", "scrub_sync"}
        BY <1>0, <4>5 DEF AfterSync, Resuming, Settling, Unclaiming, Recovery, AtOutput
      <4> QED BY <2>8, <4>1, <4>2, <4>3, <4>4, <4>5 DEF SyncState, AfterSync
    <3> QED BY <1>a, <3>1, <3>2
  <2> QED BY <1>2, <2>1, <2>2, <2>3, <2>4, <2>5, <2>6, <2>7, <2>8 DEF Claiming
<1>3. CASE Recovering(p)
  <2>0. {"sweep", "drop", "drop_sync", "apply"} \subseteq Recovery \ {"intent"}
    BY DEF Recovery
  <2>1. CASE Recover(p)
    <3>0. st' = st /\ pc[p] \in Recovery
      BY <2>1 DEF Recover, Recovery
    <3>1. CASE Pendings = {}
      <4>1. Goto(p, "sweep")
        BY <2>1, <3>1 DEF Recover
      <4> QED BY <1>a, <1>m, <2>0, <3>0, <4>1
    <3>2. CASE Leave(p)
      BY <1>b, <3>2
    <3>3. ASSUME NEW x \in Pendings,
                 GotoWith(p, "apply", [job[p] EXCEPT !.txn = x, !.ret = "sweep"])
          PROVE  Ready(p)'
      <4>1. Resuming("apply", [job[p] EXCEPT !.txn = x, !.ret = "sweep"])
        BY <1>j1, <1>m, <2>0, <3>0
      <4> QED BY <1>c, <3>0, <3>3, <4>1
    <3> QED BY <2>1, <3>1, <3>2, <3>3 DEF Recover
  <2>2. CASE Drop(p)
    <3>1. st' = st /\ pc[p] \in Recovery /\ (Goto(p, "drop") \/ Goto(p, "drop_sync"))
      BY <2>2 DEF Drop, stVars, Recovery
    <3> QED BY <1>a, <1>m, <2>0, <3>1
  <2>3. CASE Sweep(p)
    <3>1. PICK x \in Txns : GotoWith(p, "drop", [job[p] EXCEPT !.txn = x, !.ret = "sweep"])
      BY <2>3 DEF Sweep
    <3>2. st' = st /\ pc[p] \in Recovery
      BY <2>3 DEF Sweep, disk, Recovery
    <3>3. Resuming("drop", [job[p] EXCEPT !.txn = x, !.ret = "sweep"])
      BY <1>j1, <1>m, <2>0, <3>2
    <3> QED BY <1>c, <3>1, <3>2, <3>3
  <2>4. CASE DropSync(p)
    <3>p. PICK j : j = [job[p] EXCEPT !.txn = None, !.ret = None]
      OBVIOUS
    <3>1. st' = st /\ pc[p] \in Recovery /\ job[p].ret \in Results /\ j.cmd = job[p].cmd
      BY <1>0, <1>j1, <2>4, <3>p DEF DropSync, stVars, Recovery, LocalOK, Committing
    <3>2. Leave(p) \/ (job[p].ret # "fail" /\ GotoWith(p, job[p].ret, j))
      BY <2>4, <3>p DEF DropSync
    <3>3. job[p].ret \in {"verify", "unstage"} => Resuming(job[p].ret, j)
      BY <1>o
    <3>4. Resuming("sweep", j)
      BY <1>m, <2>0, <3>1
    <3>5. job[p].ret # "fail" => Resuming(job[p].ret, j)
      BY <3>1, <3>3, <3>4 DEF Results
    <3> QED BY <1>b, <1>c, <3>1, <3>2, <3>5
  <2>5. CASE Recovered(p)
    <3>0. st' = st /\ pc[p] \in Recovery
      BY <2>5 DEF Recovered, disk, Recovery
    <3>1. CASE job[p].cmd \in {"configure", "retire"}
      BY <1>r, <2>5, <3>1 DEF Recovered, Proceed
    <3>2. CASE job[p].cmd = "reset"
      <4>1. Resuming("intent", job[p])
        BY <1>0, <3>0, <3>2 DEF Resuming, Settling, Unclaiming, Recovery, AtOutput
      <4> QED BY <1>a, <1>b, <2>5, <3>0, <3>2, <4>1 DEF Recovered, Proceed, Require
    <3>3. CASE job[p].cmd \notin {"configure", "retire", "reset"}
      <4>1. Require(p, CurrentPlan(p) /\ (job[p].publishing => SnapshotLoads),
                    IF job[p].publishing THEN "prepare" ELSE "validated")
        BY <2>5, <3>3 DEF Recovered, Proceed
      <4> QED BY <1>r, <4>1
    <3> QED BY <3>1, <3>2, <3>3
  <2> QED BY <1>3, <2>1, <2>2, <2>3, <2>4, <2>5 DEF Recovering
<1>4. CASE Applying(p)
  <2>1. CASE WritePending(p)
    <3>1. pc[p] = "pend" /\ Goto(p, "pend_sync") /\ st' = st
      BY <2>1 DEF WritePending, stVars
    <3>2. job[p].cmd # "reset"
      BY <1>0, <3>1 DEF Resuming
    <3> QED BY <1>a, <1>g, <3>1, <3>2
  <2>2. CASE SyncPending(p)
    <3>p. PICK w : w = IF job[p].cmd = "generate" THEN "verify" ELSE "unstage"
      OBVIOUS
    <3>1. /\ pc[p] = "pend_sync" /\ st' = st
          /\ GotoWith(p, "apply", [job[p] EXCEPT !.draft = None, !.ret = w])
      BY <2>2, <3>p DEF SyncPending, stVars
    <3>2. job[p].cmd # "reset"
      BY <1>0, <3>1 DEF Resuming
    <3>3. \A j : j.cmd = job[p].cmd => Resuming("apply", j)
      BY <3>2 DEF Resuming, Settling, Unclaiming, Recovery, AtOutput
    <3> QED BY <1>c, <1>j5, <3>1, <3>3
  <2>3. CASE ApplyPending(p)
    <3>p. PICK v : v = tx[job[p].txn].pend.entries
      OBVIOUS
    <3>1. st' = st /\ pc[p] \in Recovery /\ pc[p] \notin AtOutput
      BY <2>3 DEF ApplyPending, stVars, Recovery, AtOutput
    <3>2. \/ Leave(p) \/ Goto(p, "commit_sync")
          \/ GotoWith(p, "output", [job[p] EXCEPT !.ops = v])
      BY <2>3, <3>p DEF ApplyPending, Require
    <3>3. Resuming("commit_sync", job[p])
      BY <1>m, <3>1 DEF Recovery
    <3>4. Resuming("output", [job[p] EXCEPT !.ops = v])
      BY <1>n, <1>j2, <3>1 DEF AtOutput, Same
    <3> QED BY <1>a, <1>b, <1>c, <3>1, <3>2, <3>3, <3>4
  <2>4. CASE CheckOutput(p)
    <3>1. PICK o \in DOMAIN job[p].ops, label \in {"out_sync", "act"} :
             \/ Leave(p)
             \/ GotoWith(p, label, [job[p] EXCEPT !.cur = o, !.obs = Bytes(out[o])])
      BY <2>4 DEF CheckOutput
    <3>2. st' = st /\ pc[p] \in AtOutput
      BY <2>4 DEF CheckOutput, disk, AtOutput
    <3>p. PICK j : j = [job[p] EXCEPT !.cur = o, !.obs = Bytes(out[o])]
      OBVIOUS
    <3>q. Same(j)
      BY <1>j3, <3>p
    <3>3. Resuming(label, j)
      BY <1>n, <3>2, <3>q DEF AtOutput, Same
    <3>4. GotoWith(p, label, j) => Ready(p)'
      BY <1>c, <3>2, <3>3
    <3> QED BY <1>b, <3>1, <3>4, <3>p
  <2>5. CASE ActOnOutput(p)
    <3>1. st' = st /\ pc[p] \in AtOutput /\ Goto(p, "out_sync")
      BY <2>5 DEF ActOnOutput, stVars, AtOutput
    <3> QED BY <1>a, <1>n, <3>1 DEF AtOutput
  <2>6. CASE SyncOutput(p)
    <3>p. PICK v : v = Without(job[p].ops, {job[p].cur})
      OBVIOUS
    <3>q. PICK j : j = [job[p] EXCEPT !.ops = v, !.cur = None, !.obs = None]
      OBVIOUS
    <3>1. st' = st /\ pc[p] \in AtOutput
      BY <2>6 DEF SyncOutput, stVars, AtOutput
    <3>2. GotoWith(p, "output", j)
      BY <2>6, <3>p, <3>q DEF SyncOutput
    <3>3. Same(j)
      BY <1>j4, <3>q
    <3>4. Resuming("output", j)
      BY <1>n, <3>1, <3>3 DEF AtOutput, Same
    <3> QED BY <1>c, <3>1, <3>2, <3>4
  <2>7. CASE OutputsDone(p)
    <3>1. st' = st /\ pc[p] \in AtOutput
      BY <2>7 DEF OutputsDone, disk, AtOutput
    <3>2. CASE job[p].txn = None
      <4>1. Goto(p, "unstage")
        BY <2>7, <3>2 DEF OutputsDone
      <4> QED BY <1>a2, <4>1
    <3>3. CASE job[p].txn # None
      <4>1. Resuming("snap", job[p])
        BY <1>0, <3>1, <3>3 DEF Resuming, Settling, Unclaiming, Recovery, AtOutput
      <4> QED BY <1>a, <2>7, <3>1, <3>3, <4>1 DEF OutputsDone
    <3> QED BY <3>2, <3>3
  <2>8. CASE CommitSnapshot(p)
    <3>1. /\ pc[p] = "snap" /\ pc'[p] = "commit_sync" /\ job'[p] = job[p]
          /\ st'.reset = st.reset
      BY <1>0, <2>8, SnapshotWritten DEF CommitSnapshot, Goto
    <3> QED BY <1>0, <3>1 DEF Ready, Resuming, Settling, Unclaiming, Recovery, AtOutput
  <2> QED BY <1>4, <2>1, <2>2, <2>3, <2>4, <2>5, <2>6, <2>7, <2>8 DEF Applying
<1>5. CASE Generating(p)
  <2>1. CASE Validated(p) \/ Verify(p)
    <3>1. pc'[p] \in {"stage", "published"} \/ Leave(p)
      BY <1>0, <2>1 DEF Validated, Verify
    <3> QED BY <1>b, <1>p, <3>1
  <2>2. CASE CheckPublished(p) \/ DiscardStaging(p)
    BY <1>a2, <1>b, <2>2 DEF CheckPublished, DiscardStaging, Require
  <2>3. CASE RebuildStaging(p) \/ Protoc(p)
    <3>1. Leave(p) \/ pc'[p] \in {"protoc", "spawn", "cleanup"}
      BY <1>0, <2>3 DEF RebuildStaging, Protoc, Goto, GotoWith
    <3> QED BY <1>b, <1>p, <3>1
  <2>4. CASE Prepare(p)
    <3>1. Leave(p) \/ pc'[p] = "payload"
      BY <1>0, <2>4 DEF Prepare, GotoWith
    <3> QED BY <1>b, <1>p, <3>1
  <2>5. CASE CopyPayload(p)
    <3>1. job[p].cmd = "generate" /\ st' = st
      BY <1>0, <2>5 DEF CopyPayload, LocalOK, stVars
    <3>2. \/ Goto(p, "payload")
          \/ GotoWith(p, "drop", [job[p] EXCEPT !.ret = "fail"])
      BY <2>5 DEF CopyPayload
    <3>3. \A j : j.cmd = "generate" => Resuming("drop", j)
      BY DEF Resuming, Settling, Unclaiming, Recovery, AtOutput
    <3>4. Resuming("drop", [job[p] EXCEPT !.ret = "fail"])
      BY <1>j6, <3>1, <3>3
    <3> QED BY <1>a2, <1>c, <3>1, <3>2, <3>4
  <2>6. CASE SyncPayloads(p)
    <3>p. PICK d : d = Pending(job[p].build, job[p].plan.outs, PublishOps(p))
      OBVIOUS
    <3>1. job[p].cmd = "generate" /\ st' = st
      BY <1>0, <2>6 DEF SyncPayloads, LocalOK, stVars
    <3>2. GotoWith(p, "pend", [job[p] EXCEPT !.draft = d])
      BY <2>6, <3>p DEF SyncPayloads
    <3>3. Resuming("pend", [job[p] EXCEPT !.draft = d])
      BY <1>g, <1>j7, <3>1
    <3> QED BY <1>c, <3>1, <3>2, <3>3
  <2> QED BY <1>5, <2>1, <2>2, <2>3, <2>4, <2>5, <2>6 DEF Generating
<1>6. CASE Configuring(p)
  <2>1. CASE RetireUnplanned(p)
    <3>p. PICK d : d = Pending(job[p].build, job[p].plan.outs, RetireOps(p))
      OBVIOUS
    <3>1. pc[p] = "retire" /\ job[p].cmd \in {"configure", "retire"}
      BY <1>0, <2>1 DEF RetireUnplanned, LocalOK
    <3>2. ASSUME NEW x \in Txns, MakeTransaction(x),
                 GotoWith(p, "pend", [job[p] EXCEPT !.txn = x, !.draft = d])
          PROVE  Ready(p)'
      <4>1. Resuming("pend", [job[p] EXCEPT !.txn = x, !.draft = d])
        BY <1>g, <1>j8, <3>1
      <4>2. st' = st
        BY <3>2 DEF MakeTransaction
      <4> QED BY <1>c, <3>2, <4>1, <4>2
    <3>3. \/ Leave(p) \/ Goto(p, "unstage")
          \/ \E x \in Txns : /\ MakeTransaction(x)
                            /\ GotoWith(p, "pend", [job[p] EXCEPT !.txn = x, !.draft = d])
      BY <2>1, <3>p DEF RetireUnplanned
    <3> QED BY <1>a2, <1>b, <3>2, <3>3
  <2>2. CASE RemoveStaging(p) \/ WritePlan(p)
    BY <1>a2, <2>2 DEF RemoveStaging, WritePlan
  <2>3. CASE SyncStaging(p)
    BY <1>a2, <2>3 DEF SyncStaging
  <2>4. CASE ReturnToken(p)
    <3>1. pc'[p] = "store"
      BY <1>0, <2>4 DEF ReturnToken, Answer
    <3> QED BY <1>p, <3>1
  <2>5. CASE StoreToken(p)
    BY <1>b, <2>5 DEF StoreToken
  <2> QED BY <1>6, <2>1, <2>2, <2>3, <2>4, <2>5 DEF Configuring
<1>7. CASE Resetting(p)
  <2>1. CASE WriteResetIntent(p) \/ RemoveDisposable(p)
    BY <1>a2, <1>b, <2>1 DEF WriteResetIntent, RemoveDisposable
  <2>2. CASE ResumeReset(p)
    BY <1>r, <2>2 DEF ResumeReset
  <2>3. CASE Purge(p)
    <3>p. PICK v : v = DeleteOps(st.reset.entries)
      OBVIOUS
    <3>1. st' = st /\ pc[p] = "purge" /\ GotoWith(p, "output", [job[p] EXCEPT !.ops = v])
      BY <2>3, <3>p DEF Purge, disk
    <3>2. job[p].txn = None
      BY <1>0, <3>1 DEF LocalOK, WithTxn, Committing, AtOutput
    <3>3. \A j : j.txn = None => Resuming("output", j)
      BY DEF Resuming, Settling, Unclaiming, Recovery, AtOutput
    <3>4. Resuming("output", [job[p] EXCEPT !.ops = v])
      BY <1>j2, <3>2, <3>3 DEF Same
    <3> QED BY <1>c, <3>1, <3>4
  <2>4. CASE Unclaim(p)
    <3>1. pc'[p] = "unclaim_sync" /\ st'.claim = None
      BY <1>0, <2>4, ClaimWritten DEF Unclaim, Goto
    <3> QED BY <3>1 DEF Ready, Resuming, Settling, Unclaiming, Recovery, AtOutput
  <2>5. CASE Scrub(p)
    <3>1. PICK i \in 1..3 : WriteState(ScrubOrder[i], None)
      BY <2>5 DEF Scrub
    <3>2. ScrubOrder[i] \in {"plan", "snapshot", "reset"}
      BY DEF ScrubOrder
    <3>3. st'.claim = st.claim
      BY <1>0, <3>1, <3>2, PlanWritten, SnapshotWritten, ResetWritten
    <3>4. pc'[p] = "scrub_sync" /\ st.claim = None
      BY <1>0, <2>5 DEF Scrub, Goto, Resuming, Unclaiming
    <3> QED BY <3>3, <3>4 DEF Ready, Resuming, Settling, Unclaiming, Recovery, AtOutput
  <2>6. CASE RemoveState(p)
    BY <1>b, <2>6 DEF RemoveState
  <2> QED BY <1>7, <2>1, <2>2, <2>3, <2>4, <2>5, <2>6 DEF Resetting
<1> QED BY <1>1, <1>2, <1>3, <1>4, <1>5, <1>6, <1>7 DEF Step

(* The others are outside the section, or alone in it.                      *)
LEMMA OthersKeepResuming ==
    ASSUME TypeInv, NEW p \in Procs, Step(p), NEW q \in Procs, q # p, Ready(q)
    PROVE  Ready(q)'
<1>0. pc'[q] = pc[q] /\ job'[q] = job[q]
  BY StepFrame DEF TypeInv, TypeOK, Frame
<1>1. CASE pc[q] \notin PubSection
  BY <1>0, <1>1 DEF Ready, Resuming, PubSection, Settling, Unclaiming, Recovery, AtOutput
<1>2. CASE pc[q] \in PubSection
  <2>1. pc[p] \notin PubSection
    BY <1>2 DEF TypeInv, PubInv
  <2>2. st' = st
    BY <2>1, OutsideQuiet DEF stVars
  <2> QED BY <1>0, <2>2 DEF Ready, Resuming
<1> QED BY <1>1, <1>2

(* Every step of a command leaves an intent that matches its state.         *)
LEMMA StepKeepsMatches ==
    ASSUME ResetInv, NEW p \in Procs, Step(p)
    PROVE  \A s \in stOld' : Matches(s)
<1>0. /\ StateType /\ st \in stOld /\ LocalOK(pc[p], job[p]) /\ Resuming(pc[p], job[p])
      /\ Stopped /\ Matches(st) /\ \A s \in stOld : Matches(s)
  BY DEF ResetInv, Resumable, TypeInv, TypeOK, StateType, Shape, Ready
<1>1. stOld' \subseteq stOld \cup {st'}
  <2>1. ASSUME NEW file, NEW v, WriteState(file, v)
        PROVE  stOld' \subseteq stOld \cup {st'}
    BY <2>1 DEF WriteState
  <2>2. StateStep(p)
    BY StepOnState
  <2> QED BY <2>1, <2>2 DEF StateStep, WipeFile, InitClaim, Unclaim, WritePlan, WriteResetIntent,
       stVars
<1>2. Matches(st')
  <2>1. CASE st' = st
    BY <1>0, <2>1
  <2>2. ASSUME NEW v, pc[p] \in {"init", "snap", "scrub"}, WriteState("snapshot", v)
        PROVE  Matches(st')
    <3>1. st'.claim = st.claim /\ st'.reset = st.reset
      BY <1>0, <2>2, SnapshotWritten
    <3>2. CASE pc[p] = "init"
      BY <1>0, <3>1, <3>2 DEF Resuming, Settling, Matches
    <3>3. CASE pc[p] = "scrub"
      BY <1>0, <3>1, <3>3 DEF Resuming, Unclaiming, Matches
    <3>4. CASE pc[p] = "snap" /\ job[p].cmd = "reset"
      BY <1>0, <3>1, <3>4 DEF Resuming, Recovery, Matches
    <3>5. CASE pc[p] = "snap" /\ job[p].cmd # "reset"
      BY <1>0, <3>1, <3>5 DEF Stopped, Building, Matches
    <3> QED BY <2>2, <3>2, <3>3, <3>4, <3>5
  <2>3. ASSUME NEW file \in {"plan", "reset"}, pc[p] = "scrub", WriteState(file, None)
        PROVE  Matches(st')
    <3>1. st'.claim = st.claim
      BY <1>0, <2>3, PlanWritten, ResetWritten
    <3> QED BY <1>0, <2>3, <3>1 DEF Resuming, Unclaiming, Matches
  <2>4. ASSUME NEW file \in DOMAIN EmptyState, WipeFile(p, file)
        PROVE  Matches(st')
    <3>1. st.claim = None
      BY <2>4 DEF ResetInv, ClaimInv, KnowsClaim, WipeFile
    <3>2. st'.claim = None
      BY <1>0, <2>4, <3>1, ClaimWritten, SnapshotWritten, PlanWritten, ResetWritten
         DEF WipeFile, EmptyState
    <3> QED BY <3>2 DEF Matches
  <2>5. CASE InitClaim(p)
    <3>1. st'.reset = st.reset /\ st.reset = None
      BY <1>0, <2>5, ClaimWritten DEF InitClaim, Resuming, Settling
    <3> QED BY <3>1 DEF Matches
  <2>6. CASE Unclaim(p)
    <3>1. st'.claim = None
      BY <1>0, <2>6, ClaimWritten DEF Unclaim
    <3> QED BY <3>1 DEF Matches
  <2>7. CASE WritePlan(p)
    <3>1. st'.claim = st.claim /\ st'.reset = st.reset
      BY <1>0, <2>7, PlanWritten DEF WritePlan
    <3>2. job[p].cmd # "reset" /\ pc[p] # "idle"
      BY <1>0, <2>7 DEF WritePlan, LocalOK
    <3> QED BY <1>0, <3>1, <3>2 DEF Stopped, Building, Matches
  <2>8. CASE WriteResetIntent(p)
    <3>1. CASE st' = st
      BY <2>1, <3>1
    <3>2. CASE WriteState("reset", [token |-> st.claim.token, entries |-> st.snapshot.entries,
                                    targets |-> PlanTargets(st.plan)])
      BY <1>0, <3>2, ResetWritten DEF Matches
    <3> QED BY <2>8, <3>1, <3>2 DEF WriteResetIntent, stVars
  <2> QED BY <2>1, <2>2, <2>3, <2>4, <2>5, <2>6, <2>7, <2>8, StepOnState DEF StateStep
<1> QED BY <1>0, <1>1, <1>2

(* What a command relies on is kept by everything that happens to it.       *)
LEMMA ReadyNext ==
    ASSUME TypeInv, ClaimInv, \A p \in Procs : Ready(p), [Next]_vars
    PROVE  \A p \in Procs : Ready(p)'
<1>0. ControlType
  BY DEF TypeInv, TypeOK
<1>1. ASSUME NEW p \in Procs, st' = st, pc'[p] \in {"reg", "gen", "idle"},
             \A q \in Procs : q # p => pc'[q] = pc[q] /\ job'[q] = job[q]
      PROVE  \A q \in Procs : Ready(q)'
  <2>1. Ready(p)'
    BY <1>1 DEF Ready, Resuming, Settling, Unclaiming, Recovery, AtOutput
  <2>2. \A q \in Procs : q # p => Ready(q)'
    BY <1>0, <1>1 DEF Ready, Resuming
  <2> QED BY <2>1, <2>2
<1>2. ASSUME UNCHANGED <<pc, job, st>>  PROVE \A p \in Procs : Ready(p)'
  BY <1>2 DEF Ready, Resuming
<1>3. ASSUME NEW p \in Procs, Starting(p)  PROVE \A q \in Procs : Ready(q)'
  <2>1. ASSUME NEW event, NEW label \in {"reg", "gen"}, NEW j, Start(p, event, label, j)
        PROVE  \A q \in Procs : Ready(q)'
    <3>1. /\ st' = st /\ pc'[p] = label
          /\ \A q \in Procs : q # p => pc'[q] = pc[q] /\ job'[q] = job[q]
      BY <1>0, <2>1 DEF Start, GotoWith, disk, ControlType
    <3> QED BY <1>1, <3>1
  <2> QED BY <1>3, <2>1 DEF Starting, StartConfigure, StartRetire, StartGenerate, StartReset
<1>4. ASSUME NEW p \in Procs, Step(p)  PROVE \A q \in Procs : Ready(q)'
  BY <1>4, StepKeepsResuming, OthersKeepResuming
<1>5. ASSUME NEW p \in Procs, Kill(p)  PROVE \A q \in Procs : Ready(q)'
  <2>1. /\ st' = st /\ pc'[p] = "idle"
        /\ \A q \in Procs : q # p => pc'[q] = pc[q] /\ job'[q] = job[q]
    BY <1>0, <1>5 DEF Kill, Leave, disk, ControlType
  <2> QED BY <1>1, <2>1
<1>6. CASE PowerLoss
  <2>1. \A p \in Procs : pc'[p] = "idle"
    BY <1>6 DEF PowerLoss
  <2> QED BY <2>1 DEF Ready, Resuming, Settling, Unclaiming, Recovery, AtOutput
<1>7. CASE UserStep \/ UNCHANGED vars \/ \E p \in Procs : ParentDies(p)
  <2>1. UNCHANGED <<pc, job, st>>
    BY <1>7 DEF UserStep, UserWrites, UserDeletes, UserLinks, UserSets, stVars, ParentDies,
       vars, disk
  <2> QED BY <1>2, <2>1
<1> QED BY <1>3, <1>4, <1>5, <1>6, <1>7 DEF Next, AtRest

(* What leaves the state alone, or loses power without reordering, leaves   *)
(* only versions that match.                                                *)
LEMMA ResetInvNext ==
    ASSUME BuildsStopped, ~Reorder, ResetInv, [Next]_vars
    PROVE  ResetInv'
<1>0. TypeInv /\ ClaimInv /\ Stopped /\ \A p \in Procs : Ready(p)
  BY DEF ResetInv, Resumable
<1>1. Beside
  BY <1>0 DEF Beside, Ready, Resuming, Settling
<1>2. TypeInv' /\ ClaimInv' /\ Stopped' /\ \A p \in Procs : Ready(p)'
  BY <1>0, <1>1, TypeInvNext, ClaimInvNext, StoppedNext, ReadyNext
<1>3. \A s \in stOld' : Matches(s)
  <2>1. ASSUME NEW p \in Procs, Step(p)  PROVE \A s \in stOld' : Matches(s)
    BY <2>1, StepKeepsMatches
  <2>2. CASE PowerLoss
    <3>1. PICK s \in stOld : stOld' = {s}
      BY <2>2 DEF PowerLoss, StateSurvivors
    <3> QED BY <3>1 DEF ResetInv, Resumable, Matches
  <2>3. CASE stOld' = stOld
    BY <2>3 DEF ResetInv, Resumable, Matches
  <2>4. ASSUME NEW p \in Procs, Starting(p) \/ Kill(p) \/ ParentDies(p)  PROVE stOld' = stOld
    BY <2>4 DEF Starting, StartConfigure, StartRetire, StartGenerate, StartReset, Start, Kill,
       ParentDies, disk, stVars
  <2>5. ASSUME UserStep \/ UNCHANGED vars  PROVE stOld' = stOld
    BY <2>5 DEF UserStep, UserWrites, UserDeletes, UserLinks, UserSets, stVars, vars, disk
  <2> QED BY <2>1, <2>2, <2>3, <2>4, <2>5 DEF Next, AtRest
<1> QED BY <1>2, <1>3 DEF ResetInv, Resumable

(* At first there is no reset to resume.                                    *)
LEMMA ResetInvInit == Init => ResetInv
<1> SUFFICES ASSUME Init  PROVE ResetInv
  OBVIOUS
<1>1. /\ Claims = {None} /\ st = EmptyState /\ stOld = {EmptyState}
      /\ \A p \in Procs : pc[p] = "idle"
  BY DEF Init, Claims, EmptyState
<1>2. \A token \in Nat : ~Given(token)
  BY <1>1, NoneIsNoRecord DEF Init, Given
<1>3. ClaimInv
  BY <1>1, <1>2 DEF ClaimInv, ClaimTokens, KnowsClaim, Owned, Claimed, ResetOnly, EmptyState
<1>4. Stopped /\ \A p \in Procs : Ready(p)
  BY <1>1 DEF Stopped, Building, Ready, Resuming, Settling, Unclaiming, Recovery, AtOutput
<1> QED BY <1>1, <1>3, <1>4, TypeInvInit DEF ResetInv, Resumable, Matches, EmptyState

(* Whenever a reset is cut off, by a kill or by a loss of power, the intent *)
(* it leaves beside a claim names that claim, that snapshot and that plan,  *)
(* so that the next reset gets past _load_reset_intent: no build commits in *)
(* between, since builds are stopped, and no file of the state overtakes    *)
(* another, since the file system keeps their order.                        *)
THEOREM ResetIsResumable ==
    ASSUME BuildsStopped, ~Reorder
    PROVE  Spec => []ResetResumable
<1>1. Init => ResetInv
  BY ResetInvInit
<1>2. ResetInv /\ [Next]_vars => ResetInv'
  BY ResetInvNext
<1>3. ResetInv => ResetResumable
  BY DEF ResetInv, Resumable, TypeInv, TypeOK, StateType, Matches, ResetResumable, IntentMatches
<1> QED BY <1>1, <1>2, <1>3, PTL DEF Spec

---------------------------------------------------------------------------
(* The abstract store *)

(* Nobody owns the root for certain: no claim is there, or a loss of power  *)
(* may still take it away.                                                  *)
Unowned == IF st.claim = None THEN Claims = {None} ELSE None \in Claims
(* The pending transaction that no loss of power can take away any more.    *)
Sure(x, gen) ==
    /\ FALSE \notin txOld[x].ent
    /\ \A d \in txOld[x].pend : d # None /\ d.base = gen
(* What the abstract store looks like, without a choice.                    *)
Owning ==
    /\ DurableOwner \in Claims \ {None}
    /\ DurableSnapshot \in Snaps /\ DurableCommitted = DurableSnapshot.entries
    /\ DurableSnapshot = st.snapshot \/ Behind(DurableSnapshot)
    /\ \A n \in Snaps : n = st.snapshot \/ n = DurableSnapshot
    /\ \A x \in Txns : Sure(x, DurableSnapshot.gen) =>
           DurableIntent = tx[x].pend.snap.entries /\ DurableIntent \in Entries
    /\ (\A x \in Txns : ~Sure(x, DurableSnapshot.gen)) => DurableIntent = None
View ==
    IF Unowned THEN DurableOwner = None /\ DurableCommitted = NoMap /\ DurableIntent = None
    ELSE Owning

(* Between losses at most one older snapshot may survive; the snapshot of a *)
(* claim that is not durable yet is empty; and what may still be pending    *)
(* when a reset is announced has been committed.                            *)
OneOlder == Claims # {None} =>
    \A n, m \in Snaps : n = st.snapshot \/ m = st.snapshot \/ n = m
Fresh == st.claim # None /\ None \in Claims => st.snapshot.entries = NoMap
Quiescent == st.reset # None =>
    \A x \in Txns : MayExist(x) =>
        \A d \in txOld[x].pend : d # None => d.snap = st.snapshot
StoreInv ==
    /\ CrashInv /\ ClaimInv /\ Stopped /\ (\A p \in Procs : Ready(p))
    /\ OneOlder /\ Fresh /\ Quiescent

(* A transaction is sure to survive only if it may.                         *)
LEMMA SureExists ==
    ASSUME TxType, NEW x \in Txns, NEW gen, Sure(x, gen)
    PROVE  /\ MayExist(x) /\ tx[x].ent /\ tx[x].pend # None /\ tx[x].pend.base = gen
           /\ tx[x].pend \in txOld[x].pend /\ tx[x].pend \in PendingRecords
<1>1. tx[x].ent \in txOld[x].ent /\ tx[x].ent \in BOOLEAN /\ tx[x].pend \in txOld[x].pend
      /\ tx[x].pend \in OrNone(PendingRecords)
  BY DEF TxType, TxRecords
<1> QED BY <1>1 DEF Sure, MayExist, OrNone

(* With a claim that may be lost, or an unclaimed root that may still be    *)
(* claimed, there is one snapshot and no transaction.                       *)
LEMMA LooseClaim ==
    ASSUME StateType, Core, None \in Claims
    PROVE  /\ \A x \in Txns : ~MayExist(x)
           /\ Claims = {None} \/ Snaps = {st.snapshot}
<1>1. \A x \in Txns : ~MayExist(x)
  BY DEF Core, TxnClaimed
<1>2. \A n \in Snaps : ~Behind(n)
  BY <1>1 DEF Behind, DurablePend, MayExist
<1> QED BY <1>1, <1>2, StateSets DEF Core, SnapsOK

(* An older snapshot is the generation before the present one.              *)
LEMMA OlderGen ==
    ASSUME TypeOK, Core, NEW n \in Snaps, NEW x \in Txns, DurablePend(x),
           tx[x].pend.base = n.gen, tx[x].pend.snap = st.snapshot
    PROVE  /\ Sure(x, n.gen) /\ None \notin Claims
           /\ st.snapshot.gen = n.gen + 1 /\ n.gen \in Nat /\ n # st.snapshot
<1>1. MayExist(x) /\ tx[x].pend \in txOld[x].pend /\ tx[x].pend \in PendingRecords
  BY DEF DurablePend, MayExist, TypeOK, TxType, TxRecords, OrNone
<1>2. Wellformed(tx[x].pend)
  BY <1>1 DEF DurablePend, Core, PendOK, PendSafe
<1>3. n.gen \in Nat /\ st.snapshot.gen = n.gen + 1
  BY <1>1, <1>2 DEF Wellformed, PendingRecords
<1>4. None \notin Claims
  BY <1>1 DEF Core, TxnClaimed
<1> QED BY <1>3, <1>4 DEF DurablePend, Sure

(* Which transactions the abstract store counts.                            *)
LEMMA PendingIsSure ==
    ASSUME TxType
    PROVE  DurablePending = {x \in Txns : Sure(x, DurableSnapshot.gen)}
<1> DEFINE gen == DurableSnapshot.gen
<1> HIDE DEF gen
<1>1. ASSUME NEW x \in Txns
      PROVE  (\A r \in TxSurvivors(x) : r.pend # None /\ r.pend.base = gen) <=> Sure(x, gen)
  <2>0. /\ txOld[x].ent \subseteq BOOLEAN
        /\ tx[x].ent \in txOld[x].ent /\ tx[x].pend \in txOld[x].pend
        /\ tx[x].pay \in txOld[x].pay
    BY DEF TxType, TxOldRecords
  <2>1. ASSUME \A r \in TxSurvivors(x) : r.pend # None /\ r.pend.base = gen
        PROVE  Sure(x, gen)
    <3> DEFINE Survivor(e, d, y) ==
                 IF e THEN [ent |-> TRUE, pend |-> d, pay |-> y] ELSE NoTx
    <3>0. TxSurvivors(x) = {Survivor(e, d, y) :
              e \in txOld[x].ent, d \in txOld[x].pend, y \in txOld[x].pay}
      BY DEF TxSurvivors
    <3> HIDE DEF Survivor
    <3>s. ASSUME NEW e \in txOld[x].ent, NEW d \in txOld[x].pend
          PROVE  Survivor(e, d, tx[x].pay) \in TxSurvivors(x)
      BY <2>0, <3>0
    <3>1. FALSE \notin txOld[x].ent
      <4> SUFFICES ASSUME FALSE \in txOld[x].ent  PROVE FALSE
        OBVIOUS
      <4>1. PICK e \in txOld[x].ent : e = FALSE
        OBVIOUS
      <4>2. Survivor(e, tx[x].pend, tx[x].pay) = NoTx
        BY <4>1 DEF Survivor
      <4> QED BY <2>0, <2>1, <3>s, <4>2 DEF NoTx
    <3>2. TRUE \in txOld[x].ent
      BY <2>0, <3>1
    <3>3. ASSUME NEW d \in txOld[x].pend  PROVE d # None /\ d.base = gen
      <4>1. PICK e \in txOld[x].ent : e = TRUE
        BY <3>2
      <4>2. Survivor(e, d, tx[x].pay) = [ent |-> TRUE, pend |-> d, pay |-> tx[x].pay]
        BY <4>1 DEF Survivor
      <4> QED BY <2>1, <3>s, <4>2
    <3> QED BY <3>1, <3>3 DEF Sure
  <2>2. ASSUME Sure(x, gen), NEW r \in TxSurvivors(x)
        PROVE  r.pend # None /\ r.pend.base = gen
    <3>1. PICK e \in txOld[x].ent, d \in txOld[x].pend, y \in txOld[x].pay :
             r = IF e THEN [ent |-> TRUE, pend |-> d, pay |-> y] ELSE NoTx
      BY DEF TxSurvivors
    <3>2. e = TRUE
      BY <2>0, <2>2 DEF Sure
    <3> QED BY <2>2, <3>1, <3>2 DEF Sure
  <2> QED BY <2>1, <2>2
<1> QED BY <1>1 DEF DurablePending, gen

(* The oldest snapshot that a claimed root may be left with.                *)
LEMMA OldestSnapshot ==
    ASSUME TypeOK, Core, OneOlder, ~Unowned
    PROVE  /\ DurableSnapshot \in Snaps
           /\ DurableSnapshot = st.snapshot \/ Behind(DurableSnapshot)
           /\ \A n \in Snaps : n = st.snapshot \/ n = DurableSnapshot
<1>0. /\ StateType /\ st \in stOld /\ st.snapshot \in Snaps /\ st.claim \in Claims
      /\ Claims # {None} /\ SnapsOK
      /\ OwnedSnapshots \subseteq Snaps
      /\ \E c \in Claims : c # None
  <2>1. OwnedSnapshots \subseteq Snaps
    BY DEF OwnedSnapshots, Snaps
  <2>2. StateType /\ SnapsOK
    BY DEF TypeOK, Core
  <2> QED BY <2>1, <2>2, StateSets DEF StateType, Unowned
<1>1. \A n \in Snaps : n \in Snapshots
  BY <1>0, StateSets DEF Core, Backed, OrNone
<1>2. OwnedSnapshots # {}
  BY <1>0 DEF Claims, OwnedSnapshots
<1>3. ASSUME NEW m \in OwnedSnapshots, \A n \in OwnedSnapshots : n # m => m.gen < n.gen
      PROVE  DurableSnapshot = m
  <2>1. \A n \in OwnedSnapshots : n.gen \in Nat
    BY <1>0, <1>1 DEF Snapshots
  <2>2. \A n \in OwnedSnapshots : m.gen <= n.gen
    BY <1>3, <2>1
  <2>3. \A n \in OwnedSnapshots : (\A k \in OwnedSnapshots : n.gen <= k.gen) => n = m
    BY <1>3, <2>1
  <2> QED BY <2>2, <2>3 DEF DurableSnapshot
<1>4. CASE Snaps = {st.snapshot}
  <2>1. OwnedSnapshots = {st.snapshot}
    BY <1>0, <1>2, <1>4
  <2> QED BY <1>3, <1>4, <2>1
<1>5. CASE Snaps # {st.snapshot}
  <2>1. PICK m \in Snaps : m # st.snapshot
    BY <1>0, <1>5
  <2>2. PICK x \in Txns : /\ DurablePend(x) /\ tx[x].pend.base = m.gen
                          /\ tx[x].pend.snap = st.snapshot
    BY <1>0, <2>1 DEF SnapsOK, Behind
  <2>3. None \notin Claims /\ st.snapshot.gen = m.gen + 1 /\ m.gen \in Nat
    BY <2>2, OlderGen
  <2>4. OwnedSnapshots = Snaps
    BY <2>3 DEF Claims, OwnedSnapshots, Snaps
  <2>5. \A n \in Snaps : n = st.snapshot \/ n = m
    BY <1>0, <2>1 DEF OneOlder
  <2>6. DurableSnapshot = m
    BY <1>3, <2>3, <2>4, <2>5
  <2> QED BY <2>2, <2>5, <2>6 DEF Behind
<1> QED BY <1>4, <1>5

(* So this is what the abstract store looks like.                           *)
LEMMA StoreView == StoreInv => View
<1> SUFFICES ASSUME StoreInv  PROVE View
  OBVIOUS
<1>0. TypeOK /\ StateType /\ TxType /\ Core /\ OneOlder /\ st.claim \in Claims
  BY StateSets DEF StoreInv, CrashInv, TypeInv, TypeOK
<1>1. CASE Unowned
  <2>1. DurableOwner = None
    BY <1>1 DEF Unowned, DurableOwner, DurableClaims, Claims
  <2> QED BY <1>1, <2>1 DEF View, DurableCommitted, DurableIntent
<1>2. CASE ~Unowned
  <2>1. DurableOwner \in Claims \ {None}
    <3>1. CASE st.claim = None
      <4>1. \E c \in Claims : c # None
        BY <1>0, <1>2, <3>1 DEF Unowned
      <4>2. DurableOwner = CHOOSE c \in Claims : c # None
        BY <1>2, <3>1 DEF Unowned, DurableOwner, DurableClaims, Claims
      <4> QED BY <4>1, <4>2
    <3>2. CASE st.claim # None
      BY <1>0, <1>2, <3>2 DEF Unowned, DurableOwner, DurableClaims, Claims
    <3> QED BY <3>1, <3>2
  <2>2. DurableCommitted = DurableSnapshot.entries
    BY <2>1 DEF DurableCommitted
  <2>3. ASSUME NEW x \in Txns, Sure(x, DurableSnapshot.gen)
        PROVE  DurableIntent = tx[x].pend.snap.entries /\ DurableIntent \in Entries
    <3>1. \A y \in DurablePending : y = x
      <4> SUFFICES ASSUME NEW y \in DurablePending  PROVE y = x
        OBVIOUS
      <4>1. y \in Txns /\ Sure(y, DurableSnapshot.gen)
        BY <1>0, PendingIsSure
      <4>2. MayExist(x) /\ MayExist(y)
        BY <1>0, <2>3, <4>1, SureExists
      <4> QED BY <1>0, <4>1, <4>2 DEF Core, OneTxn
    <3>2. x \in DurablePending
      BY <1>0, <2>3, PendingIsSure
    <3>3. (CHOOSE y \in DurablePending : TRUE) = x
      BY <3>1, <3>2
    <3>4. DurableIntent = tx[x].pend.snap.entries
      BY <2>1, <3>2, <3>3 DEF DurableIntent
    <3>5. tx[x].pend \in PendingRecords
      BY <1>0, <2>3, SureExists
    <3> QED BY <3>4, <3>5 DEF PendingRecords, Snapshots
  <2>4. (\A x \in Txns : ~Sure(x, DurableSnapshot.gen)) => DurableIntent = None
    BY <1>0, PendingIsSure DEF DurableIntent
  <2> QED BY <1>0, <1>2, <2>1, <2>2, <2>3, <2>4, OldestSnapshot DEF View, Owning
<1> QED BY <1>1, <1>2

(* And what it looks like after a step.                                     *)
LEMMA ViewThen == ASSUME StoreInv' PROVE View'
<1> QED BY StoreView, PTL

(* One step of the abstract store, or none; and no intent that is sure.     *)
StoreStep == [Store!Next]_(Store!store)
NoSure == \A x \in Txns : ~Sure(x, DurableSnapshot.gen)

(* What leaves state and transactions alone is no step of the store.        *)
LEMMA Stutters ==
    ASSUME UNCHANGED <<st, stOld, tx, txOld>>
    PROVE  StoreStep
<1>1. DurableOwner' = DurableOwner
  BY DEF DurableOwner, DurableClaims
<1>2. DurableSnapshot' = DurableSnapshot
  BY DEF DurableSnapshot, OwnedSnapshots
<1>3. DurablePending' = DurablePending
  BY <1>2 DEF DurablePending, TxSurvivors
<1>4. DurableCommitted' = DurableCommitted /\ DurableIntent' = DurableIntent
  BY <1>1, <1>2, <1>3 DEF DurableCommitted, DurableIntent
<1> QED BY <1>1, <1>4 DEF StoreStep, Store!store

(* Neither is what leaves the root without an owner;                        *)
LEMMA StaysUnowned ==
    ASSUME StoreInv, StoreInv', Unowned, Unowned'
    PROVE  StoreStep
BY StoreView, ViewThen DEF View, StoreStep, Store!store

(* giving it one is a claim, provided nothing is committed or pending;      *)
LEMMA Acquires ==
    ASSUME StoreInv, StoreInv', Unowned, ~Unowned', NoSure',
           DurableSnapshot'.entries = NoMap
    PROVE  StoreStep
<1>1. DurableOwner = None /\ DurableCommitted = NoMap /\ DurableIntent = None
  BY StoreView DEF View
<1>2. Owning'
  BY ViewThen DEF View
<1>3. Claims' \subseteq OrNone(ClaimRecords)
  <2>1. StateType'
    BY DEF StoreInv, CrashInv, TypeInv, TypeOK
  <2> QED BY <2>1 DEF StateType, States, Claims
<1>4. /\ DurableOwner' \in [build : Builds, token : Nat] /\ DurableCommitted' = NoMap
      /\ DurableIntent' = None
  BY <1>2, <1>3 DEF Owning, NoSure, ClaimRecords, OrNone
<1> QED BY <1>1, <1>4 DEF StoreStep, Store!store, Store!Next, Store!Acquire

(* taking it away is a release, provided nothing is pending;                *)
LEMMA Releases ==
    ASSUME StoreInv, StoreInv', ~Unowned, Unowned', NoSure
    PROVE  StoreStep
<1>1. Owning
  BY StoreView DEF View
<1>2. DurableOwner' = None /\ DurableCommitted' = NoMap /\ DurableIntent' = None
  BY ViewThen DEF View
<1>3. DurableOwner # None /\ DurableIntent = None
  BY <1>1 DEF Owning, NoSure
<1> QED BY <1>2, <1>3 DEF StoreStep, Store!store, Store!Next, Store!Release

(* what keeps owner, snapshot and pending transaction declares at most one; *)
LEMMA Advances ==
    ASSUME StoreInv, StoreInv', ~Unowned, ~Unowned',
           DurableOwner' = DurableOwner, DurableSnapshot' = DurableSnapshot,
           \A x \in Txns : Sure(x, DurableSnapshot.gen) =>
               Sure(x, DurableSnapshot.gen)' /\ tx'[x].pend.snap = tx[x].pend.snap
    PROVE  StoreStep
<1>1. Owning /\ Owning'
  BY StoreView, ViewThen DEF View
<1>2. DurableOwner # None /\ DurableCommitted' = DurableCommitted
  BY <1>1 DEF Owning
<1>3. CASE NoSure
  <2>1. DurableIntent = None
    BY <1>1, <1>3 DEF Owning, NoSure
  <2>2. DurableIntent' = None \/ DurableIntent' \in Entries
    BY <1>1 DEF Owning
  <2>3. DurableIntent' \in Entries => Store!Declare
    BY <1>2, <2>1 DEF Store!Declare, Entries, EntryRecords
  <2> QED BY <1>2, <2>1, <2>2, <2>3 DEF StoreStep, Store!store, Store!Next
<1>4. CASE ~NoSure
  <2>1. PICK x \in Txns : Sure(x, DurableSnapshot.gen)
    BY <1>4 DEF NoSure
  <2>2. DurableIntent = tx[x].pend.snap.entries
    BY <1>1, <2>1 DEF Owning
  <2>3. DurableIntent' = tx'[x].pend.snap.entries
    BY <1>1, <2>1 DEF Owning
  <2> QED BY <1>2, <2>1, <2>2, <2>3 DEF StoreStep, Store!store
<1> QED BY <1>3, <1>4

(* and moving to the snapshot of the pending transaction commits it.        *)
LEMMA Commits ==
    ASSUME StoreInv, StoreInv', ~Unowned, ~Unowned', DurableOwner' = DurableOwner, NoSure',
           NEW x \in Txns, Sure(x, DurableSnapshot.gen), tx[x].pend.snap = DurableSnapshot'
    PROVE  StoreStep
<1>1. Owning /\ Owning'
  BY StoreView, ViewThen DEF View
<1>2. DurableIntent = tx[x].pend.snap.entries /\ DurableIntent \in Entries
  BY <1>1 DEF Owning
<1>3. DurableCommitted' = DurableIntent /\ DurableIntent' = None
  BY <1>1, <1>2 DEF Owning, NoSure
<1>4. DurableIntent # None
  BY <1>2, NoneIsNoInventory
<1> QED BY <1>3, <1>4 DEF StoreStep, Store!store, Store!Next, Store!Commit

(* There is one claim, so whoever stays in the set of claims stays owner.   *)
LEMMA SameOwner ==
    ASSUME StoreInv, StoreInv', ~Unowned, ~Unowned',
           Claims' \subseteq Claims \/ Claims \subseteq Claims'
    PROVE  DurableOwner' = DurableOwner
<1>1. DurableOwner \in Claims \ {None} /\ DurableOwner' \in Claims' \ {None}
  BY StoreView, ViewThen DEF View, Owning
<1>2. OneClaim /\ OneClaim'
  BY DEF StoreInv, CrashInv, Core
<1> QED BY <1>1, <1>2 DEF OneClaim

(* A transaction that is sure stays sure when versions of it are lost, and  *)
(* whichever is left leads to the same snapshot.                            *)
LEMMA SureKept ==
    ASSUME TypeOK, Core, TxType', NEW x \in Txns, NEW gen, Sure(x, gen), Narrowed(x)
    PROVE  /\ FALSE \notin txOld'[x].ent
           /\ \A d \in txOld'[x].pend : d # None /\ d.base = gen
           /\ tx'[x].pend \in txOld'[x].pend /\ tx'[x].pend.snap.gen = gen + 1
           /\ tx'[x].pend = tx[x].pend \/ tx'[x].pend.snap = st.snapshot
           /\ gen \in Nat
<1>1. MayExist(x) /\ tx'[x].pend \in txOld'[x].pend /\ tx'[x].pend \in txOld[x].pend
  BY SureExists DEF TypeOK, TxType, Narrowed
<1>2. tx'[x].pend # None /\ tx'[x].pend.base = gen
  BY <1>1 DEF Sure
<1>3. PendSafe(x, tx'[x].pend)
  BY <1>1, <1>2 DEF Core, PendOK
<1>4. tx'[x].pend \in PendingRecords
  BY <1>1, <1>2 DEF TypeOK, TxType, TxOldRecords, OrNone
<1> QED BY <1>1, <1>2, <1>3, <1>4 DEF Sure, Narrowed, PendSafe, Wellformed, PendingRecords

(* A sync, or a loss of power, leaves one version of the state: the store   *)
(* gets or loses its owner, takes the snapshot that was pending, or stays.  *)
LEMMA Collapses ==
    ASSUME StoreInv, StoreInv', stOld' = {st'}, st'.claim \in Claims, st'.snapshot \in Snaps,
           \A x \in Txns : FALSE \notin txOld[x].ent => Narrowed(x),
           \A x \in Txns : MayExist(x)' => MayExist(x) \/ tx'[x].pend = None
    PROVE  StoreStep
<1>0. /\ TypeOK /\ Core /\ OneOlder /\ Fresh /\ StateType /\ TxType /\ TxType'
      /\ st.claim \in Claims
  BY StateSets DEF StoreInv, CrashInv, TypeInv, TypeOK
<1>1. Claims' = {st'.claim} /\ Snaps' = {st'.snapshot} /\ Claims' \subseteq Claims
  BY StateSynced
<1>2. ASSUME st'.claim = None  PROVE StoreStep
  <2>1. Unowned'
    BY <1>1, <1>2 DEF Unowned
  <2>2. ASSUME ~Unowned  PROVE NoSure
    BY <1>0, <1>2, LooseClaim, SureExists DEF NoSure
  <2> QED BY <2>1, <2>2, StaysUnowned, Releases
<1>3. ASSUME st'.claim # None  PROVE StoreStep
  <2>1. ~Unowned' /\ Claims # {None}
    BY <1>1, <1>3 DEF Unowned
  <2>2. DurableSnapshot' = st'.snapshot
    BY <1>1, <2>1, ViewThen DEF View, Owning
  <2>3. ASSUME NEW y \in Txns, Sure(y, DurableSnapshot.gen)'
        PROVE  MayExist(y) /\ \A d \in txOld'[y].pend : d.base = st'.snapshot.gen
    <3>1. FALSE \notin txOld'[y].ent /\ \A d \in txOld'[y].pend : d # None /\ d.base = st'.snapshot.gen
      BY <2>2, <2>3 DEF Sure
    <3>2. /\ tx'[y].ent \in txOld'[y].ent /\ tx'[y].ent \in BOOLEAN
          /\ tx'[y].pend \in txOld'[y].pend
      BY <1>0 DEF TxType, TxRecords
    <3>3. MayExist(y)'
      BY <3>1, <3>2 DEF MayExist
    <3> QED BY <3>1, <3>2, <3>3
  <2>4. CASE Unowned
    <3>1. st.claim # None /\ None \in Claims
      BY <1>3, <2>4 DEF Unowned
    <3>2. (\A x \in Txns : ~MayExist(x)) /\ Snaps = {st.snapshot}
      BY <1>0, <2>1, <3>1, LooseClaim
    <3>3. NoSure'
      BY <2>3, <3>2 DEF NoSure
    <3>4. DurableSnapshot'.entries = NoMap
      BY <1>0, <2>2, <3>1, <3>2 DEF Fresh
    <3> QED BY <2>1, <2>4, <3>3, <3>4, Acquires
  <2>5. CASE ~Unowned
    <3>p. PICK D : D = DurableSnapshot
      OBVIOUS
    <3>1. DurableOwner' = DurableOwner
      BY <1>1, <2>1, <2>5, SameOwner
    <3>2. D \in Snaps /\ (D = st.snapshot \/ Behind(D)) /\ \A n \in Snaps : n = st.snapshot \/ n = D
      BY <2>5, <3>p, StoreView DEF View, Owning
    <3>3. ASSUME NEW x \in Txns, Sure(x, D.gen)
          PROVE  /\ FALSE \notin txOld'[x].ent /\ MayExist(x) /\ D.gen \in Nat
                 /\ \A d \in txOld'[x].pend : d # None /\ d.base = D.gen
                 /\ tx'[x].pend \in txOld'[x].pend /\ tx'[x].pend.snap.gen = D.gen + 1
                 /\ tx'[x].pend = tx[x].pend \/ tx'[x].pend.snap = st.snapshot
      <4>1. Narrowed(x)
        BY <3>3 DEF Sure
      <4> QED BY <1>0, <3>3, <4>1, SureKept, SureExists
    <3>4. ASSUME D # st.snapshot
          PROVE  \E y \in Txns : /\ Sure(y, D.gen) /\ tx[y].pend.snap = st.snapshot
                                 /\ st.snapshot.gen = D.gen + 1 /\ D.gen \in Nat
      <4>1. PICK y \in Txns : /\ DurablePend(y)
                              /\ tx[y].pend.base = D.gen /\ tx[y].pend.snap = st.snapshot
        BY <3>2, <3>4 DEF Behind
      <4> QED BY <1>0, <3>2, <4>1, OlderGen
    <3>5. CASE st'.snapshot = D
      <4>1. DurableSnapshot' = DurableSnapshot
        BY <2>2, <3>5, <3>p
      <4>2. ASSUME NEW x \in Txns, Sure(x, D.gen)
            PROVE  Sure(x, DurableSnapshot.gen)' /\ tx'[x].pend.snap = tx[x].pend.snap
        <5>1. Sure(x, DurableSnapshot.gen)'
          BY <2>2, <3>3, <3>5, <4>2 DEF Sure
        <5>2. CASE tx'[x].pend # tx[x].pend
          <6>0. /\ tx'[x].pend.snap = st.snapshot /\ tx'[x].pend.snap.gen = D.gen + 1
                /\ D.gen \in Nat
            BY <3>3, <4>2, <5>2
          <6>1. tx'[x].pend.snap = st.snapshot /\ D # st.snapshot
            BY <6>0
          <6>2. PICK y \in Txns : Sure(y, D.gen) /\ tx[y].pend.snap = st.snapshot
            BY <3>4, <6>1
          <6>3. x = y
            BY <1>0, <3>3, <4>2, <6>2 DEF Core, OneTxn
          <6> QED BY <5>1, <6>1, <6>2, <6>3
        <5> QED BY <5>1, <5>2
      <4> QED BY <2>1, <2>5, <3>1, <3>p, <4>1, <4>2, Advances
    <3>6. CASE st'.snapshot # D
      <4>1. st'.snapshot = st.snapshot /\ D # st.snapshot
        BY <3>2, <3>6
      <4>2. PICK y \in Txns : /\ Sure(y, D.gen) /\ tx[y].pend.snap = st.snapshot
                              /\ st.snapshot.gen = D.gen + 1 /\ D.gen \in Nat
        BY <3>4, <4>1
      <4>3. NoSure'
        <5> SUFFICES ASSUME NEW z \in Txns, Sure(z, DurableSnapshot.gen)'  PROVE FALSE
          BY DEF NoSure
        <5>1. z = y
          BY <1>0, <2>3, <3>3, <4>2 DEF Core, OneTxn
        <5>2. tx'[y].pend.base = D.gen /\ tx'[y].pend.base = st'.snapshot.gen
          BY <2>3, <3>3, <4>2, <5>1
        <5>3. D.gen = D.gen + 1
          BY <4>1, <4>2, <5>2
        <5> QED BY <4>2, <5>3
      <4> QED BY <2>1, <2>2, <2>5, <3>1, <3>p, <4>1, <4>2, <4>3, Commits
    <3> QED BY <3>5, <3>6
  <2> QED BY <2>4, <2>5
<1> QED BY <1>2, <1>3

(* A write to the transactions that takes no sure intent away.              *)
LEMMA KeepsSure ==
    ASSUME StoreInv, StoreInv', UNCHANGED <<st, stOld>>,
           ~Unowned => \A x \in Txns : Sure(x, DurableSnapshot.gen) =>
               /\ FALSE \notin txOld'[x].ent
               /\ txOld'[x].pend \subseteq txOld[x].pend
               /\ tx'[x].pend = tx[x].pend
    PROVE  StoreStep
<1>1. Claims' = Claims /\ DurableSnapshot' = DurableSnapshot /\ Unowned' = Unowned
  BY DEF Claims, DurableSnapshot, OwnedSnapshots, Unowned
<1>2. CASE Unowned
  BY <1>1, <1>2, StaysUnowned
<1>3. CASE ~Unowned
  <2>1. \A x \in Txns : Sure(x, DurableSnapshot.gen) =>
            Sure(x, DurableSnapshot.gen)' /\ tx'[x].pend.snap = tx[x].pend.snap
    BY <1>1, <1>3 DEF Sure
  <2> QED BY <1>1, <1>3, <2>1, SameOwner, Advances
<1> QED BY <1>2, <1>3

(* What a step of a command may do to the state and the transactions.       *)
Unpublishing(p) ==
    (\E file \in DOMAIN EmptyState : WipeFile(p, file)) \/ InitSnapshot(p) \/ Scrub(p)
Syncing(p) == SyncState(p) \/ RemoveState(p) \/ WipeSync(p) \/ Recover(p)
Opening(p) == (Prepare(p) \/ RetireUnplanned(p)) /\ \E x \in Txns : MakeTransaction(x)
Overwriting(p) == WritePlan(p) \/ WriteResetIntent(p)
Transacting(p) ==
    \/ Drop(p) \/ DropSync(p) \/ CopyPayload(p) \/ SyncPayloads(p) \/ WritePending(p)
    \/ SyncPending(p) \/ RemoveDisposable(p)
DiskStep(p) ==
    \/ UNCHANGED <<st, stOld, tx, txOld>>
    \/ Unpublishing(p) \/ Syncing(p) \/ Opening(p) \/ Overwriting(p) \/ Transacting(p)
    \/ InitClaim(p) \/ CommitSnapshot(p) \/ Unclaim(p)
(* These are all the ways a step changes either.                            *)
LEMMA StepOnDisk ==
    ASSUME NEW p \in Procs, Step(p)
    PROVE  DiskStep(p)
<1> USE DEF DiskStep, disk, stVars, txVars
<1>1. CASE Locking(p)
  BY <1>1 DEF Locking, AcquireRegistry, AcquireGeneration, SpawnChild, AcquirePublication
<1>2. CASE Claiming(p)
  BY <1>2 DEF Claiming, ValidateRegistry, LoadClaim, Released, Unpublishing, Syncing
<1>3. CASE Recovering(p)
  BY <1>3 DEF Recovering, Sweep, Recovered, Syncing, Transacting
<1>4. CASE Applying(p)
  BY <1>4 DEF Applying, ApplyPending, CheckOutput, ActOnOutput, SyncOutput, OutputsDone,
     Transacting
<1>5. CASE Generating(p)
  <2>1. CASE Prepare(p)
    BY <2>1 DEF Prepare, Opening
  <2> QED BY <1>5, <2>1 DEF Generating, Validated, RebuildStaging, Protoc, Verify,
       CheckPublished, DiscardStaging, Transacting
<1>6. CASE Configuring(p)
  <2>1. CASE RetireUnplanned(p)
    BY <2>1 DEF RetireUnplanned, Opening
  <2> QED BY <1>6, <2>1 DEF Configuring, RemoveStaging, SyncStaging, ReturnToken, StoreToken,
       Overwriting
<1>7. CASE Resetting(p)
  BY <1>7 DEF Resetting, ResumeReset, Purge, Syncing, Overwriting, Transacting, Unpublishing
<1> QED BY <1>1, <1>2, <1>3, <1>4, <1>5, <1>6, <1>7 DEF Step

(* Files are written outside a claim only where none can survive,           *)
LEMMA Unpublishes ==
    ASSUME CrashInv, NEW p \in Procs, Unpublishing(p)
    PROVE  /\ Claims = {None} /\ Claims' = {None} /\ st.claim = None /\ st'.claim = None
           /\ UNCHANGED <<tx, txOld>> /\ \A x \in Txns : ~MayExist(x)
<1>0. StateType /\ KnowsState(pc[p], job[p]) /\ TxnClaimed /\ st.claim \in Claims
  BY StateSets DEF CrashInv, TypeInv, TypeOK, Knows, Core
<1>1. pc[p] \in {"wipe", "init", "scrub"} /\ UNCHANGED <<tx, txOld>>
  BY DEF Unpublishing, WipeFile, InitSnapshot, Scrub, txVars
<1>2. Claims = {None} /\ st.claim = None
  BY <1>0, <1>1 DEF KnowsState, Unpublished
<1>3. ASSUME NEW file \in {"plan", "snapshot", "reset"}, NEW v, WriteState(file, v)
      PROVE  Claims' = Claims /\ st'.claim = st.claim
  BY <1>0, <1>3, PlanWritten, SnapshotWritten, ResetWritten
<1>4. Claims' = {None} /\ st'.claim = None
  <2>1. ASSUME NEW file \in DOMAIN EmptyState, WipeFile(p, file)
        PROVE  Claims' = {None} /\ st'.claim = None
    <3>1. file # "claim"
      BY <1>2, <2>1 DEF WipeFile
    <3>2. file \in {"plan", "snapshot", "reset"}
      BY <3>1 DEF EmptyState
    <3> QED BY <1>2, <1>3, <2>1, <3>2 DEF WipeFile
  <2>2. CASE InitSnapshot(p)
    BY <1>2, <1>3, <2>2 DEF InitSnapshot
  <2>3. CASE Scrub(p)
    <3>1. PICK i \in 1..3 : WriteState(ScrubOrder[i], None)
      BY <2>3 DEF Scrub
    <3>2. ScrubOrder[i] \in {"plan", "snapshot", "reset"}
      BY DEF ScrubOrder
    <3> QED BY <1>2, <1>3, <3>1, <3>2
  <2> QED BY <2>1, <2>2, <2>3 DEF Unpublishing
<1> QED BY <1>0, <1>1, <1>2, <1>4 DEF TxnClaimed

(* a sync leaves the state as it is and narrows the transactions,           *)
LEMMA Syncs ==
    ASSUME CrashInv, NEW p \in Procs, Syncing(p)
    PROVE  /\ st' = st
           /\ \/ UNCHANGED <<stOld, tx, txOld>>
              \/ /\ stOld' = {st'}
                 /\ \A x \in Txns : MayExist(x)' => MayExist(x)
                 /\ Narrowing
<1>0. TxType /\ Core
  BY DEF CrashInv, TypeInv, TypeOK
<1>1. ASSUME Narrowing, NEW x \in Txns, MayExist(x)'  PROVE MayExist(x)
  BY <1>1 DEF Narrowing, Narrowed, MayExist
<1>2. CASE SyncState(p) \/ RemoveState(p)
  BY <1>2 DEF SyncState, RemoveState, txVars, Narrowing, Narrowed, MayExist
<1>3. CASE WipeSync(p)
  <2>1. Claims = {None}
    BY <1>3 DEF WipeSync, CrashInv, Knows, KnowsState, Unpublished
  <2>2. \A x \in Txns : FALSE \in txOld[x].ent
    BY <1>0, <2>1, NotThere DEF Core, TxnClaimed
  <2>3. \A x \in Txns : txOld'[x] = NoTxOld
    BY <1>3 DEF WipeSync
  <2>4. ASSUME NEW x \in Txns  PROVE ~MayExist(x)'
    <3>1. txOld'[x] = NoTxOld
      BY <2>3
    <3>2. txOld'[x].ent = {FALSE}
      BY <3>1 DEF NoTxOld
    <3> QED BY <3>2 DEF MayExist
  <2>5. Narrowing
    BY <2>2, <2>4 DEF Narrowing
  <2> QED BY <1>1, <1>3, <2>5 DEF WipeSync
<1>4. CASE Recover(p)
  <2>1. UNCHANGED <<st, tx>>
    BY <1>4 DEF Recover
  <2>2. ASSUME NEW x \in Pendings, stOld' = {st},
               txOld' = [EntriesSynced(txOld, tx) EXCEPT ![x].pend = {tx[x].pend}]
        PROVE  stOld' = {st'} /\ Narrowing
    BY <1>0, <2>1, <2>2, RecoverNarrows
  <2> QED BY <1>1, <1>4, <2>1, <2>2 DEF Recover
<1> QED BY <1>2, <1>3, <1>4 DEF Syncing

(* a transaction is opened where there is none.                             *)
LEMMA Opens ==
    ASSUME CrashInv, CrashInv', NEW p \in Procs, Opening(p)
    PROVE  /\ st' = st /\ stOld' = {st'}
           /\ \A x \in Txns : FALSE \in txOld[x].ent
           /\ \A x \in Txns : MayExist(x)' => txOld'[x].pend = {None} /\ tx'[x].pend = None
<1>1. PICK x \in Txns : MakeTransaction(x)
  BY DEF Opening
<1>2. pc[p] \in {"prepare", "retire"} /\ UNCHANGED outVars
  BY DEF Opening, Prepare, RetireUnplanned
<1>3. /\ \A y \in Txns : FALSE \in txOld[y].ent /\ (MayExist(y)' => y = x)
      /\ txOld'[x].pend = {None}
  BY <1>1, <1>2, NewTransactionCore DEF CrashInv
<1>4. tx'[x].pend \in txOld'[x].pend
  BY DEF CrashInv, TypeInv, TypeOK, TxType
<1> QED BY <1>1, <1>3, <1>4 DEF MakeTransaction
(* A transaction that is left as sure as it was; one that is not sure, or   *)
(* whose intent has been committed already; and one that does not get ahead *)
(* of an intent to reset.                                                   *)
Lessened(x) ==
    /\ txOld'[x].ent \subseteq txOld[x].ent /\ txOld'[x].pend \subseteq txOld[x].pend
    /\ tx'[x].pend = tx[x].pend
Spent(x) ==
    \/ FALSE \in txOld[x].ent \/ None \in txOld[x].pend
    \/ Snaps = {st.snapshot} /\ \E d \in txOld[x].pend : d # None /\ d.snap = st.snapshot
Settles(x) == MayExist(x)' =>
    st.reset = None \/ (MayExist(x) /\ txOld'[x].pend \subseteq txOld[x].pend \cup {None})

(* A write to the files of one transaction.                                 *)
LEMMA WriteTxSettles ==
    ASSUME TxType, NEW x \in Txns, NEW new, WriteTx(x, new), tx[x].ent, Spent(x),
           new.pend \in {None, tx[x].pend} \/ st.reset = None
    PROVE  \A y \in Txns : Settles(y) /\ (Lessened(y) \/ Spent(y))
<1>1. /\ \A y \in Txns : y # x => tx'[y] = tx[y] /\ txOld'[y] = txOld[y]
      /\ txOld'[x].ent = txOld[x].ent \cup {new.ent}
      /\ txOld'[x].pend = txOld[x].pend \cup {new.pend}
  BY TxWritten
<1>2. MayExist(x) /\ tx[x].pend \in txOld[x].pend
  BY NotThere DEF TxType
<1>3. ASSUME NEW y \in Txns, y # x  PROVE Settles(y) /\ Lessened(y)
  BY <1>1, <1>3 DEF Settles, Lessened, MayExist
<1>4. Settles(x)
  BY <1>1, <1>2 DEF Settles
<1> QED BY <1>3, <1>4

(* What writes and removes transactions between a claim and its release.    *)
LEMMA Transacts ==
    ASSUME StoreInv, NEW p \in Procs, Transacting(p)
    PROVE  /\ UNCHANGED <<st, stOld>>
           /\ \A x \in Txns : Settles(x) /\ (Lessened(x) \/ Spent(x))
<1>p. PICK x, j : x = job[p].txn /\ j = job[p]
  OBVIOUS
<1>0. /\ TxType /\ StateType /\ Core /\ UNCHANGED <<st, stOld>> /\ x = j.txn
      /\ KnowsState(pc[p], j) /\ KnowsTxn(pc[p], j) /\ LocalOK(pc[p], j)
      /\ pc[p] \in Claimed => st.claim # None
  <2>1. UNCHANGED <<st, stOld>>
    BY DEF Transacting, Drop, DropSync, CopyPayload, SyncPayloads, WritePending, SyncPending,
       RemoveDisposable, stVars
  <2>2. pc[p] \in Claimed => st.claim # None
    BY NoneIsNoRecord DEF StoreInv, CrashInv, TypeInv, Shape, DiskOK
  <2> QED BY <1>p, <2>1, <2>2 DEF StoreInv, CrashInv, TypeInv, TypeOK, Shape, Knows
<1>1. CASE Drop(p)
  <2>1. /\ pc[p] = "drop" /\ x \in Txns /\ tx[x].ent /\ Snaps = {st.snapshot}
        /\ tx[x].pend # None => tx[x].pend.snap = st.snapshot
    BY <1>0, <1>1 DEF Drop, KnowsState, KnowsTxn, SnapSure, LocalOK, WithTxn, Committing
  <2>2. tx[x].pend \in txOld[x].pend /\ tx[x] \in TxRecords
    BY <1>0, <2>1 DEF TxType
  <2>3. Spent(x)
    BY <2>1, <2>2 DEF Spent
  <2>4. PICK new : WriteTx(x, new) /\ new.pend \in {None, tx[x].pend}
    <3>1. [tx[x] EXCEPT !.pay = NoMap].pend = tx[x].pend /\ [tx[x] EXCEPT !.pend = None].pend = None
      BY <2>2 DEF TxRecords
    <3>2. NoTx.pend = None
      BY DEF NoTx
    <3> QED BY <1>1, <1>p, <3>1, <3>2 DEF Drop
  <2> QED BY <1>0, <2>1, <2>3, <2>4, WriteTxSettles
<1>2. CASE DropSync(p)
  <2>1. txOld' = EntriesSynced(txOld, tx) /\ tx' = tx
    BY <1>2 DEF DropSync
  <2>2. Narrowing
    BY <1>0, <2>1, EntriesSyncNarrows
  <2>3. ASSUME NEW y \in Txns  PROVE Settles(y) /\ (Lessened(y) \/ Spent(y))
    <3>1. MayExist(y)' \/ FALSE \notin txOld[y].ent => Narrowed(y)
      BY <2>2 DEF Narrowing
    <3>2. Settles(y)
      BY <3>1 DEF Settles, Narrowed, MayExist
    <3>3. Lessened(y) \/ FALSE \in txOld[y].ent
      BY <2>1, <3>1 DEF Lessened, Narrowed
    <3> QED BY <3>2, <3>3 DEF Spent
  <2> QED BY <1>0, <2>3
<1>3. CASE CopyPayload(p)
  <2>1. /\ pc[p] = "payload" /\ x \in Txns /\ tx[x].ent /\ txOld[x].pend = {None}
    BY <1>0, <1>3 DEF CopyPayload, KnowsTxn, LocalOK, WithTxn
  <2>2. CASE UNCHANGED txVars
    BY <1>0, <2>2 DEF txVars, Settles, Lessened, MayExist
  <2>3. ASSUME NEW new, WriteTx(x, new), new.pend = tx[x].pend
        PROVE  \A y \in Txns : Settles(y) /\ (Lessened(y) \/ Spent(y))
    BY <1>0, <2>1, <2>3, WriteTxSettles DEF Spent
  <2>4. \A pay : [tx[x] EXCEPT !.pay = pay].pend = tx[x].pend
    BY <1>0, <2>1 DEF TxType, TxRecords
  <2>5. UNCHANGED txVars \/ \E pay : WriteTx(x, [tx[x] EXCEPT !.pay = pay])
    BY <1>3, <1>p DEF CopyPayload
  <2> QED BY <1>0, <2>2, <2>3, <2>4, <2>5
<1>4. CASE SyncPayloads(p)
  <2>1. x \in Txns /\ tx' = tx /\ txOld' = [txOld EXCEPT ![x].pay = {tx[x].pay}]
    BY <1>0, <1>4, <1>p DEF SyncPayloads, LocalOK, WithTxn
  <2>2. \A y \in Txns : txOld'[y].ent = txOld[y].ent /\ txOld'[y].pend = txOld[y].pend
    BY <1>0, <2>1 DEF TxType, TxOldRecords
  <2> QED BY <1>0, <2>1, <2>2 DEF Settles, Lessened, MayExist
<1>5. CASE WritePending(p)
  <2>1. /\ pc[p] = "pend" /\ x \in Txns /\ tx[x].ent /\ txOld[x].pend = {None}
        /\ st.claim # None /\ j.cmd # "reset"
    BY <1>0, <1>5 DEF WritePending, KnowsState, KnowsTxn, LocalOK, WithTxn, Claimed
  <2>2. st.reset = None
    BY <1>p, <2>1 DEF StoreInv, Stopped, Building
  <2>3. PICK new : WriteTx(x, new)
    BY <1>5, <1>p DEF WritePending
  <2> QED BY <1>0, <2>1, <2>2, <2>3, WriteTxSettles DEF Spent
<1>6. CASE SyncPending(p)
  <2>1. x \in Txns /\ tx' = tx /\ txOld' = [txOld EXCEPT ![x].pend = {tx[x].pend}]
    BY <1>0, <1>6, <1>p DEF SyncPending, LocalOK, WithTxn
  <2>2. \A y \in Txns : txOld'[y].ent = txOld[y].ent /\ txOld'[y].pend \subseteq txOld[y].pend
    BY <1>0, <2>1 DEF TxType, TxOldRecords
  <2> QED BY <1>0, <2>1, <2>2 DEF Settles, Lessened, MayExist
<1>7. CASE RemoveDisposable(p)
  <2>1. pc[p] = "disposable" /\ Snaps = {st.snapshot} /\ None \notin Resets
    BY <1>0, <1>7 DEF RemoveDisposable, KnowsState, SnapSure, Purging
  <2>2. st.reset # None
    BY <1>0, <2>1, StateSets
  <2>3. ASSUME NEW y \in Txns  PROVE Settles(y) /\ Spent(y)
    <3>1. txOld'[y] = NoTxOld
      BY <1>7 DEF RemoveDisposable
    <3>2. txOld'[y].ent = {FALSE}
      BY <3>1 DEF NoTxOld
    <3>3. Settles(y)
      BY <3>2 DEF Settles, MayExist
    <3>4. ASSUME FALSE \notin txOld[y].ent  PROVE Spent(y)
      <4>1. MayExist(y) /\ tx[y].pend \in txOld[y].pend
        BY <1>0, <3>4, NotThere DEF TxType
      <4>2. \A d \in txOld[y].pend : d # None => d.snap = st.snapshot
        BY <2>2, <4>1 DEF StoreInv, Quiescent
      <4> QED BY <2>1, <4>1, <4>2 DEF Spent
    <3> QED BY <3>3, <3>4 DEF Spent
  <2> QED BY <1>0, <2>3
<1> QED BY <1>1, <1>2, <1>3, <1>4, <1>5, <1>6, <1>7 DEF Transacting

(* None of them takes a sure intent away.                                   *)
LEMMA TransactsKeeps ==
    ASSUME StoreInv, StoreInv', NEW p \in Procs, Transacting(p)
    PROVE  StoreStep
<1>0. /\ UNCHANGED <<st, stOld>> /\ TypeOK /\ TxType /\ Core
      /\ \A x \in Txns : Lessened(x) \/ Spent(x)
  BY Transacts DEF StoreInv, CrashInv, TypeInv, TypeOK
<1>1. ASSUME ~Unowned, NEW x \in Txns, Sure(x, DurableSnapshot.gen), Spent(x)
      PROVE  FALSE
  <2>1. DurableSnapshot \in Snaps
    BY <1>1, StoreView DEF View, Owning
  <2>2. PICK d \in txOld[x].pend : d # None /\ d.snap = st.snapshot /\ d.base = st.snapshot.gen
    BY <1>1, <2>1 DEF Spent, Sure
  <2>3. PendSafe(x, d)
    BY <1>0, <1>1, <2>2, SureExists DEF Core, PendOK
  <2>4. d \in PendingRecords
    BY <1>0, <2>2 DEF TxType, TxOldRecords, OrNone
  <2>5. d.base = d.base + 1 /\ d.base \in Nat
    BY <2>2, <2>3, <2>4 DEF PendSafe, Wellformed, PendingRecords
  <2> QED BY <2>5
<1>2. ~Unowned => \A x \in Txns : Sure(x, DurableSnapshot.gen) =>
          /\ FALSE \notin txOld'[x].ent /\ txOld'[x].pend \subseteq txOld[x].pend
          /\ tx'[x].pend = tx[x].pend
  BY <1>0, <1>1 DEF Lessened, Sure
<1> QED BY <1>0, <1>2, KeepsSure
(* Where a command writes a file of the state that belongs to a claim.      *)
Replacing == {"claim", "plan", "intent", "unclaim", "snap"}
(* It knows the snapshot there, and leaves the transactions alone;          *)
LEMMA Replaces ==
    ASSUME StoreInv, NEW p \in Procs,
           InitClaim(p) \/ Overwriting(p) \/ Unclaim(p) \/ CommitSnapshot(p)
    PROVE  /\ pc[p] \in Replacing /\ Snaps = {st.snapshot} /\ UNCHANGED <<tx, txOld>>
           /\ StateType /\ TxType /\ Core
           /\ pc[p] \in {"plan", "intent"} => \A x \in Txns : ~tx[x].ent
           /\ pc[p] = "unclaim" => \A x \in Txns : ~MayExist(x)
           /\ pc[p] # "claim" => st.claim # None
<1>1. pc[p] \in Replacing /\ UNCHANGED <<tx, txOld>>
  BY DEF InitClaim, Overwriting, Unclaim, CommitSnapshot, WritePlan, WriteResetIntent, Replacing,
     txVars
<1>2. KnowsState(pc[p], job[p]) /\ KnowsTxn(pc[p], job[p]) /\ Shape(p)
  BY DEF StoreInv, CrashInv, TypeInv, Knows
<1>3. pc[p] # "claim" => st.claim # None
  BY <1>1, <1>2, NoneIsNoRecord DEF Shape, DiskOK, Claimed, Replacing
<1>4. Snaps = {st.snapshot}
  BY <1>1, <1>2 DEF KnowsState, SnapSure, Replacing
<1>5. /\ pc[p] \in {"plan", "intent"} => \A x \in Txns : ~tx[x].ent
      /\ pc[p] = "unclaim" => \A x \in Txns : ~MayExist(x)
  BY <1>2 DEF KnowsTxn, NoTxns
<1> QED BY <1>1, <1>3, <1>4, <1>5 DEF StoreInv, CrashInv, TypeInv, TypeOK

(* a claim is written where none can survive, over an empty snapshot;       *)
LEMMA ClaimsOne ==
    ASSUME StoreInv, NEW p \in Procs, InitClaim(p)
    PROVE  /\ Claims = {None} /\ st.claim = None /\ st'.claim # None /\ None \in Claims'
           /\ st'.snapshot = st.snapshot /\ Snaps' = {st'.snapshot}
           /\ st'.snapshot.entries = NoMap /\ \A x \in Txns : ~MayExist(x)
<1>0. pc[p] = "claim" /\ Snaps = {st.snapshot} /\ StateType /\ Core
  BY Replaces DEF InitClaim
<1>1. Claims = {None} /\ st.snapshot.entries = NoMap
  BY <1>0 DEF StoreInv, CrashInv, Knows, KnowsState, Unpublished
<1>2. WriteState("claim", [build |-> job[p].build, token |-> job[p].token])
  BY DEF InitClaim
<1>3. /\ st'.claim = [build |-> job[p].build, token |-> job[p].token]
      /\ Claims' = Claims \cup {[build |-> job[p].build, token |-> job[p].token]}
      /\ st'.snapshot = st.snapshot /\ Snaps' = Snaps
  BY <1>0, <1>2, ClaimWritten
<1>4. [build |-> job[p].build, token |-> job[p].token] \in ClaimRecords
  BY <1>0 DEF StoreInv, CrashInv, TypeInv, TypeOK, ControlType, Shape, LocalOK, ClaimRecords
<1> QED BY <1>0, <1>1, <1>3, <1>4, StateSets, NoneIsNoRecord DEF Core, TxnClaimed

(* a plan or an intent is written while nothing is pending;                 *)
LEMMA Overwrites ==
    ASSUME StoreInv, NEW p \in Procs, Overwriting(p)
    PROVE  /\ Claims' = Claims /\ st'.claim = st.claim
           /\ Snaps' = Snaps /\ st'.snapshot = st.snapshot /\ Snaps = {st.snapshot}
           /\ \A x \in Txns : MayExist(x) =>
                  \A d \in txOld[x].pend : d # None => d.snap = st.snapshot
<1>0. /\ pc[p] \in {"plan", "intent"} /\ Snaps = {st.snapshot} /\ StateType /\ TxType /\ Core
      /\ \A x \in Txns : ~tx[x].ent
  <2>1. pc[p] \in {"plan", "intent"}
    BY DEF Overwriting, WritePlan, WriteResetIntent
  <2> QED BY <2>1, Replaces
<1>1. Claims' = Claims /\ st'.claim = st.claim /\ Snaps' = Snaps /\ st'.snapshot = st.snapshot
  <2>1. CASE UNCHANGED stVars
    BY <2>1, StateKept DEF stVars
  <2>2. ASSUME NEW file \in {"plan", "reset"}, NEW v, WriteState(file, v)
        PROVE  /\ Claims' = Claims /\ st'.claim = st.claim
               /\ Snaps' = Snaps /\ st'.snapshot = st.snapshot
    BY <1>0, <2>2, PlanWritten, ResetWritten
  <2> QED BY <2>1, <2>2 DEF Overwriting, WritePlan, WriteResetIntent
<1>2. ASSUME NEW x \in Txns, MayExist(x), NEW d \in txOld[x].pend, d # None
      PROVE  d.snap = st.snapshot
  <2>1. tx[x] = NoTx
    BY <1>0 DEF TxType
  <2>2. d # tx[x].pend
    BY <1>2, <2>1 DEF NoTx
  <2> QED BY <1>0, <1>2, <2>2 DEF Core, PendOK, PendSafe
<1> QED BY <1>0, <1>1, <1>2

(* a claim is removed when every transaction is gone for certain;           *)
LEMMA Unclaims ==
    ASSUME StoreInv, NEW p \in Procs, Unclaim(p)
    PROVE  /\ Claims' = Claims \cup {None} /\ st.claim # None /\ st'.claim = None
           /\ Snaps' = Snaps /\ st'.snapshot = st.snapshot /\ Snaps = {st.snapshot}
           /\ \A x \in Txns : ~MayExist(x)
<1>0. pc[p] = "unclaim" /\ WriteState("claim", None)
  BY DEF Unclaim
<1> QED BY <1>0, Replaces, ClaimWritten

(* and a snapshot is committed while its transaction cannot be lost.        *)
LEMMA CommitsOne ==
    ASSUME StoreInv, NEW p \in Procs, CommitSnapshot(p)
    PROVE  /\ Claims' = Claims /\ None \notin Claims /\ st.claim # None /\ st'.claim = st.claim
           /\ Snaps = {st.snapshot} /\ Snaps' = {st.snapshot, st'.snapshot}
           /\ st'.snapshot.gen # st.snapshot.gen /\ st'.reset = None
<1>p. PICK x, d : x = job[p].txn /\ d = tx[x].pend
  OBVIOUS
<1>0. /\ pc[p] = "snap" /\ Snaps = {st.snapshot} /\ StateType /\ TxType /\ Core /\ st.claim # None
      /\ x \in Txns /\ x # None /\ WriteState("snapshot", d.snap)
      /\ KnowsTxn(pc[p], job[p]) /\ d \in PendingRecords /\ d # None
  <2>1. pc[p] = "snap" /\ Snaps = {st.snapshot} /\ st.claim # None /\ StateType /\ TxType /\ Core
    BY Replaces DEF CommitSnapshot
  <2>2. x \in Txns /\ KnowsTxn(pc[p], job[p])
    BY <1>p, <2>1 DEF StoreInv, CrashInv, TypeInv, Shape, LocalOK, WithTxn, Committing, Knows
  <2>3. d \in PendingRecords
    BY <1>p, <2>1, <2>2 DEF StoreInv, CrashInv, TypeInv, Shape, DiskOK, Replaying
  <2> QED BY <1>p, <2>1, <2>2, <2>3, NoneAssumption, NoneIsNoRecord DEF CommitSnapshot
<1>1. DurablePend(x) /\ d.base = st.snapshot.gen
  BY <1>0, <1>p DEF KnowsTxn, Applied, ValidNow
<1>2. MayExist(x) /\ PendSafe(x, d)
  BY <1>0, <1>1, <1>p DEF DurablePend, MayExist, Core, PendOK
<1>3. d.snap.gen # st.snapshot.gen
  <2>1. d.base \in Nat /\ d.snap.gen = d.base + 1
    BY <1>0, <1>2 DEF PendSafe, Wellformed, PendingRecords
  <2> QED BY <1>1, <2>1
<1>4. st.reset = None
  <2>1. CASE job[p].cmd = "reset"
    BY <1>0, <2>1 DEF StoreInv, Ready, Resuming, Recovery
  <2>2. CASE job[p].cmd # "reset"
    BY <1>0, <2>2 DEF StoreInv, Stopped, Building
  <2> QED BY <2>1, <2>2
<1>5. /\ Claims' = Claims /\ st'.claim = st.claim /\ st'.snapshot = d.snap
      /\ Snaps' = Snaps \cup {d.snap} /\ st'.reset = st.reset
  BY <1>0, SnapshotWritten
<1> QED BY <1>0, <1>2, <1>3, <1>4, <1>5 DEF Core, TxnClaimed
(* So a step of a command leaves at most one older snapshot, an empty one   *)
(* under a claim that may be lost, and nothing pending that an intent to    *)
(* reset would cut off.                                                     *)
LEMMA DiskStepKeepsStoreInv ==
    ASSUME StoreInv, CrashInv', NEW p \in Procs, DiskStep(p)
    PROVE  OneOlder' /\ Fresh' /\ Quiescent'
<1>0. OneOlder /\ Fresh /\ Quiescent /\ CrashInv /\ st.claim \in Claims
  BY StateSets DEF StoreInv, CrashInv, TypeInv, TypeOK
<1>a. UNCHANGED <<st, stOld>> => OneOlder' /\ Fresh'
  BY <1>0, StateKept DEF OneOlder, Fresh
<1>b. stOld' = {st'} => OneOlder' /\ Fresh'
  BY StateSynced DEF OneOlder, Fresh
<1>c. (\A x \in Txns : ~MayExist(x)) /\ UNCHANGED <<tx, txOld>> => Quiescent'
  BY DEF Quiescent, MayExist
<1>1. CASE UNCHANGED <<st, stOld, tx, txOld>>
  BY <1>0, <1>1, <1>a DEF Quiescent, MayExist
<1>2. CASE Unpublishing(p)
  <2>1. /\ Claims' = {None} /\ st'.claim = None /\ UNCHANGED <<tx, txOld>>
        /\ \A x \in Txns : ~MayExist(x)
    BY <1>0, <1>2, Unpublishes
  <2> QED BY <1>c, <2>1 DEF OneOlder, Fresh
<1>3. CASE Syncing(p)
  <2>1. st' = st
    BY <1>0, <1>3, Syncs
  <2>2. CASE UNCHANGED <<stOld, tx, txOld>>
    BY <1>1, <2>1, <2>2
  <2>3. CASE stOld' = {st'} /\ (\A x \in Txns : MayExist(x)' => MayExist(x)) /\ Narrowing
    <3>1. \A x \in Txns : MayExist(x)' => MayExist(x) /\ txOld'[x].pend \subseteq txOld[x].pend
      BY <2>3 DEF Narrowing, Narrowed
    <3> QED BY <1>0, <1>b, <2>1, <2>3, <3>1 DEF Quiescent
  <2> QED BY <1>0, <1>3, <2>2, <2>3, Syncs
<1>4. CASE Opening(p)
  <2>1. stOld' = {st'} /\ \A x \in Txns : MayExist(x)' => txOld'[x].pend = {None}
    BY <1>0, <1>4, Opens
  <2> QED BY <1>b, <2>1 DEF Quiescent
<1>5. CASE Overwriting(p)
  <2>1. /\ Claims' = Claims /\ st'.claim = st.claim
        /\ Snaps' = Snaps /\ st'.snapshot = st.snapshot /\ Snaps = {st.snapshot}
        /\ \A x \in Txns : MayExist(x) =>
               \A d \in txOld[x].pend : d # None => d.snap = st.snapshot
    BY <1>5, Overwrites
  <2>2. UNCHANGED <<tx, txOld>>
    BY <1>5, Replaces
  <2>3. OneOlder' /\ Fresh'
    BY <1>0, <2>1 DEF OneOlder, Fresh
  <2> QED BY <2>1, <2>2, <2>3 DEF Quiescent, MayExist
<1>6. CASE Transacting(p)
  <2>1. UNCHANGED <<st, stOld>> /\ \A x \in Txns : Settles(x)
    BY <1>6, Transacts
  <2>2. Quiescent'
    BY <1>0, <2>1 DEF Settles, Quiescent
  <2> QED BY <1>a, <2>1, <2>2
<1>7. CASE InitClaim(p)
  <2>1. /\ Snaps' = {st'.snapshot} /\ st'.snapshot.entries = NoMap
        /\ \A x \in Txns : ~MayExist(x)
    BY <1>7, ClaimsOne
  <2>2. UNCHANGED <<tx, txOld>>
    BY <1>7, Replaces
  <2> QED BY <1>c, <2>1, <2>2 DEF OneOlder, Fresh
<1>8. CASE CommitSnapshot(p)
  <2>1. /\ Claims' = Claims /\ None \notin Claims /\ st'.reset = None
        /\ Snaps' = {st.snapshot, st'.snapshot}
    BY <1>8, CommitsOne
  <2> QED BY <2>1 DEF OneOlder, Fresh, Quiescent
<1>9. CASE Unclaim(p)
  <2>1. /\ st'.claim = None /\ Snaps' = {st'.snapshot} /\ \A x \in Txns : ~MayExist(x)
    BY <1>9, Unclaims
  <2>2. UNCHANGED <<tx, txOld>>
    BY <1>9, Replaces
  <2> QED BY <1>c, <2>1, <2>2 DEF OneOlder, Fresh
<1> QED BY <1>1, <1>2, <1>3, <1>4, <1>5, <1>6, <1>7, <1>8, <1>9 DEF DiskStep

(* A loss of power leaves one version of each file, and takes transactions  *)
(* away.                                                                    *)
LEMMA LossLeavesOne ==
    ASSUME StoreInv, PowerLoss
    PROVE  /\ stOld' = {st'} /\ st'.claim \in Claims /\ st'.snapshot \in Snaps
           /\ st'.reset \in Resets /\ Narrowing
<1>0. StateType /\ TxType
  BY DEF StoreInv, CrashInv, TypeInv, TypeOK
<1>1. PICK s \in StateSurvivors : st' = s /\ stOld' = {s}
  BY DEF PowerLoss
<1> QED BY <1>0, <1>1, SurvivorSets, PowerLossNarrows

(* An intent that may survive a loss beside a transaction is the present    *)
(* one, and the snapshot is then the only one.                              *)
LEMMA IntentSettled ==
    ASSUME StoreInv, None \notin Claims, Resets # {None}
    PROVE  st.reset # None /\ Snaps = {st.snapshot}
<1>0. /\ StateType /\ TypeInv /\ Core /\ st.reset \in Resets /\ st.claim \in Claims
      /\ st.claim # None
  BY StateSets DEF StoreInv, CrashInv, TypeInv, TypeOK
<1>1. ASSUME NEW q \in Procs  PROVE pc[q] \notin {"scrub_sync", "wipe"}
  <2>1. KnowsState(pc[q], job[q])
    BY DEF StoreInv, CrashInv, Knows
  <2> QED BY <1>0, <2>1 DEF KnowsState, Unpublished
<1>2. ASSUME NEW q \in Procs, pc[q] = "intent_sync"  PROVE st.reset # None
  BY <1>0, <1>2, NoneIsNoRecord DEF TypeInv, Shape, DiskOK
<1>3. ASSUME NEW q \in Procs, pc[q] = "commit_sync"  PROVE st.reset = None
  <2>1. CASE job[q].cmd = "reset"
    BY <1>3, <2>1 DEF StoreInv, Ready, Resuming, Recovery
  <2>2. CASE job[q].cmd # "reset"
    BY <1>0, <1>3, <2>2 DEF StoreInv, Stopped, Building
  <2> QED BY <2>1, <2>2
<1>4. st.reset # None
  BY <1>0, <1>1, <1>2 DEF Core, ResetsOK, Here
<1> QED BY <1>0, <1>3, <1>4 DEF Core, ResetSettled, Here

(* So after a loss nothing is pending beside an intent either.              *)
LEMMA LossKeepsStoreInv ==
    ASSUME StoreInv, PowerLoss
    PROVE  OneOlder' /\ Fresh' /\ Quiescent'
<1>0. /\ stOld' = {st'} /\ st'.claim \in Claims /\ st'.snapshot \in Snaps
      /\ st'.reset \in Resets /\ Narrowing /\ Core /\ Quiescent
  BY LossLeavesOne DEF StoreInv, CrashInv
<1>1. OneOlder' /\ Fresh'
  BY <1>0, StateSynced DEF OneOlder, Fresh
<1>2. ASSUME st'.reset # None, NEW x \in Txns, MayExist(x)', NEW d \in txOld'[x].pend, d # None
      PROVE  d.snap = st'.snapshot
  <2>1. MayExist(x) /\ d \in txOld[x].pend
    BY <1>0, <1>2 DEF Narrowing, Narrowed, MayExist
  <2>2. st.reset # None /\ Snaps = {st.snapshot}
    BY <1>0, <1>2, <2>1, IntentSettled DEF Core, TxnClaimed
  <2> QED BY <1>0, <1>2, <2>1, <2>2 DEF Quiescent
<1> QED BY <1>1, <1>2 DEF Quiescent

(* Starting, killing and editing touch neither state nor transactions.      *)
LEMMA OtherSteps ==
    ASSUME Next, ~PowerLoss
    PROVE  UNCHANGED <<st, stOld, tx, txOld>> \/ \E p \in Procs : DiskStep(p)
<1>1. ASSUME NEW p \in Procs, Starting(p) \/ Kill(p) \/ ParentDies(p)
      PROVE  UNCHANGED <<st, stOld, tx, txOld>>
  BY <1>1 DEF Starting, StartConfigure, StartRetire, StartGenerate, StartReset, Start, Kill,
     ParentDies, disk
<1>2. ASSUME UserStep  PROVE UNCHANGED <<st, stOld, tx, txOld>>
  BY <1>2 DEF UserStep, UserWrites, UserDeletes, UserLinks, UserSets, stVars, txVars
<1>3. ASSUME AtRest  PROVE UNCHANGED <<st, stOld, tx, txOld>>
  BY <1>3 DEF AtRest, vars, disk
<1> QED BY <1>1, <1>2, <1>3, StepOnDisk DEF Next

(* The invariant is kept by every step.                                     *)
LEMMA StoreInvNext ==
    ASSUME BuildsStopped, StoreInv, [Next]_vars
    PROVE  StoreInv'
<1>0. TypeInv /\ CrashInv /\ ClaimInv /\ Stopped /\ \A p \in Procs : Ready(p)
  BY DEF StoreInv, CrashInv
<1>1. Beside
  BY <1>0 DEF Beside, Ready, Resuming, Settling
<1>2. CrashInv' /\ ClaimInv' /\ Stopped' /\ \A p \in Procs : Ready(p)'
  BY <1>0, <1>1, CrashInvNext, ClaimInvNext, StoppedNext, ReadyNext
<1>3. CASE UNCHANGED <<st, stOld, tx, txOld>>
  <2>1. OneOlder' /\ Fresh' /\ Quiescent'
    BY <1>3, StateKept DEF StoreInv, OneOlder, Fresh, Quiescent, MayExist
  <2> QED BY <1>2, <2>1 DEF StoreInv
<1>4. ASSUME NEW p \in Procs, DiskStep(p)  PROVE StoreInv'
  BY <1>2, <1>4, DiskStepKeepsStoreInv DEF StoreInv
<1>5. CASE PowerLoss
  BY <1>2, <1>5, LossKeepsStoreInv DEF StoreInv
<1>6. CASE UNCHANGED vars
  BY <1>3, <1>6 DEF vars, disk
<1> QED BY <1>3, <1>4, <1>5, <1>6, OtherSteps
(* Each step of a command is a step of the store or none: a write that a    *)
(* loss may take back is none, and the sync, the recovery or the removal    *)
(* that makes it last is the step.                                          *)
LEMMA DiskStepImplements ==
    ASSUME StoreInv, StoreInv', NEW p \in Procs, DiskStep(p)
    PROVE  StoreStep
<1>0. /\ CrashInv /\ CrashInv' /\ StateType /\ TxType /\ TxType' /\ Fresh
      /\ st.claim \in Claims /\ st.snapshot \in Snaps
  BY StateSets DEF StoreInv, CrashInv, TypeInv, TypeOK
<1>a. Unowned \/ (Owning /\ ~Unowned)
  BY StoreView DEF View
<1>b. Unowned' \/ (Owning' /\ ~Unowned')
  BY ViewThen DEF View
<1>1. CASE UNCHANGED <<st, stOld, tx, txOld>>
  BY <1>1, Stutters
<1>2. CASE Unpublishing(p)
  <2>1. Unowned /\ Unowned'
    BY <1>0, <1>2, Unpublishes DEF Unowned
  <2> QED BY <2>1, StaysUnowned
<1>3. CASE Syncing(p)
  <2>1. st' = st
    BY <1>0, <1>3, Syncs
  <2>2. CASE UNCHANGED <<stOld, tx, txOld>>
    BY <2>1, <2>2, Stutters
  <2>3. CASE stOld' = {st'} /\ (\A x \in Txns : MayExist(x)' => MayExist(x)) /\ Narrowing
    BY <1>0, <2>1, <2>3, Collapses DEF Narrowing
  <2> QED BY <1>0, <1>3, <2>2, <2>3, Syncs
<1>4. CASE Opening(p)
  <2>1. /\ st' = st /\ stOld' = {st'} /\ \A x \in Txns : FALSE \in txOld[x].ent
        /\ \A x \in Txns : MayExist(x)' => tx'[x].pend = None
    BY <1>0, <1>4, Opens
  <2> QED BY <1>0, <2>1, Collapses
<1>5. CASE Overwriting(p)
  <2>1. /\ Claims' = Claims /\ st'.claim = st.claim /\ UNCHANGED <<tx, txOld>>
        /\ Snaps = {st.snapshot} /\ Snaps' = {st.snapshot}
    BY <1>5, Overwrites, Replaces
  <2>2. Unowned' = Unowned
    BY <2>1 DEF Unowned
  <2>3. CASE Unowned
    BY <2>2, <2>3, StaysUnowned
  <2>4. CASE ~Unowned
    <3>1. DurableSnapshot = st.snapshot /\ DurableSnapshot' = st.snapshot
      BY <1>a, <1>b, <2>1, <2>2, <2>4 DEF Owning
    <3>2. \A x \in Txns : Sure(x, DurableSnapshot.gen) =>
              Sure(x, DurableSnapshot.gen)' /\ tx'[x].pend.snap = tx[x].pend.snap
      BY <2>1, <3>1 DEF Sure
    <3> QED BY <2>1, <2>2, <2>4, <3>1, <3>2, SameOwner, Advances
  <2> QED BY <2>3, <2>4
<1>6. CASE Transacting(p)
  BY <1>6, TransactsKeeps
<1>7. CASE InitClaim(p)
  <2>1. Unowned /\ Unowned'
    BY <1>7, ClaimsOne DEF Unowned
  <2> QED BY <2>1, StaysUnowned
<1>8. CASE CommitSnapshot(p)
  <2>1. /\ Claims' = Claims /\ None \notin Claims /\ st.claim # None /\ st'.claim = st.claim
        /\ Snaps = {st.snapshot} /\ Snaps' = {st.snapshot, st'.snapshot}
        /\ st'.snapshot.gen # st.snapshot.gen /\ UNCHANGED <<tx, txOld>>
    BY <1>8, CommitsOne, Replaces
  <2>2. ~Unowned /\ ~Unowned'
    BY <2>1 DEF Unowned
  <2>3. DurableSnapshot = st.snapshot /\ DurableSnapshot' = st.snapshot
    <3>1. DurableSnapshot = st.snapshot
      BY <1>a, <2>1, <2>2 DEF Owning
    <3>2. st.snapshot = st'.snapshot \/ st.snapshot = DurableSnapshot'
      BY <1>b, <2>1, <2>2 DEF Owning
    <3> QED BY <2>1, <3>1, <3>2
  <2>4. \A x \in Txns : Sure(x, DurableSnapshot.gen) =>
            Sure(x, DurableSnapshot.gen)' /\ tx'[x].pend.snap = tx[x].pend.snap
    BY <2>1, <2>3 DEF Sure
  <2> QED BY <2>1, <2>2, <2>3, <2>4, SameOwner, Advances
<1>9. CASE Unclaim(p)
  <2>1. /\ Claims' = Claims \cup {None} /\ st.claim # None /\ st'.claim = None
        /\ Snaps = {st.snapshot} /\ Snaps' = {st.snapshot} /\ UNCHANGED <<tx, txOld>>
        /\ \A x \in Txns : ~MayExist(x)
    BY <1>9, Unclaims, Replaces
  <2>2. ~Unowned'
    BY <1>0, <2>1 DEF Unowned
  <2>3. DurableSnapshot' = st.snapshot
    BY <1>b, <2>1, <2>2 DEF Owning
  <2>4. \A x \in Txns : ~Sure(x, DurableSnapshot.gen) /\ ~Sure(x, DurableSnapshot.gen)'
    <3> TAKE x \in Txns
    <3>1. FALSE \in txOld[x].ent
      BY <1>0, <2>1, NotThere
    <3> QED BY <2>1, <3>1 DEF Sure
  <2>5. CASE Unowned
    <3>1. None \in Claims
      BY <2>1, <2>5 DEF Unowned
    <3>2. DurableSnapshot'.entries = NoMap /\ NoSure'
      BY <1>0, <2>1, <2>3, <2>4, <3>1 DEF Fresh, NoSure
    <3> QED BY <2>2, <2>5, <3>2, Acquires
  <2>6. CASE ~Unowned
    <3>1. DurableSnapshot = st.snapshot
      BY <1>a, <2>1, <2>6 DEF Owning
    <3> QED BY <2>1, <2>2, <2>3, <2>4, <2>6, <3>1, SameOwner, Advances
  <2> QED BY <2>5, <2>6
<1> QED BY <1>1, <1>2, <1>3, <1>4, <1>5, <1>6, <1>7, <1>8, <1>9 DEF DiskStep

(* So is every step of the system; a loss of power settles what it leaves.  *)
LEMMA NextImplements ==
    ASSUME StoreInv, StoreInv', [Next]_vars
    PROVE  StoreStep
<1>1. CASE PowerLoss
  <2>1. /\ stOld' = {st'} /\ st'.claim \in Claims /\ st'.snapshot \in Snaps /\ Narrowing
    BY <1>1, LossLeavesOne
  <2>2. \A x \in Txns : MayExist(x)' => MayExist(x)
    BY <2>1 DEF Narrowing, Narrowed, MayExist
  <2> QED BY <2>1, <2>2, Collapses DEF Narrowing
<1>2. CASE UNCHANGED vars
  BY <1>2, Stutters DEF vars, disk
<1> QED BY <1>1, <1>2, OtherSteps, DiskStepImplements, Stutters

(* A root that nobody has claimed is an empty store.                        *)
LEMMA StoreInvInit ==
    ASSUME NoKilledReset, Init
    PROVE  StoreInv /\ Store!Init
<1>1. /\ Claims = {None} /\ st = EmptyState /\ stOld = {EmptyState}
      /\ \A p \in Procs : pc[p] = "idle"
  BY DEF Init, Claims, EmptyState
<1>2. st.claim = None /\ st.reset = None
  BY <1>1 DEF EmptyState
<1>3. CrashInv
  BY CrashInvInit
<1>4. \A token \in Nat : ~Given(token)
  BY <1>1, NoneIsNoRecord DEF Init, Given
<1>5. ClaimInv
  BY <1>1, <1>4 DEF ClaimInv, ClaimTokens, KnowsClaim, Owned, Claimed, ResetOnly, EmptyState
<1>6. Stopped /\ \A p \in Procs : Ready(p)
  BY <1>1 DEF Stopped, Building, Ready, Resuming, Settling, Unclaiming, Recovery, AtOutput
<1>7. StoreInv
  BY <1>1, <1>2, <1>3, <1>5, <1>6 DEF StoreInv, OneOlder, Fresh, Quiescent
<1>8. Unowned
  BY <1>1, <1>2 DEF Unowned
<1> QED BY <1>7, <1>8, StoreView DEF View, Store!Init

(* The protocol keeps the promise of OutputStore: whatever is killed or     *)
(* lost, and however locks and builds interleave, one build owns the root,  *)
(* its committed outputs change as a whole to an intent declared before, an *)
(* intent that is certain is never dropped, and the root is given up only   *)
(* with none left.                                                          *)
THEOREM StoreIsImplemented ==
    ASSUME NoKilledReset, BuildsStopped
    PROVE  Spec => ImplementsStore
<1>1. Init => StoreInv /\ Store!Init
  BY StoreInvInit
<1>2. StoreInv /\ [Next]_vars => StoreInv'
  BY StoreInvNext
<1>3. StoreInv /\ StoreInv' /\ [Next]_vars => [Store!Next]_(Store!store)
  BY NextImplements DEF StoreStep
<1> QED BY <1>1, <1>2, <1>3, PTL DEF Spec, ImplementsStore, Store!Spec

---------------------------------------------------------------------------
(* A released root is clean *)

(* An output the coordinator may have left in the root; what a transaction  *)
(* restores or passes on; and where it is written down that it is there: in *)
(* a snapshot that may survive, or in a transaction that certainly survives *)
(* with it and will be recovered.                                           *)
Left(o) == o \in Paths \ touched /\ outOld[o] # {None}
Restores(d, o) == o \in DOMAIN d.entries \cup Heirs(d.entries)
Rescued(x, o, gen) ==
    /\ FALSE \notin txOld[x].ent
    /\ \A d \in txOld[x].pend : d # None /\ d.base = gen /\ Restores(d, o)
Recorded(s, o) ==
    /\ s.claim # None
    /\ \/ o \in DOMAIN s.snapshot.entries
       \/ s.reset = None /\ \E x \in Txns : Rescued(x, o, s.snapshot.gen)
AllRecorded == \A o \in Paths : Left(o) => \A s \in stOld : Recorded(s, o)
(* An older snapshot survives only while no reset has begun.                *)
Older == st.claim # None =>
    \A s \in stOld : s.snapshot = st.snapshot \/ (st.reset = None /\ Behind(s.snapshot))
Clean == AllRecorded /\ Older /\ OneTxn

(* The operator runs one reset at a time, with the token that a build holds.*)
OneReset == \A p, q \in Procs : Clearing(p) /\ Clearing(q) => p = q
HeldToken == \A p \in Procs : Clearing(p) => \E b \in Builds : held[b] = job[p].token
Answering == {"plan_sync", "return", "store"}
NoAnswer == \A p \in Procs : pc[p] \in Answering => job[p].cmd # "reset"

(* What a process knows of the state, of the transactions and of the        *)
(* outputs it has yet to write, delete or sync.                             *)
Steady(label, j) ==
    label \in {"apply", "payload", "pend", "pend_sync", "snap"} \/ Applied(label, j)
Deleting(label, j) == label \in AtOutput /\ j.txn = None
Emptied(label, j) ==
    label \in {"disposable", "unclaim"} \/ (label \in {"unstage", "unstage_sync"} /\ j.cmd = "reset")
Past(pd) == st.snapshot.gen # pd.base
Ahead(pd, j) ==
    /\ pd.base = st.snapshot.gen /\ pd.snap.gen # pd.base
    /\ pd.snap.entries = NextEntries(st.snapshot.entries, pd.entries)
    /\ DOMAIN j.ops \subseteq DOMAIN pd.entries
    /\ \A o \in DOMAIN j.ops : j.ops[o] = pd.entries[o]
    /\ \A o \in DOMAIN pd.entries \ DOMAIN j.ops : pd.entries[o].after = None => ~Left(o)
AwareTx(label, j) ==
    /\ label = "sweep" => Pendings = {}
    /\ label \in {"retire", "prepare", "intent"} => \A x \in Txns : ~tx[x].ent
    /\ label \in {"payload", "pend", "pend_sync"} => tx[j.txn].ent /\ txOld[j.txn].ent = {TRUE}
    /\ label \in {"payload", "pend"} => tx[j.txn].pend = None
    /\ label \in {"apply", "commit_sync"} \/ Applied(label, j) => DurablePend(j.txn)
    /\ label = "commit_sync" => Past(tx[j.txn].pend)
    /\ label = "drop" =>
          tx[j.txn].ent /\ (tx[j.txn].pend # None => stOld = {st} /\ Past(tx[j.txn].pend))
    /\ label = "drop_sync" => MayExist(j.txn) /\ tx[j.txn] = NoTx
AwareOut(label, j) ==
    /\ Applied(label, j) => Ahead(tx[j.txn].pend, j)
    /\ label = "snap" => DOMAIN j.ops = {}
    /\ label = "out_sync" => j.cur \in touched \/ (j.ops[j.cur].after = None => out[j.cur] = None)
    /\ Deleting(label, j) =>
          /\ DOMAIN j.ops \subseteq DOMAIN st.snapshot.entries
          /\ \A o \in DOMAIN j.ops : j.ops[o].after = None
          /\ \A o \in Paths : Left(o) => o \in DOMAIN j.ops
    /\ Emptied(label, j) => \A o \in Paths : ~Left(o)
AwareState(label, j) ==
    /\ label = "claim" => Snaps = {st.snapshot}
    /\ Steady(label, j) => stOld = {st}
    /\ label \in Committing \cup AtOutput /\ j.txn # None /\ j.ret = "unstage" => j.cmd # "reset"
    /\ Deleting(label, j) => j.cmd = "reset"
    /\ Deleting(label, j) \/ Emptied(label, j) => st.reset # None
Aware(label, j) == AwareState(label, j) /\ AwareTx(label, j) /\ AwareOut(label, j)
Wary(p) == Aware(pc[p], job[p])
CleanInv ==
    /\ ResetInv /\ Clean /\ OneReset /\ HeldToken /\ NoAnswer
    /\ \A p \in Procs : Wary(p)

(* Elsewhere there is nothing to know.                                      *)
Watched == {"sweep", "retire", "prepare", "intent", "payload", "pend", "pend_sync", "apply",
    "commit_sync", "drop", "drop_sync", "output", "act", "out_sync", "snap", "claim",
    "disposable", "unclaim"}
Free(label, j) == label \notin Watched /\ (label \in {"unstage", "unstage_sync"} => j.cmd # "reset")
(* A process that is free need not know anything:                           *)
LEMMA FreeIsAware ==
    ASSUME NEW label, NEW j, Free(label, j)
    PROVE  Aware(label, j)
BY DEF Free, Watched, Aware, AwareState, AwareTx, AwareOut, Steady, Applied, Deleting, Emptied,
   AtOutput, Committing

(* so it is after a step.                                                   *)
LEMMA FreeIsWary ==
    ASSUME NEW p \in Procs, Free(pc'[p], job'[p])
    PROVE  Wary(p)'
BY DEF Wary, Free, Watched, Aware, AwareState, AwareTx, AwareOut, Steady, Applied, Deleting, Emptied,
   AtOutput, Committing

(* What a process knows stays true while nobody writes.                     *)
LEMMA QuietAware ==
    ASSUME UNCHANGED <<stVars, txVars, outVars>>, NEW label, NEW j, Aware(label, j)
    PROVE  Aware(label, j)'
<1> USE DEF stVars, txVars, outVars
<1>1. AwareState(label, j)'
  BY StateKept DEF Aware, AwareState
<1>2. AwareTx(label, j)'
  BY DEF Aware, AwareTx, Pendings, MayExist, DurablePend, Past
<1>3. AwareOut(label, j)'
  BY DEF Aware, AwareOut, Ahead, Left
<1> QED BY <1>1, <1>2, <1>3 DEF Aware

(* A loss or a sync leaves fewer versions: what was recorded still is.      *)
LEMMA FewerKeepsClean ==
    ASSUME Clean, TxType, TxType', Narrowing, stOld' \subseteq stOld,
           UNCHANGED <<st, tx>> \/ stOld' = {st'},
           \A o \in Paths : Left(o)' => Left(o)
    PROVE  Clean'
<1>1. \A x \in Txns : \A o, gen : Rescued(x, o, gen) => Rescued(x, o, gen)'
  BY DEF Rescued, Narrowing, Narrowed
<1>2. AllRecorded'
  BY <1>1 DEF Clean, AllRecorded, Recorded
<1>3. OneTxn'
  BY DEF Clean, OneTxn, Narrowing, Narrowed, MayExist
<1>4. Older'
  <2>1. CASE stOld' = {st'}
    BY <2>1 DEF Older
  <2>2. CASE UNCHANGED <<st, tx>>
    <3>1. \A x \in Txns : DurablePend(x) => DurablePend(x)'
      <4> TAKE x \in Txns
      <4> HAVE DurablePend(x)
      <4>1. Narrowed(x) /\ tx'[x] = tx[x]
        BY <2>2 DEF DurablePend, Narrowing
      <4>2. tx'[x].ent \in txOld'[x].ent /\ tx'[x].pend \in txOld'[x].pend
        BY DEF TxType
      <4>3. txOld'[x].ent = {TRUE}
        BY <4>1, <4>2 DEF DurablePend, Narrowed
      <4>4. txOld'[x].pend = {tx[x].pend}
        BY <4>1, <4>2 DEF DurablePend, Narrowed
      <4> QED BY <4>1, <4>3, <4>4 DEF DurablePend
    <3>2. \A n : Behind(n) => Behind(n)'
      BY <2>2, <3>1 DEF Behind
    <3> QED BY <2>2, <3>2 DEF Clean, Older
  <2> QED BY <2>1, <2>2
<1> QED BY <1>2, <1>3, <1>4 DEF Clean

(* A root without a claim holds nothing, so nothing need be written down.   *)
LEMMA UnclaimedIsEmpty ==
    ASSUME Clean, StateType, st.claim = None
    PROVE  \A o \in Paths : ~Left(o)
BY DEF Clean, AllRecorded, Recorded, StateType

(* While it has no claim it stays clean, as long as nothing is written.     *)
LEMMA EmptyKeepsClean ==
    ASSUME UNCHANGED outVars, \A o \in Paths : ~Left(o), st'.claim = None, OneTxn'
    PROVE  Clean'
BY DEF Clean, AllRecorded, Older, Left, outVars

(* What the invariant says where a process stands.                          *)
LEMMA CleanFacts ==
    ASSUME CleanInv, NEW p \in Procs
    PROVE  /\ TypeInv /\ StateType /\ TxType /\ OutType /\ ControlType /\ st \in stOld
           /\ job[p] \in JobRecords /\ LocalOK(pc[p], job[p]) /\ DiskOK(pc[p], job[p], st, tx)
           /\ KnowsClaim(pc[p], job[p]) /\ Resuming(pc[p], job[p]) /\ Matches(st)
           /\ AwareState(pc[p], job[p]) /\ AwareTx(pc[p], job[p]) /\ AwareOut(pc[p], job[p])
           /\ Clean /\ AllRecorded /\ Older /\ OneTxn
           /\ pc[p] \in Claimed => st.claim # None
<1>1. TypeInv /\ Clean /\ Ready(p) /\ Wary(p) /\ \A s \in stOld : Matches(s)
  BY DEF CleanInv, ResetInv, Resumable
<1>2. StateType /\ TxType /\ OutType /\ ControlType /\ Shape(p)
  BY <1>1 DEF TypeInv, TypeOK
<1>3. pc[p] \in Claimed => st.claim # None
  BY <1>2, NoneIsNoRecord DEF Shape, DiskOK
<1> QED BY <1>1, <1>2, <1>3 DEF Clean, Ready, Wary, Aware, Shape, StateType, ControlType, CleanInv,
     ResetInv, ClaimInv

(* A publication goes on only under a claim and without an intent to reset. *)
LEMMA NothingResets ==
    ASSUME CleanInv, NEW p \in Procs,
           pc[p] \in {"apply", "snap", "commit_sync"} \/ Applied(pc[p], job[p])
    PROVE  st.claim # None /\ st.reset = None
<1>0. Resuming(pc[p], job[p]) /\ Stopped /\ (pc[p] \in Claimed => st.claim # None)
  BY CleanFacts DEF CleanInv, ResetInv
<1>1. pc[p] \in Claimed \cap (Recovery \cup AtOutput) /\ (pc[p] \in AtOutput => job[p].txn # None)
  BY DEF Claimed, Applied, AtOutput, Recovery
<1>2. st.claim # None /\ pc[p] # "idle"
  BY <1>0, <1>1 DEF Claimed
<1>3. CASE job[p].cmd = "reset"
  BY <1>0, <1>1, <1>2, <1>3 DEF Resuming
<1>4. CASE job[p].cmd # "reset"
  BY <1>0, <1>2, <1>4 DEF Stopped, Building
<1> QED BY <1>2, <1>3, <1>4

(* Removing a transaction that is committed, or was never pending, takes    *)
(* nothing away that rescues an output.                                     *)
LEMMA DropKeepsClean ==
    ASSUME CleanInv, NEW p \in Procs, Drop(p)
    PROVE  Clean' /\ \A y \in Txns : MayExist(y)' <=> MayExist(y)
<1>p. PICK x : x = job[p].txn
  OBVIOUS
<1>0. /\ TxType /\ st \in stOld /\ Clean /\ x \in Txns /\ tx[x].ent /\ tx[x] \in TxRecords
      /\ tx[x].pend # None => stOld = {st} /\ Past(tx[x].pend)
      /\ UNCHANGED <<st, stOld>> /\ UNCHANGED outVars
  BY <1>p, CleanFacts DEF Drop, AwareTx, LocalOK, WithTxn, Committing, stVars, TxType
<1>1. PICK new : WriteTx(x, new)
  BY <1>p DEF Drop
<1>2. /\ \A y \in Txns : y # x => tx'[y] = tx[y] /\ txOld'[y] = txOld[y]
      /\ txOld'[x].ent = txOld[x].ent \cup {new.ent}
  BY <1>0, <1>1, TxWritten
<1>3. tx[x].pend \in txOld[x].pend /\ tx[x].ent \in txOld[x].ent /\ MayExist(x)
  BY <1>0, NotThere DEF TxType
<1>4. \A y \in Txns : MayExist(y)' <=> MayExist(y)
  BY <1>2, <1>3 DEF MayExist
<1>5. \A o \in Paths : Left(o)' <=> Left(o)
  BY <1>0 DEF Left, outVars
<1>6. \A s \in stOld : \A o : ~Rescued(x, o, s.snapshot.gen)
  BY <1>0, <1>3 DEF Rescued, Past
<1>7. \A y \in Txns : y # x => \A o, gen : Rescued(y, o, gen) => Rescued(y, o, gen)'
  BY <1>2 DEF Rescued
<1>8. AllRecorded'
  BY <1>0, <1>5, <1>6, <1>7 DEF Clean, AllRecorded, Recorded
<1>9. OneTxn'
  BY <1>0, <1>4 DEF Clean, OneTxn
<1>10. Older'
  <2>1. CASE tx[x].pend # None
    BY <1>0, <2>1 DEF Older
  <2>2. CASE tx[x].pend = None
    <3>1. \A n : Behind(n) => Behind(n)'
      BY <1>0, <1>2, <2>2 DEF Behind, DurablePend
    <3> QED BY <1>0, <3>1 DEF Clean, Older
  <2> QED BY <2>1, <2>2
<1> QED BY <1>4, <1>8, <1>9, <1>10 DEF Clean

(* Filling a new transaction rescues nothing yet and loses nothing.         *)
LEMMA FillKeepsClean ==
    ASSUME CleanInv, NEW p \in Procs, WritePending(p) \/ (CopyPayload(p) /\ ~UNCHANGED txVars)
    PROVE  /\ Clean' /\ tx'[job[p].txn].ent /\ txOld'[job[p].txn].ent = {TRUE}
           /\ CopyPayload(p) => tx'[job[p].txn].pend = None
<1>p. PICK x : x = job[p].txn
  OBVIOUS
<1>0. /\ TxType /\ st \in stOld /\ Clean /\ x \in Txns /\ tx[x].ent /\ txOld[x].ent = {TRUE}
      /\ tx[x].pend = None /\ tx[x] \in TxRecords /\ stOld = {st}
      /\ UNCHANGED <<st, stOld>> /\ UNCHANGED outVars
  BY <1>p, CleanFacts DEF WritePending, CopyPayload, AwareTx, AwareState, Steady, LocalOK, WithTxn,
     stVars, TxType
<1>1. PICK new : WriteTx(x, new) /\ new.ent = tx[x].ent /\ (CopyPayload(p) => new.pend = None)
  <2>1. CASE WritePending(p)
    <3>1. [tx[x] EXCEPT !.pend = job[p].draft].ent = tx[x].ent
      BY <1>0 DEF TxRecords
    <3> QED BY <1>p, <2>1, <3>1 DEF WritePending, CopyPayload
  <2>2. CASE CopyPayload(p) /\ ~UNCHANGED txVars
    <3>1. PICK pay : WriteTx(x, [tx[x] EXCEPT !.pay = pay])
      BY <1>p, <2>2 DEF CopyPayload, txVars
    <3>2. /\ [tx[x] EXCEPT !.pay = pay].ent = tx[x].ent
          /\ [tx[x] EXCEPT !.pay = pay].pend = None
      BY <1>0 DEF TxRecords
    <3> QED BY <3>1, <3>2
  <2> QED BY <2>1, <2>2
<1>2. /\ \A y \in Txns : y # x => tx'[y] = tx[y] /\ txOld'[y] = txOld[y]
      /\ txOld'[x].ent = {TRUE} /\ tx'[x].ent
      /\ CopyPayload(p) => tx'[x].pend = None
  <2>1. tx[x].ent = TRUE
    BY <1>0 DEF TxRecords
  <2> QED BY <1>0, <1>1, <2>1, TxWritten
<1>3. \A y \in Txns : MayExist(y)' <=> MayExist(y)
  BY <1>0, <1>2 DEF MayExist
<1>4. \A o, gen : ~Rescued(x, o, gen)
  BY <1>0 DEF Rescued, TxType
<1>5. \A y \in Txns : y # x => \A o, gen : Rescued(y, o, gen) => Rescued(y, o, gen)'
  BY <1>2 DEF Rescued
<1>6. AllRecorded'
  BY <1>0, <1>4, <1>5 DEF Clean, AllRecorded, Recorded, Left, outVars
<1>7. OneTxn' /\ Older'
  BY <1>0, <1>3 DEF Clean, OneTxn, Older
<1> QED BY <1>p, <1>2, <1>6, <1>7 DEF Clean

(* A transaction is made where none is left.                                *)
LEMMA OpenKeepsClean ==
    ASSUME CleanInv, NEW p \in Procs, pc[p] \in {"prepare", "retire"},
           NEW x \in Txns, MakeTransaction(x), UNCHANGED outVars
    PROVE  /\ Clean' /\ tx'[x].ent /\ txOld'[x].ent = {TRUE} /\ tx'[x].pend = None
           /\ stOld' = {st'}
<1>0. /\ TxType /\ st \in stOld /\ Clean /\ st' = st /\ stOld' = {st'}
      /\ \A y \in Txns : ~tx[y].ent
      /\ tx' = [tx EXCEPT ![x] = [NoTx EXCEPT !.ent = TRUE]]
  BY CleanFacts DEF AwareTx, MakeTransaction
<1>1. \A y \in Txns : FALSE \in txOld[y].ent
  <2> TAKE y \in Txns
  <2>1. tx[y].ent \in txOld[y].ent /\ tx[y].ent \in BOOLEAN
    BY <1>0 DEF TxType, TxRecords
  <2>2. tx[y].ent = FALSE
    BY <1>0, <2>1
  <2> QED BY <2>1, <2>2
<1>2. tx'[x] = [NoTx EXCEPT !.ent = TRUE] /\ \A y \in Txns : y # x => tx'[y] = tx[y]
  BY <1>0 DEF TxType
<1>3. tx'[x].ent /\ tx'[x].pend = None
  BY <1>2 DEF NoTx
<1>4. \A y \in Txns : txOld'[y] = IF tx'[y].ent THEN [[txOld EXCEPT ![x] = NoTxOld][y] EXCEPT
                                                          !.ent = {TRUE}]
                                  ELSE NoTxOld
  BY DEF MakeTransaction, EntriesSynced
<1>5. txOld'[x].ent = {TRUE}
  <2>1. txOld'[x] = [[txOld EXCEPT ![x] = NoTxOld][x] EXCEPT !.ent = {TRUE}]
    BY <1>3, <1>4
  <2>2. [txOld EXCEPT ![x] = NoTxOld][x] = NoTxOld
    BY <1>0 DEF TxType
  <2> QED BY <2>1, <2>2 DEF NoTxOld
<1>6. \A y \in Txns : y # x => ~MayExist(y)'
  <2> TAKE y \in Txns
  <2> HAVE y # x
  <2>1. txOld'[y] = NoTxOld
    BY <1>0, <1>2, <1>4
  <2>2. txOld'[y].ent = {FALSE}
    BY <2>1 DEF NoTxOld
  <2> QED BY <2>2 DEF MayExist
<1>7. OneTxn' /\ Older'
  BY <1>0, <1>6 DEF OneTxn, Older
<1>8. AllRecorded'
  BY <1>0, <1>1 DEF Clean, AllRecorded, Recorded, Rescued, Left, outVars
<1> QED BY <1>0, <1>3, <1>5, <1>7, <1>8 DEF Clean

(* What changes neither state, transactions nor outputs keeps the root      *)
(* clean;                                                                   *)
LEMMA QuietKeepsClean ==
    ASSUME Clean, UNCHANGED <<stVars, txVars, outVars>>
    PROVE  Clean'
BY DEF Clean, AllRecorded, Recorded, Rescued, Left, Older, Behind, DurablePend, OneTxn, MayExist,
   stVars, txVars, outVars

(* so do the syncs of the state and of the transactions,                    *)
LEMMA SyncKeepsClean ==
    ASSUME CleanInv, TypeInv', NEW p \in Procs,
           SyncState(p) \/ Recover(p) \/ DropSync(p) \/ SyncPending(p) \/ SyncPayloads(p)
    PROVE  Clean'
<1>p. PICK x : x = job[p].txn
  OBVIOUS
<1>0. Clean /\ TxType /\ TxType' /\ StateType
  BY CleanFacts DEF TypeInv, TypeOK
<1>1. UNCHANGED <<st, tx, out, outOld, touched>> /\ (stOld' = stOld \/ stOld' = {st})
  BY DEF SyncState, Recover, DropSync, SyncPending, SyncPayloads, stVars, txVars, outVars
<1>2. Narrowing
  <2>1. CASE UNCHANGED txOld
    BY <1>1, <2>1 DEF Narrowing, Narrowed
  <2>2. CASE txOld' = EntriesSynced(txOld, tx)
    BY <1>0, <2>2, EntriesSyncNarrows
  <2>3. ASSUME NEW y \in Pendings,
               txOld' = [EntriesSynced(txOld, tx) EXCEPT ![y].pend = {tx[y].pend}]
        PROVE  Narrowing
    BY <1>0, <2>3, RecoverNarrows
  <2>4. CASE txOld' = [txOld EXCEPT ![x].pend = {tx[x].pend}]
    BY <1>0, <2>4 DEF TxType, Narrowing, Narrowed, TxOldRecords
  <2>5. CASE txOld' = [txOld EXCEPT ![x].pay = {tx[x].pay}]
    BY <1>0, <2>5 DEF TxType, Narrowing, Narrowed, TxOldRecords
  <2> QED BY <1>p, <2>1, <2>2, <2>3, <2>4, <2>5
       DEF SyncState, Recover, DropSync, SyncPending, SyncPayloads, txVars
<1>3. stOld' \subseteq stOld /\ \A o \in Paths : Left(o)' => Left(o)
  BY <1>0, <1>1 DEF StateType, Left
<1>4. UNCHANGED <<st, tx>>
  BY <1>1
<1> QED BY <1>0, <1>2, <1>3, <1>4, FewerKeepsClean

(* what happens to a state without a claim,                                 *)
Unowning(p) ==
    \/ (\E file \in DOMAIN EmptyState : WipeFile(p, file)) \/ WipeSync(p) \/ InitSnapshot(p)
    \/ Unclaim(p) \/ Scrub(p) \/ RemoveState(p)
(* A command without a claim, or past it, finds the root empty.             *)
LEMMA UnowningKeepsClean ==
    ASSUME CleanInv, NEW p \in Procs, Unowning(p)
    PROVE  Clean'
<1>0. /\ Clean /\ StateType /\ KnowsClaim(pc[p], job[p]) /\ Resuming(pc[p], job[p])
      /\ AwareOut(pc[p], job[p])
  BY CleanFacts
<1>1. UNCHANGED outVars
  BY DEF Unowning, WipeFile, WipeSync, InitSnapshot, Unclaim, Scrub, RemoveState
<1>2. pc[p] \in {"wipe", "init", "scrub", "unclaim"}
  BY DEF Unowning, WipeFile, WipeSync, InitSnapshot, Unclaim, Scrub, RemoveState
<1>3. pc[p] # "unclaim" => st.claim = None
  BY <1>0, <1>2 DEF KnowsClaim, Resuming, Unclaiming
<1>4. \A o \in Paths : ~Left(o)
  BY <1>0, <1>3, UnclaimedIsEmpty DEF AwareOut, Emptied
<1>5. st'.claim = None
  <2>1. CASE pc[p] = "unclaim"
    <3>1. Unclaim(p)
      BY <2>1 DEF Unowning, WipeFile, WipeSync, InitSnapshot, Unclaim, Scrub, RemoveState
    <3> QED BY <1>0, <3>1, ClaimWritten DEF Unclaim
  <2>2. CASE pc[p] # "unclaim"
    <3>0. st \in States /\ st.claim = None
      BY <1>0, <1>3, <2>2 DEF StateType
    <3>1. st' = st \/ \E file \in DOMAIN st : \E v :
              st' = [st EXCEPT ![file] = v] /\ (file = "claim" => v = None)
      <4>1. DOMAIN st = DOMAIN EmptyState
        BY <3>0 DEF States, EmptyState
      <4>2. ASSUME NEW file \in DOMAIN EmptyState, WipeFile(p, file)
            PROVE  \E f \in DOMAIN st : \E v :
                       st' = [st EXCEPT ![f] = v] /\ (f = "claim" => v = None)
        BY <4>1, <4>2 DEF WipeFile, WriteState
      <4>3. CASE InitSnapshot(p)
        BY <4>1, <4>3 DEF InitSnapshot, WriteState, EmptyState
      <4>4. CASE Scrub(p)
        <5>1. PICK i \in 1..3 : WriteState(ScrubOrder[i], None)
          BY <4>4 DEF Scrub
        <5>2. ScrubOrder[i] \in DOMAIN st
          <6>1. i = 1 \/ i = 2 \/ i = 3
            OBVIOUS
          <6> QED BY <4>1, <6>1 DEF ScrubOrder, EmptyState
        <5> QED BY <5>1, <5>2 DEF WriteState
      <4> QED BY <2>2, <4>2, <4>3, <4>4 DEF Unowning, WipeSync, RemoveState, Unclaim
    <3>2. ASSUME NEW file \in DOMAIN st, NEW v, st' = [st EXCEPT ![file] = v],
                 file = "claim" => v = None
          PROVE  st'.claim = None
      BY <3>0, <3>2 DEF States
    <3> QED BY <3>0, <3>1, <3>2
  <2> QED BY <2>1, <2>2
<1>6. OneTxn'
  <2>1. CASE UNCHANGED txVars
    BY <1>0, <2>1 DEF Clean, OneTxn, MayExist, txVars
  <2>2. CASE txOld' = [x \in Txns |-> NoTxOld]
    BY <2>2 DEF OneTxn, MayExist, NoTxOld
  <2> QED BY <2>1, <2>2 DEF Unowning, WipeFile, WipeSync, InitSnapshot, Unclaim, Scrub, RemoveState
<1> QED BY <1>1, <1>4, <1>5, <1>6, EmptyKeepsClean

(* the claim, which is written where nothing is left,                       *)
LEMMA ClaimingKeepsClean ==
    ASSUME CleanInv, NEW p \in Procs, InitClaim(p)
    PROVE  Clean'
<1>0. /\ Clean /\ StateType /\ KnowsClaim(pc[p], job[p]) /\ AwareState(pc[p], job[p])
  BY CleanFacts
<1>1. pc[p] = "claim" /\ UNCHANGED <<txVars, outVars>>
  BY DEF InitClaim
<1>2. \A o \in Paths : ~Left(o)
  BY <1>0, <1>1, UnclaimedIsEmpty DEF KnowsClaim
<1>3. Snaps' = {st'.snapshot}
  BY <1>0, <1>1, ClaimWritten DEF AwareState, InitClaim
<1>4. Older'
  BY <1>3 DEF Older, Snaps
<1>5. AllRecorded' /\ OneTxn'
  BY <1>0, <1>1, <1>2 DEF Clean, AllRecorded, OneTxn, Left, MayExist, txVars, outVars
<1> QED BY <1>4, <1>5 DEF Clean

(* the plan and the intent to reset, which leave claim and snapshot alone,  *)
LEMMA OverwritingKeepsClean ==
    ASSUME CleanInv, NEW p \in Procs, Overwriting(p)
    PROVE  Clean'
<1>0. /\ Clean /\ StateType /\ TxType /\ AwareTx(pc[p], job[p])
      /\ (pc[p] \in Claimed => st.claim # None)
  BY CleanFacts
<1>1. UNCHANGED <<txVars, outVars>>
  BY DEF Overwriting, WritePlan, WriteResetIntent
<1>2. CASE WritePlan(p)
  <2>1. /\ st'.claim = st.claim /\ st'.snapshot = st.snapshot /\ st'.reset = st.reset
        /\ stOld' = stOld \cup {st'}
    BY <1>0, <1>2, PlanWritten DEF WritePlan, WriteState
  <2>2. \A n : Behind(n)' <=> Behind(n)
    BY <1>1, <2>1 DEF Behind, DurablePend, txVars
  <2>3. Older' /\ OneTxn'
    BY <1>0, <1>1, <2>1, <2>2 DEF Clean, Older, OneTxn, MayExist, txVars
  <2>4. AllRecorded'
    <3>1. \A s, o : Recorded(s, o)' <=> Recorded(s, o)
      BY <1>1 DEF Recorded, Rescued, txVars
    <3>2. \A o : Recorded(st', o) <=> Recorded(st, o)
      BY <2>1 DEF Recorded
    <3> QED BY <1>0, <1>1, <2>1, <3>1, <3>2 DEF Clean, AllRecorded, Left, StateType, outVars
  <2> QED BY <2>3, <2>4 DEF Clean
<1>3. CASE WriteResetIntent(p) /\ UNCHANGED stVars
  BY <1>0, <1>1, <1>3, QuietKeepsClean
<1>4. CASE WriteResetIntent(p) /\ ~UNCHANGED stVars
  <2>0. pc[p] = "intent" /\ st.claim # None
    BY <1>0, <1>4 DEF WriteResetIntent, Claimed
  <2>1. /\ st'.claim = st.claim /\ st'.snapshot = st.snapshot /\ stOld' = stOld \cup {st'}
    BY <1>0, <1>4, ResetWritten DEF WriteResetIntent, WriteState
  <2>2. \A x \in Txns : FALSE \in txOld[x].ent /\ ~DurablePend(x)
    <3> TAKE x \in Txns
    <3>1. tx[x].ent \in txOld[x].ent /\ tx[x].ent \in BOOLEAN /\ ~tx[x].ent
      BY <1>0, <2>0 DEF AwareTx, TxType, TxRecords
    <3>2. tx[x].ent = FALSE
      BY <3>1
    <3> QED BY <3>1, <3>2 DEF DurablePend
  <2>3. \A s \in stOld : s.snapshot = st.snapshot
    BY <1>0, <2>0, <2>2 DEF Clean, Older, Behind
  <2>4. \A o \in Paths : Left(o) => \A s \in stOld : s.claim # None /\ o \in DOMAIN s.snapshot.entries
    BY <1>0, <2>2 DEF Clean, AllRecorded, Recorded, Rescued
  <2>5. AllRecorded'
    BY <1>0, <1>1, <2>1, <2>4 DEF AllRecorded, Recorded, Left, StateType, outVars
  <2>6. Older' /\ OneTxn'
    BY <1>0, <1>1, <2>1, <2>3 DEF Clean, Older, OneTxn, MayExist, txVars
  <2> QED BY <2>5, <2>6 DEF Clean
<1> QED BY <1>2, <1>3, <1>4 DEF Overwriting

(* the removal of the transactions, once nothing is left,                   *)
LEMMA DisposingKeepsClean ==
    ASSUME CleanInv, NEW p \in Procs, RemoveDisposable(p)
    PROVE  Clean'
<1>0. Clean /\ AwareState(pc[p], job[p]) /\ AwareOut(pc[p], job[p])
  BY CleanFacts
<1>1. pc[p] = "disposable" /\ UNCHANGED <<stVars, outVars>> /\ txOld' = [x \in Txns |-> NoTxOld]
  BY DEF RemoveDisposable
<1>2. st.reset # None /\ \A o \in Paths : ~Left(o)
  BY <1>0, <1>1 DEF AwareState, AwareOut, Emptied
<1>3. AllRecorded'
  BY <1>1, <1>2 DEF AllRecorded, Left, outVars
<1>4. Older'
  BY <1>0, <1>1, <1>2 DEF Clean, Older, stVars
<1>5. OneTxn'
  BY <1>1 DEF OneTxn, MayExist, NoTxOld
<1> QED BY <1>3, <1>4, <1>5 DEF Clean

(* and the commit: the transaction rescued the outputs that the snapshot    *)
(* now records, and those it deleted are gone.                              *)
LEMMA CommittingKeepsClean ==
    ASSUME CleanInv, NEW p \in Procs, CommitSnapshot(p)
    PROVE  Clean' /\ st'.snapshot.gen # tx[job[p].txn].pend.base /\ DurablePend(job[p].txn)
<1>p. PICK x, pd : x = job[p].txn /\ pd = tx[x].pend
  OBVIOUS
<1>0. /\ Clean /\ StateType /\ TxType /\ x \in Txns /\ x # None /\ pc[p] = "snap"
      /\ AwareState(pc[p], job[p]) /\ AwareTx(pc[p], job[p]) /\ AwareOut(pc[p], job[p])
      /\ UNCHANGED <<txVars, outVars>> /\ WriteState("snapshot", pd.snap)
  BY <1>p, CleanFacts, NoneAssumption DEF CommitSnapshot, LocalOK, WithTxn, Committing
<1>1. /\ stOld = {st} /\ DurablePend(x) /\ Ahead(pd, job[p]) /\ DOMAIN job[p].ops = {}
      /\ st.claim # None /\ st.reset = None
  BY <1>0, <1>p, NothingResets DEF AwareState, AwareTx, AwareOut, Steady, Applied
<1>2. /\ st'.claim = st.claim /\ st'.snapshot = pd.snap /\ st'.reset = None /\ stOld' = {st, st'}
  BY <1>0, <1>1, SnapshotWritten DEF WriteState
<1>3. \A o \in Paths : Left(o) => o \in DOMAIN pd.snap.entries
  <2> TAKE o \in Paths
  <2> HAVE Left(o)
  <2>1. o \in DOMAIN pd.entries => pd.entries[o].after # None
    BY <1>1 DEF Ahead
  <2>2. o \in DOMAIN st.snapshot.entries \/ Restores(pd, o)
    <3>1. o \in DOMAIN st.snapshot.entries \/ \E y \in Txns : Rescued(y, o, st.snapshot.gen)
      BY <1>0, <1>1 DEF Clean, AllRecorded, Recorded
    <3>2. ASSUME NEW y \in Txns, Rescued(y, o, st.snapshot.gen)
          PROVE  Restores(pd, o)
      <4>1. y = x
        BY <1>0, <1>1, <3>2, NotThere DEF Clean, OneTxn, MayExist, DurablePend, Rescued
      <4> QED BY <1>p, <1>1, <3>2, <4>1 DEF Rescued, DurablePend
    <3> QED BY <3>1, <3>2
  <2>3. pd.snap.entries = NextEntries(st.snapshot.entries, pd.entries)
    BY <1>1 DEF Ahead
  <2> QED BY <2>1, <2>2, <2>3 DEF NextEntries, Restores, Heirs
<1>4. AllRecorded'
  <2>1. \A o \in Paths : Left(o)' => Left(o)
    BY <1>0 DEF Left, outVars
  <2>2. \A s, o : Recorded(s, o)' <=> Recorded(s, o)
    BY <1>0 DEF Recorded, Rescued, txVars
  <2>3. \A o \in Paths : Left(o) => Recorded(st', o)
    BY <1>1, <1>2, <1>3 DEF Recorded
  <2>4. \A o \in Paths : Left(o) => Recorded(st, o)
    BY <1>0, <1>1 DEF Clean, AllRecorded
  <2> QED BY <1>2, <2>1, <2>2, <2>3, <2>4 DEF AllRecorded
<1>5. DurablePend(x)' /\ OneTxn'
  BY <1>0, <1>1 DEF Clean, OneTxn, MayExist, DurablePend, txVars
<1>6. Older'
  <2>1. \A n : n = st.snapshot => tx'[x].pend.base = n.gen /\ tx'[x].pend.snap = st'.snapshot
    BY <1>p, <1>0, <1>1, <1>2 DEF Ahead, txVars
  <2>2. \A n : n = st.snapshot => Behind(n)'
    BY <1>0, <1>5, <2>1 DEF Behind
  <2> QED BY <1>2, <2>2 DEF Older
<1>7. st'.snapshot.gen # pd.base
  BY <1>1, <1>2 DEF Ahead
<1> QED BY <1>p, <1>1, <1>4, <1>5, <1>6, <1>7 DEF Clean

(* A transaction begins to be applied: the outputs it passes on belong to   *)
(* the coordinator, and it rescues them.                                    *)
LEMMA ApplyingKeepsClean ==
    ASSUME CleanInv, NEW p \in Procs, ApplyPending(p)
    PROVE  /\ Clean' /\ DurablePend(job[p].txn) /\ stOld = {st} /\ st.reset = None
           /\ \/ Leave(p)
              \/ Goto(p, "commit_sync") /\ Past(tx[job[p].txn].pend)
              \/ /\ GotoWith(p, "output", [job[p] EXCEPT !.ops = tx[job[p].txn].pend.entries])
                 /\ ValidPending(job[p].txn) /\ PendingLoads(tx[job[p].txn].pend)
<1>p. PICK x, pd : x = job[p].txn /\ pd = tx[x].pend
  OBVIOUS
<1>0. /\ Clean /\ TxType /\ x \in Txns /\ pc[p] = "apply" /\ OutType
      /\ AwareState(pc[p], job[p]) /\ AwareTx(pc[p], job[p])
      /\ UNCHANGED <<stVars, txVars, out, outOld>>
  BY <1>p, CleanFacts DEF ApplyPending, LocalOK, WithTxn, Committing
<1>1. stOld = {st} /\ DurablePend(x) /\ st.claim # None /\ st.reset = None
  BY <1>0, <1>p, NothingResets DEF AwareState, AwareTx, Steady
<1>2. pd \in PendingRecords
  BY <1>0, <1>1, <1>p DEF TxType, TxRecords, DurablePend, OrNone
<1>3. pd.base \in Nat
  BY <1>2 DEF PendingRecords
<1>4. \/ Leave(p) /\ UNCHANGED touched
      \/ /\ Goto(p, "commit_sync") /\ st.snapshot.gen = pd.snap.gen /\ PendingLoads(pd)
         /\ UNCHANGED touched
      \/ /\ GotoWith(p, "output", [job[p] EXCEPT !.ops = pd.entries])
         /\ ValidPending(x) /\ PendingLoads(pd) /\ touched' = touched \ Heirs(pd.entries)
  BY <1>p DEF ApplyPending, Require
<1>5. PendingLoads(pd) /\ st.snapshot.gen = pd.snap.gen => Past(pd)
  BY <1>3 DEF PendingLoads, Past
<1>6. ASSUME UNCHANGED touched
      PROVE  Clean'
  BY <1>0, <1>6, QuietKeepsClean DEF stVars, txVars, outVars
<1>7. ASSUME ValidPending(x), touched' = touched \ Heirs(pd.entries)
      PROVE  Clean'
  <2>0. pd.base = st.snapshot.gen
    BY <1>p, <1>7 DEF ValidPending
  <2>1. \A o : o \in Heirs(pd.entries) => Recorded(st, o)
    <3> TAKE o
    <3> HAVE o \in Heirs(pd.entries)
    <3>1. Rescued(x, o, st.snapshot.gen)
      BY <1>p, <1>1, <2>0 DEF Rescued, Restores, DurablePend
    <3> QED BY <1>0, <1>1, <3>1 DEF Recorded
  <2>2. \A o \in Paths : Left(o)' => Left(o) \/ o \in Heirs(pd.entries)
    BY <1>0, <1>7 DEF Left
  <2>3. \A s, o : Recorded(s, o)' <=> Recorded(s, o)
    BY <1>0 DEF Recorded, Rescued, txVars
  <2>4. AllRecorded'
    BY <1>0, <1>1, <2>1, <2>2, <2>3 DEF Clean, AllRecorded, stVars
  <2>5. Older' /\ OneTxn'
    BY <1>0 DEF Clean, Older, Behind, DurablePend, OneTxn, MayExist, stVars, txVars
  <2> QED BY <2>4, <2>5 DEF Clean
<1> QED BY <1>p, <1>1, <1>4, <1>5, <1>6, <1>7

(* An output is written only while a transaction rescues it, and one that a *)
(* reset deletes is recorded by every snapshot that may survive.            *)
LEMMA ActingKeepsClean ==
    ASSUME CleanInv, NEW p \in Procs, ActOnOutput(p)
    PROVE  /\ Clean' /\ \A o \in Paths : o # job[p].cur => (Left(o)' <=> Left(o))
<1>p. PICK o, j : o = job[p].cur /\ j = job[p]
  OBVIOUS
<1>0. /\ Clean /\ StateType /\ TxType /\ OutType /\ pc[p] = "act" /\ UNCHANGED <<stVars, txVars>>
      /\ AwareState(pc[p], j) /\ AwareTx(pc[p], j) /\ AwareOut(pc[p], j)
      /\ LocalOK(pc[p], j) /\ KnowsClaim(pc[p], j) /\ j \in JobRecords /\ st.claim # None
      /\ ClaimTokens /\ HeldToken
  BY <1>p, CleanFacts DEF ActOnOutput, Claimed, CleanInv, ResetInv, ClaimInv
<1>1. o \in DOMAIN j.ops
  BY <1>0, <1>p DEF LocalOK
<1>2. \A q \in Paths : q # o => (Left(q)' <=> Left(q))
  BY <1>0, <1>p DEF ActOnOutput, WriteOut, Left, OutType
<1>3. \A s \in stOld : Recorded(s, o)
  <2>1. CASE j.txn # None
    <3>p. PICK x, pd : x = j.txn /\ pd = tx[x].pend
      OBVIOUS
    <3>1. x \in Txns /\ Applied(pc[p], j) /\ (Applied(pc[p], job[p]) => st.reset = None)
      BY <1>0, <1>p, <2>1, <3>p, NothingResets DEF LocalOK, AtOutput, Applied
    <3>2. stOld = {st} /\ DurablePend(x) /\ Ahead(pd, j) /\ st.reset = None
      BY <1>0, <1>p, <3>1, <3>p DEF AwareState, AwareTx, AwareOut, Steady
    <3>3. Restores(pd, o) /\ pd.base = st.snapshot.gen
      BY <1>1, <3>2 DEF Ahead, Restores
    <3> QED BY <1>0, <3>p, <3>1, <3>2, <3>3 DEF Recorded, Rescued, DurablePend
  <2>2. CASE j.txn = None
    <3>1. /\ Deleting(pc[p], j) /\ j.cmd = "reset" /\ st.reset # None
          /\ o \in DOMAIN st.snapshot.entries
      BY <1>0, <1>1, <2>2 DEF Deleting, AtOutput, AwareState, AwareOut
    <3>2. \A s \in stOld : s.snapshot = st.snapshot
      BY <1>0, <3>1 DEF Clean, Older
    <3>3. j.token = st.claim.token
      BY <1>0, <3>1 DEF KnowsClaim, Owned, Claimed
    <3>4. Given(st.claim.token)
      <4>1. Clearing(p)
        BY <1>0, <1>p, <3>1 DEF Clearing
      <4> QED BY <1>0, <1>p, <3>3, <4>1 DEF HeldToken, Given
    <3>5. \A s \in stOld : s.claim = st.claim
      BY <1>0, <3>4 DEF ClaimTokens, Claims
    <3> QED BY <1>0, <3>1, <3>2, <3>5 DEF Recorded
  <2> QED BY <2>1, <2>2
<1>4. \A s, q : Recorded(s, q)' <=> Recorded(s, q)
  BY <1>0 DEF Recorded, Rescued, txVars
<1>5. AllRecorded'
  BY <1>0, <1>2, <1>3, <1>4 DEF Clean, AllRecorded, stVars
<1>6. Older' /\ OneTxn'
  BY <1>0 DEF Clean, Older, Behind, DurablePend, OneTxn, MayExist, stVars, txVars
<1> QED BY <1>p, <1>2, <1>5, <1>6 DEF Clean

(* Syncing an output leaves the version that is there.                      *)
LEMMA OutSyncKeepsClean ==
    ASSUME CleanInv, NEW p \in Procs, SyncOutput(p)
    PROVE  /\ Clean' /\ \A o \in Paths : Left(o)' => Left(o)
           /\ \A o : o = job[p].cur /\ out[o] = None => ~Left(o)'
<1>p. PICK o : o = job[p].cur
  OBVIOUS
<1>0. /\ Clean /\ StateType /\ TxType /\ OutType /\ pc[p] = "out_sync"
      /\ LocalOK(pc[p], job[p]) /\ job[p] \in JobRecords
      /\ UNCHANGED <<stVars, txVars, touched>>
  BY CleanFacts DEF SyncOutput
<1>1. outOld' = [outOld EXCEPT ![o] = {out[o]}]
  BY <1>p DEF SyncOutput, SyncOut
<1>2. \A q \in Paths : Left(q)' => Left(q)
  BY <1>0, <1>1 DEF Left, OutType
<1>3. out[o] = None => ~Left(o)'
  BY <1>0, <1>1 DEF Left, OutType
<1>4. \A s, q : Recorded(s, q)' <=> Recorded(s, q)
  BY <1>0 DEF Recorded, Rescued, txVars
<1>5. AllRecorded'
  BY <1>0, <1>2, <1>4 DEF Clean, AllRecorded, stVars
<1>6. Older' /\ OneTxn'
  BY <1>0 DEF Clean, Older, Behind, DurablePend, OneTxn, MayExist, stVars, txVars
<1> QED BY <1>p, <1>2, <1>3, <1>5, <1>6 DEF Clean

(* These are all the ways a step changes whose an output is.                *)
LEMMA StepOnTouched ==
    ASSUME NEW p \in Procs, Step(p)
    PROVE  ApplyPending(p) \/ ActOnOutput(p) \/ touched' = touched
<1> USE DEF disk, outVars
<1>1. CASE Locking(p)
  BY <1>1 DEF Locking, AcquireRegistry, AcquireGeneration, SpawnChild, AcquirePublication
<1>2. CASE Claiming(p)
  BY <1>2 DEF Claiming, ValidateRegistry, WipeFile, WipeSync, LoadClaim, Released,
     InitSnapshot, InitClaim, SyncState
<1>3. CASE Recovering(p)
  BY <1>3 DEF Recovering, Recover, Drop, DropSync, Sweep, Recovered
<1>4. CASE Applying(p)
  BY <1>4 DEF Applying, WritePending, SyncPending, CheckOutput, SyncOutput, OutputsDone,
     CommitSnapshot
<1>5. CASE Generating(p)
  BY <1>5 DEF Generating, Validated, RebuildStaging, Protoc, Prepare,
     CopyPayload, SyncPayloads, Verify, CheckPublished, DiscardStaging
<1>6. CASE Configuring(p)
  BY <1>6 DEF Configuring, RetireUnplanned, RemoveStaging, SyncStaging, WritePlan,
     ReturnToken, StoreToken
<1>7. CASE Resetting(p)
  BY <1>7 DEF Resetting, WriteResetIntent, ResumeReset, Purge, RemoveDisposable,
     Unclaim, Scrub, RemoveState
<1> QED BY <1>1, <1>2, <1>3, <1>4, <1>5, <1>6, <1>7 DEF Step

(* So no step of a command leaves an output that is not recorded.           *)
LEMMA StepKeepsClean ==
    ASSUME CleanInv, TypeInv', NEW p \in Procs, Step(p)
    PROVE  Clean'
<1>1. DiskStep(p)
  BY StepOnDisk
<1>2. CASE UNCHANGED <<st, stOld, tx, txOld>>
  <2>1. CASE ApplyPending(p) \/ ActOnOutput(p) \/ SyncOutput(p)
    BY <2>1, ApplyingKeepsClean, ActingKeepsClean, OutSyncKeepsClean
  <2>2. CASE ~(ApplyPending(p) \/ ActOnOutput(p) \/ SyncOutput(p))
    <3>1. UNCHANGED <<stVars, txVars, outVars>>
      BY <1>2, <2>2, StepOnOutputs, StepOnTouched DEF stVars, txVars, outVars
    <3> QED BY <3>1, CleanFacts, QuietKeepsClean
  <2> QED BY <2>1, <2>2
<1>3. CASE Unpublishing(p) \/ RemoveState(p) \/ WipeSync(p) \/ Unclaim(p)
  BY <1>3, UnowningKeepsClean DEF Unpublishing, Unowning
<1>4. CASE SyncState(p) \/ Recover(p) \/ DropSync(p) \/ SyncPending(p) \/ SyncPayloads(p)
  BY <1>4, SyncKeepsClean
<1>5. CASE Opening(p)
  <2>1. PICK x \in Txns : MakeTransaction(x)
    BY <1>5 DEF Opening
  <2>2. pc[p] \in {"prepare", "retire"} /\ UNCHANGED outVars
    BY <1>5 DEF Opening, Prepare, RetireUnplanned
  <2> QED BY <2>1, <2>2, OpenKeepsClean
<1>6. CASE CopyPayload(p)
  <2>1. CASE UNCHANGED txVars
    <3>1. UNCHANGED <<stVars, txVars, outVars>>
      BY <1>6, <2>1 DEF CopyPayload
    <3> QED BY <3>1, CleanFacts, QuietKeepsClean
  <2> QED BY <1>6, <2>1, FillKeepsClean
<1> QED BY <1>1, <1>2, <1>3, <1>4, <1>5, <1>6, DropKeepsClean, FillKeepsClean, DisposingKeepsClean,
     OverwritingKeepsClean, ClaimingKeepsClean, CommittingKeepsClean
     DEF DiskStep, Syncing, Transacting

(* A process that moves while nobody writes knows what holds where it goes. *)
LEMMA QuietWary ==
    ASSUME UNCHANGED <<stVars, txVars, outVars>>, NEW p \in Procs, NEW label, NEW j,
           pc'[p] = label, job'[p] = j, Aware(label, j)
    PROVE  Wary(p)'
<1>1. Aware(label, j)'
  BY QuietAware
<1> QED BY <1>1 DEF Wary

(* Most steps lead where there is nothing to know.                          *)
Unwatched == Labels \ (Watched \cup {"unstage", "unstage_sync"})
(* A process that arrives at such a label is wary.                          *)
LEMMA UnwatchedIsWary ==
    ASSUME NEW p \in Procs, pc'[p] \in Unwatched
    PROVE  Wary(p)'
BY FreeIsWary DEF Unwatched, Free

(* A process that ends, in success or in failure, is idle.                  *)
LEMMA LeaveIsWary ==
    ASSUME ControlType, NEW p \in Procs, Leave(p)
    PROVE  Wary(p)'
<1>1. pc'[p] = "idle"
  BY DEF Leave, ControlType
<1> QED BY <1>1, UnwatchedIsWary DEF Unwatched, Watched, Labels

(* The steps that wait for a lock, load, stage, answer or clear the state.  *)
LEMMA UnwatchedSteps ==
    ASSUME ControlType, NEW p \in Procs,
           \/ Locking(p) \/ (Claiming(p) /\ ~SyncState(p)) \/ Validated(p) \/ RebuildStaging(p)
           \/ Protoc(p) \/ Verify(p) \/ CheckPublished(p) \/ DiscardStaging(p) \/ WritePlan(p)
           \/ ReturnToken(p) \/ StoreToken(p) \/ WriteResetIntent(p) \/ ResumeReset(p)
           \/ Unclaim(p) \/ Scrub(p) \/ RemoveState(p)
    PROVE  Wary(p)'
<1>0. pc \in [Procs -> Labels]
  BY DEF ControlType
<1> USE <1>0
<1>1. CASE Locking(p)
  <2>1. pc'[p] \in {"gen", "spawn", "pub", "registry", "load", "idle"}
    BY <1>1 DEF Locking, AcquireRegistry, AcquireGeneration, SpawnChild, AcquirePublication,
       Leave, GotoWith
  <2> QED BY <2>1, UnwatchedIsWary DEF Unwatched, Watched, Labels
<1>2. CASE Claiming(p) /\ ~SyncState(p)
  <2>1. pc'[p] \in {"idle", "load", "wipe", "init", "resume", "recover", "store", "init_sync",
                    "claim_sync"}
    BY <1>2 DEF Claiming, ValidateRegistry, WipeFile, WipeSync, LoadClaim, Released, InitSnapshot,
       InitClaim, Require, Answer, Leave, Goto, GotoWith
  <2> QED BY <2>1, UnwatchedIsWary DEF Unwatched, Watched, Labels
<1>3. CASE Validated(p) \/ RebuildStaging(p) \/ Protoc(p) \/ Verify(p) \/ CheckPublished(p)
           \/ DiscardStaging(p)
  <2>1. pc'[p] \in {"idle", "stage", "protoc", "spawn", "cleanup", "published"}
    BY <1>3 DEF Validated, RebuildStaging, Protoc, Verify, CheckPublished, DiscardStaging,
       Require, Leave, Goto, GotoWith
  <2> QED BY <2>1, UnwatchedIsWary DEF Unwatched, Watched, Labels
<1>4. CASE WritePlan(p) \/ ReturnToken(p) \/ StoreToken(p) \/ WriteResetIntent(p)
           \/ ResumeReset(p) \/ Unclaim(p) \/ Scrub(p) \/ RemoveState(p)
  <2>1. pc'[p] \in {"idle", "plan_sync", "store", "intent_sync", "purge", "unclaim_sync",
                    "scrub_sync"}
    BY <1>4 DEF WritePlan, ReturnToken, StoreToken, WriteResetIntent, ResumeReset, Unclaim, Scrub,
       RemoveState, Answer, Require, Leave, Goto
  <2> QED BY <2>1, UnwatchedIsWary DEF Unwatched, Watched, Labels
<1> QED BY <1>1, <1>2, <1>3, <1>4

(* The sync of the state: a claim is written over the one snapshot, and a   *)
(* committed transaction may be removed.                                    *)
LEMMA SyncStateIsWary ==
    ASSUME CleanInv, NEW p \in Procs, SyncState(p)
    PROVE  Wary(p)'
<1>p. PICK j : j = job[p]
  OBVIOUS
<1>0. /\ pc \in [Procs -> Labels] /\ pc[p] \in DOMAIN AfterSync /\ st' = st /\ stOld' = {st'}
      /\ UNCHANGED <<txVars, outVars>> /\ pc'[p] = AfterSync[pc[p]] /\ job'[p] = j
      /\ AwareState(pc[p], j) /\ AwareTx(pc[p], j)
  BY <1>p, CleanFacts DEF SyncState, Goto, ControlType
<1>1. CASE pc[p] = "init_sync"
  <2>1. Snaps' = {st'.snapshot}
    BY <1>0, StateSynced
  <2>2. Aware("claim", j)'
    BY <2>1 DEF Aware, AwareState, AwareTx, AwareOut, Steady, Applied, Deleting, Emptied, AtOutput,
       Committing
  <2> QED BY <1>0, <1>1, <2>2 DEF Wary, AfterSync
<1>2. CASE pc[p] = "commit_sync"
  <2>1. tx[j.txn].ent /\ Past(tx[j.txn].pend)
    BY <1>0, <1>2 DEF AwareTx, DurablePend
  <2>2. tx'[j.txn].ent /\ Past(tx[j.txn].pend)'
    BY <1>0, <2>1 DEF Past, txVars
  <2>3. j.txn # None /\ j.ret = "unstage" => j.cmd # "reset"
    BY <1>0, <1>2 DEF AwareState, Committing
  <2>4. Aware("drop", j)'
    BY <1>0, <2>2, <2>3 DEF Aware, AwareState, AwareTx, AwareOut, Steady, Applied, Deleting, Emptied,
       AtOutput, Committing
  <2> QED BY <1>0, <1>2, <2>4 DEF Wary, AfterSync
<1>3. CASE pc[p] \in {"claim_sync", "plan_sync", "intent_sync", "unclaim_sync", "scrub_sync"}
  <2>1. pc'[p] \in {"recover", "return", "purge", "scrub"}
    BY <1>0, <1>3 DEF AfterSync
  <2> QED BY <2>1, UnwatchedIsWary DEF Unwatched, Watched, Labels
<1> QED BY <1>0, <1>1, <1>2, <1>3 DEF AfterSync

(* Recovery rolls the one pending transaction forward,                      *)
LEMMA RecoverIsWary ==
    ASSUME CleanInv, NEW p \in Procs, Recover(p)
    PROVE  Wary(p)'
<1>0. /\ ControlType /\ TxType /\ job[p] \in JobRecords /\ UNCHANGED <<st, tx>>
      /\ UNCHANGED outVars
  BY CleanFacts DEF Recover
<1>1. CASE Leave(p)
  BY <1>0, <1>1, LeaveIsWary
<1>2. CASE Pendings = {} /\ Goto(p, "sweep")
  <2>1. pc'[p] = "sweep" /\ Pendings' = {}
    BY <1>0, <1>2 DEF Goto, ControlType, Pendings
  <2> QED BY <2>1 DEF Wary, Aware, AwareState, AwareTx, AwareOut, Steady, Applied, Deleting, Emptied,
       AtOutput, Committing
<1>3. ASSUME NEW x \in Pendings, stOld' = {st},
             GotoWith(p, "apply", [job[p] EXCEPT !.txn = x, !.ret = "sweep"]),
             txOld' = [EntriesSynced(txOld, tx) EXCEPT ![x].pend = {tx[x].pend}]
      PROVE  Wary(p)'
  <2>1. pc'[p] = "apply" /\ job'[p].txn = x /\ job'[p].ret = "sweep"
    BY <1>0, <1>3 DEF GotoWith, ControlType, JobRecords
  <2>2. x \in Txns /\ tx[x].ent /\ tx[x].pend # None
    BY DEF Pendings
  <2>3. EntriesSynced(txOld, tx) \in [Txns -> TxOldRecords]
    BY <1>0, EntriesSyncedKind
  <2>4. EntriesSynced(txOld, tx)[x].ent = {TRUE}
    BY <2>2, <1>0 DEF EntriesSynced, TxType, TxOldRecords
  <2>5. txOld'[x].ent = {TRUE} /\ txOld'[x].pend = {tx[x].pend}
    BY <1>3, <2>2, <2>3, <2>4 DEF TxOldRecords
  <2>6. DurablePend(x)'
    BY <1>0, <2>2, <2>5 DEF DurablePend
  <2> QED BY <1>0, <1>3, <2>1, <2>6 DEF Wary, Aware, AwareState, AwareTx, AwareOut, Steady, Applied,
       Deleting, Emptied, AtOutput, Committing
<1> QED BY <1>1, <1>2, <1>3 DEF Recover

(* and what is left of the others is removed one at a time.                 *)
LEMMA DropIsWary ==
    ASSUME CleanInv, NEW p \in Procs, Drop(p)
    PROVE  Wary(p)'
<1>p. PICK x, j : x = job[p].txn /\ j = job[p]
  OBVIOUS
<1>0. /\ ControlType /\ TxType /\ x \in Txns /\ pc[p] = "drop" /\ job'[p] = j
      /\ AwareState(pc[p], j) /\ AwareTx(pc[p], j) /\ UNCHANGED <<stVars, outVars>>
  BY <1>p, CleanFacts DEF Drop, LocalOK, WithTxn, Committing, Goto
<1>1. /\ tx[x].ent /\ tx[x] \in TxRecords
      /\ tx[x].pend # None => stOld = {st} /\ Past(tx[x].pend)
      /\ j.txn # None /\ j.ret = "unstage" => j.cmd # "reset"
  BY <1>0, <1>p DEF AwareTx, AwareState, Committing, TxType
<1>2. CASE tx[x].pay = NoMap /\ tx[x].pend = None /\ WriteTx(x, NoTx) /\ Goto(p, "drop_sync")
  <2>1. pc'[p] = "drop_sync" /\ tx'[x] = NoTx
    BY <1>0, <1>2, TxWritten DEF Goto, ControlType
  <2>2. MayExist(x)'
    <3>1. MayExist(x)
      BY <1>0, <1>1, NotThere
    <3> QED BY <1>0, <3>1, DropKeepsClean
  <2> QED BY <1>0, <1>1, <1>p, <2>1, <2>2 DEF Wary, Aware, AwareState, AwareTx, AwareOut, Steady,
       Applied, Deleting, Emptied, AtOutput, Committing
<1>3. ASSUME NEW new, WriteTx(x, new), new.ent, new.pend \in {None, tx[x].pend}, Goto(p, "drop")
      PROVE  Wary(p)'
  <2>1. pc'[p] = "drop" /\ tx'[x].ent /\ tx'[x].pend \in {None, tx[x].pend}
    BY <1>0, <1>3, TxWritten DEF Goto, ControlType
  <2>2. tx'[x].pend # None => stOld' = {st'} /\ st'.snapshot.gen # tx'[x].pend.base
    BY <1>0, <1>1, <2>1 DEF Past, stVars
  <2> QED BY <1>0, <1>1, <1>p, <2>1, <2>2 DEF Wary, Aware, AwareState, AwareTx, AwareOut, Steady,
       Applied, Deleting, Emptied, AtOutput, Committing, Past
<1>4. /\ [tx[x] EXCEPT !.pay = NoMap].ent /\ [tx[x] EXCEPT !.pay = NoMap].pend = tx[x].pend
      /\ [tx[x] EXCEPT !.pend = None].ent /\ [tx[x] EXCEPT !.pend = None].pend = None
  BY <1>1 DEF TxRecords
<1> QED BY <1>p, <1>2, <1>3, <1>4 DEF Drop

(* Once the removal is synced the command goes on where it was.             *)
LEMMA DropSyncIsWary ==
    ASSUME CleanInv, NEW p \in Procs, DropSync(p)
    PROVE  Wary(p)'
<1>p. PICK j : j = job[p]
  OBVIOUS
<1>0. /\ ControlType /\ TxType /\ OneTxn /\ j.txn \in Txns /\ j \in JobRecords /\ j.ret \in Results
      /\ pc[p] = "drop_sync" /\ AwareState(pc[p], j) /\ AwareTx(pc[p], j) /\ UNCHANGED tx
  BY <1>p, CleanFacts DEF DropSync, LocalOK, WithTxn, Committing
<1>1. CASE Leave(p)
  BY <1>0, <1>1, LeaveIsWary
<1>2. CASE j.ret # "fail" /\ GotoWith(p, j.ret, [j EXCEPT !.txn = None, !.ret = None])
  <2>1. pc'[p] = j.ret /\ job'[p].cmd = j.cmd
    BY <1>0, <1>2 DEF GotoWith, ControlType, JobRecords
  <2>2. CASE j.ret = "sweep"
    <3>1. \A y \in Txns : ~tx[y].ent
      <4>1. MayExist(j.txn) /\ tx[j.txn] = NoTx
        BY <1>0 DEF AwareTx
      <4>2. \A y \in Txns : tx[y].ent => y = j.txn
        BY <1>0, <4>1, NotThere DEF OneTxn
      <4> QED BY <4>1, <4>2 DEF NoTx
    <3>2. Pendings' = {}
      BY <1>0, <3>1 DEF Pendings
    <3> QED BY <2>1, <2>2, <3>2 DEF Wary, Aware, AwareState, AwareTx, AwareOut, Steady, Applied,
         Deleting, Emptied, AtOutput, Committing
  <2>3. CASE j.ret = "verify"
    BY <2>1, <2>3, UnwatchedIsWary DEF Unwatched, Watched, Labels
  <2>4. CASE j.ret = "unstage"
    <3>1. j.cmd # "reset"
      BY <1>0, <2>4, NoneAssumption DEF AwareState, Committing
    <3> QED BY <2>1, <2>4, <3>1, FreeIsWary DEF Free, Watched
  <2> QED BY <1>0, <1>2, <2>2, <2>3, <2>4 DEF Results
<1> QED BY <1>p, <1>1, <1>2 DEF DropSync

(* A sweep ends when no transaction is pending.                             *)
LEMMA SweepIsWary ==
    ASSUME CleanInv, NEW p \in Procs, Sweep(p) \/ Recovered(p)
    PROVE  Wary(p)'
<1>p. PICK j : j = job[p]
  OBVIOUS
<1>0. /\ ControlType /\ TxType /\ j \in JobRecords /\ pc[p] = "sweep" /\ AwareTx(pc[p], j)
      /\ UNCHANGED <<stVars, txVars, outVars>>
  BY <1>p, CleanFacts DEF Sweep, Recovered, disk, stVars, txVars, outVars
<1>1. CASE Sweep(p)
  <2>1. PICK x \in Txns : tx[x].ent /\ GotoWith(p, "drop", [j EXCEPT !.txn = x, !.ret = "sweep"])
    BY <1>1, <1>p DEF Sweep
  <2>2. pc'[p] = "drop" /\ job'[p].txn = x /\ job'[p].ret = "sweep"
    BY <1>0, <2>1 DEF GotoWith, ControlType, JobRecords
  <2>3. tx'[x].ent /\ tx'[x].pend = None
    BY <1>0, <2>1 DEF AwareTx, Pendings, txVars
  <2> QED BY <2>2, <2>3 DEF Wary, Aware, AwareState, AwareTx, AwareOut, Steady, Applied, Deleting,
       Emptied, AtOutput, Committing
<1>2. CASE Recovered(p)
  <2>1. \A x \in Txns : ~tx'[x].ent
    BY <1>0, <1>2 DEF Recovered, txVars
  <2>2. pc'[p] \in {"retire", "intent", "prepare", "validated", "idle"}
    BY <1>0, <1>2 DEF Recovered, Proceed, Require, Goto, Leave, ControlType
  <2> QED BY <2>1, <2>2 DEF Wary, Aware, AwareState, AwareTx, AwareOut, Steady, Applied, Deleting,
       Emptied, AtOutput, Committing
<1> QED BY <1>1, <1>2

(* A publication and a retirement open a transaction,                       *)
LEMMA OpeningIsWary ==
    ASSUME CleanInv, NEW p \in Procs, Prepare(p) \/ RetireUnplanned(p)
    PROVE  Wary(p)'
<1>p. PICK j : j = job[p]
  OBVIOUS
<1>0. /\ ControlType /\ j \in JobRecords /\ LocalOK(pc[p], j) /\ UNCHANGED outVars
      /\ pc[p] \in {"prepare", "retire"}
  BY <1>p, CleanFacts DEF Prepare, RetireUnplanned
<1>1. CASE Leave(p)
  BY <1>0, <1>1, LeaveIsWary
<1>2. CASE RetireUnplanned(p) /\ Goto(p, "unstage")
  <2>1. pc'[p] = "unstage" /\ job'[p].cmd # "reset"
    BY <1>0, <1>2, <1>p DEF RetireUnplanned, Goto, ControlType, LocalOK
  <2> QED BY <2>1, FreeIsWary DEF Free, Watched
<1>3. ASSUME NEW x \in Txns, NEW label \in {"payload", "pend"}, MakeTransaction(x),
             pc'[p] = label, job'[p].txn = x
      PROVE  Wary(p)'
  <2>1. tx'[x].ent /\ txOld'[x].ent = {TRUE} /\ tx'[x].pend = None /\ stOld' = {st'}
    BY <1>0, <1>3, OpenKeepsClean
  <2> QED BY <1>3, <2>1 DEF Wary, Aware, AwareState, AwareTx, AwareOut, Steady, Applied, Deleting,
       Emptied, AtOutput, Committing
<1>4. \A x \in Txns : \A d :
      /\ [j EXCEPT !.txn = x].txn = x
      /\ [j EXCEPT !.txn = x, !.draft = d].txn = x
  BY <1>0 DEF JobRecords
<1>5. CASE Prepare(p)
  <2>1. \/ Leave(p)
        \/ \E x \in Txns : MakeTransaction(x) /\ GotoWith(p, "payload", [j EXCEPT !.txn = x])
    BY <1>5, <1>p DEF Prepare
  <2>2. ASSUME NEW x \in Txns, MakeTransaction(x), GotoWith(p, "payload", [j EXCEPT !.txn = x])
        PROVE  Wary(p)'
    <3>1. pc'[p] = "payload" /\ job'[p].txn = x
      BY <1>0, <1>4, <2>2 DEF GotoWith, ControlType
    <3> QED BY <1>3, <2>2, <3>1
  <2> QED BY <1>1, <2>1, <2>2
<1>6. CASE RetireUnplanned(p)
  <2>p. PICK d : d = Pending(job[p].build, job[p].plan.outs, RetireOps(p))
    OBVIOUS
  <2>1. \/ Leave(p) \/ Goto(p, "unstage")
        \/ \E x \in Txns : /\ MakeTransaction(x)
                           /\ GotoWith(p, "pend", [j EXCEPT !.txn = x, !.draft = d])
    BY <1>6, <1>p, <2>p DEF RetireUnplanned
  <2>2. ASSUME NEW x \in Txns, MakeTransaction(x),
               GotoWith(p, "pend", [j EXCEPT !.txn = x, !.draft = d])
        PROVE  Wary(p)'
    <3>1. pc'[p] = "pend" /\ job'[p].txn = x
      BY <1>0, <1>4, <2>2 DEF GotoWith, ControlType
    <3> QED BY <1>3, <2>2, <3>1
  <2> QED BY <1>1, <1>2, <1>6, <2>1, <2>2
<1> QED BY <1>5, <1>6

(* fill it,                                                                 *)
LEMMA FillingIsWary ==
    ASSUME CleanInv, NEW p \in Procs, CopyPayload(p) \/ SyncPayloads(p) \/ WritePending(p)
    PROVE  Wary(p)'
<1>p. PICK x, j : x = job[p].txn /\ j = job[p]
  OBVIOUS
<1>0. /\ ControlType /\ TxType /\ j \in JobRecords /\ x \in Txns /\ pc[p] \in {"payload", "pend"}
      /\ UNCHANGED <<st, stOld>> /\ AwareState(pc[p], j) /\ AwareTx(pc[p], j)
  BY <1>p, CleanFacts DEF CopyPayload, SyncPayloads, WritePending, LocalOK, WithTxn, stVars
<1>1. stOld' = {st'} /\ tx[x].ent /\ txOld[x].ent = {TRUE} /\ tx[x].pend = None
  BY <1>0, <1>p DEF AwareState, AwareTx, Steady
<1>2. ASSUME NEW label \in {"payload", "pend", "pend_sync"}, pc'[p] = label, job'[p].txn = x,
             tx'[x].ent, txOld'[x].ent = {TRUE}, label # "pend_sync" => tx'[x].pend = None
      PROVE  Wary(p)'
  BY <1>1, <1>2 DEF Wary, Aware, AwareState, AwareTx, AwareOut, Steady, Applied, Deleting, Emptied,
     AtOutput, Committing
<1>3. CASE WritePending(p)
  <2>1. pc'[p] = "pend_sync" /\ job'[p].txn = x
    BY <1>0, <1>3, <1>p DEF WritePending, Goto, ControlType
  <2>2. tx'[x].ent /\ txOld'[x].ent = {TRUE}
    BY <1>3, <1>p, FillKeepsClean
  <2> QED BY <1>2, <2>1, <2>2
<1>4. CASE SyncPayloads(p)
  <2>p. PICK d : d = Pending(job[p].build, job[p].plan.outs, PublishOps(p))
    OBVIOUS
  <2>1. GotoWith(p, "pend", [j EXCEPT !.draft = d])
    BY <1>4, <1>p, <2>p DEF SyncPayloads
  <2>2. pc'[p] = "pend" /\ job'[p].txn = x
    BY <1>0, <1>p, <2>1 DEF GotoWith, ControlType, JobRecords
  <2>3. tx' = tx /\ txOld' = [txOld EXCEPT ![x].pay = {tx[x].pay}]
    BY <1>4, <1>p DEF SyncPayloads
  <2>4. txOld'[x].ent = {TRUE}
    BY <1>0, <1>1, <2>3 DEF TxType, TxOldRecords
  <2> QED BY <1>1, <1>2, <2>2, <2>3, <2>4
<1>5. CASE CopyPayload(p) /\ pc'[p] = "payload"
  <2>0. job'[p].txn = x
    BY <1>0, <1>5, <1>p DEF CopyPayload, Goto, GotoWith, ControlType
  <2>1. CASE UNCHANGED txVars
    BY <1>1, <1>2, <1>5, <2>0, <2>1 DEF txVars
  <2>2. CASE ~UNCHANGED txVars
    <3>1. tx'[x].ent /\ txOld'[x].ent = {TRUE} /\ tx'[x].pend = None
      BY <1>5, <1>p, <2>2, FillKeepsClean
    <3> QED BY <1>2, <1>5, <2>0, <3>1
  <2> QED BY <2>1, <2>2
<1>6. CASE CopyPayload(p) /\ pc'[p] # "payload"
  <2>1. GotoWith(p, "drop", [j EXCEPT !.ret = "fail"]) /\ UNCHANGED txVars
    BY <1>0, <1>6, <1>p DEF CopyPayload, Goto, ControlType
  <2>2. pc'[p] = "drop" /\ job'[p].txn = x /\ job'[p].ret = "fail"
    BY <1>0, <1>p, <2>1 DEF GotoWith, ControlType, JobRecords
  <2>3. tx'[x].ent /\ tx'[x].pend = None
    BY <1>1, <2>1 DEF txVars
  <2> QED BY <2>2, <2>3 DEF Wary, Aware, AwareState, AwareTx, AwareOut, Steady, Applied, Deleting,
       Emptied, AtOutput, Committing
<1> QED BY <1>3, <1>4, <1>5, <1>6

(* and make it durable;                                                     *)
LEMMA SyncPendingIsWary ==
    ASSUME CleanInv, NEW p \in Procs, SyncPending(p)
    PROVE  Wary(p)'
<1>p. PICK x, j, w : /\ x = job[p].txn /\ j = job[p]
                     /\ w = IF job[p].cmd = "generate" THEN "verify" ELSE "unstage"
  OBVIOUS
<1>0. /\ ControlType /\ TxType /\ j \in JobRecords /\ x \in Txns /\ pc[p] = "pend_sync"
      /\ UNCHANGED <<st, stOld, tx>> /\ AwareState(pc[p], j) /\ AwareTx(pc[p], j)
      /\ tx[x].pend \in PendingRecords /\ j.cmd # "reset"
      /\ GotoWith(p, "apply", [j EXCEPT !.draft = None, !.ret = w])
      /\ txOld' = [txOld EXCEPT ![x].pend = {tx[x].pend}]
  BY <1>p, CleanFacts
     DEF SyncPending, LocalOK, WithTxn, DiskOK, Replaying, Resuming, stVars
<1>1. stOld' = {st'} /\ tx[x].ent /\ txOld[x].ent = {TRUE} /\ tx[x].pend # None
  BY <1>0, <1>p, NoneIsNoRecord DEF AwareState, AwareTx, Steady
<1>2. txOld'[x].ent = {TRUE} /\ txOld'[x].pend = {tx[x].pend}
  BY <1>0, <1>1 DEF TxType, TxOldRecords
<1>3. DurablePend(x)'
  BY <1>0, <1>1, <1>2 DEF DurablePend
<1>4. pc'[p] = "apply" /\ job'[p].txn = x /\ job'[p].cmd # "reset"
  BY <1>0, <1>p DEF GotoWith, ControlType, JobRecords
<1> QED BY <1>1, <1>3, <1>4 DEF Wary, Aware, AwareState, AwareTx, AwareOut, Steady, Applied, Deleting,
     Emptied, AtOutput, Committing

(* then it is applied                                                       *)
LEMMA ApplyingIsWary ==
    ASSUME CleanInv, NEW p \in Procs, ApplyPending(p)
    PROVE  Wary(p)'
<1>p. PICK x, j, pd : x = job[p].txn /\ j = job[p] /\ pd = tx[x].pend
  OBVIOUS
<1>0. /\ ControlType /\ TxType /\ j \in JobRecords /\ x \in Txns /\ pc[p] = "apply"
      /\ AwareState(pc[p], j) /\ UNCHANGED <<stVars, txVars, out, outOld>>
  BY <1>p, CleanFacts DEF ApplyPending, LocalOK, WithTxn, Committing
<1>1. /\ DurablePend(x) /\ stOld = {st} /\ (j.ret = "unstage" => j.cmd # "reset")
      /\ \/ Leave(p)
         \/ Goto(p, "commit_sync") /\ Past(pd)
         \/ GotoWith(p, "output", [j EXCEPT !.ops = pd.entries]) /\ ValidPending(x) /\ PendingLoads(pd)
  BY <1>0, <1>p, ApplyingKeepsClean, NoneAssumption DEF AwareState, Committing
<1>2. DurablePend(x)' /\ stOld' = {st'}
  BY <1>0, <1>1 DEF DurablePend, stVars, txVars
<1>3. CASE Leave(p)
  BY <1>0, <1>3, LeaveIsWary
<1>4. CASE Goto(p, "commit_sync") /\ Past(pd)
  <2>1. pc'[p] = "commit_sync" /\ job'[p] = j /\ st'.snapshot.gen # tx'[x].pend.base
    BY <1>0, <1>4, <1>p DEF Goto, ControlType, Past, stVars, txVars
  <2> QED BY <1>1, <1>2, <1>p, <2>1 DEF Wary, Aware, AwareState, AwareTx, AwareOut, Steady, Applied,
       Deleting, Emptied, AtOutput, Committing, Past
<1>5. CASE GotoWith(p, "output", [j EXCEPT !.ops = pd.entries]) /\ ValidPending(x)
           /\ PendingLoads(pd)
  <2>p. PICK k : k = [j EXCEPT !.ops = pd.entries]
    OBVIOUS
  <2>1. k.txn = x /\ k.ret = j.ret /\ k.cmd = j.cmd /\ k.ops = pd.entries
    BY <1>0, <1>p, <2>p DEF JobRecords
  <2>2. pc'[p] = "output" /\ job'[p] = k
    BY <1>0, <1>5, <2>p DEF GotoWith, ControlType
  <2>3. pd.base \in Nat
    BY <1>0, <1>1, <1>p DEF TxType, TxRecords, DurablePend, OrNone, PendingRecords
  <2>4. Ahead(pd, k)'
    <3>1. pd.base = st'.snapshot.gen /\ pd.snap.gen # pd.base
      BY <1>0, <1>5, <1>p, <2>3 DEF ValidPending, PendingLoads, stVars
    <3>2. pd.snap.entries = NextEntries(st'.snapshot.entries, pd.entries)
      BY <1>0, <1>5, <1>p DEF ValidPending, stVars
    <3> QED BY <2>1, <3>1, <3>2 DEF Ahead
  <2>5. tx'[k.txn].pend = pd
    BY <1>0, <1>p, <2>1 DEF txVars
  <2>6. AwareOut("output", k)'
    BY <2>1, <2>4, <2>5, <1>0, NoneAssumption DEF AwareOut, Deleting, Emptied
  <2>7. AwareState("output", k)' /\ AwareTx("output", k)'
    BY <1>0, <1>1, <1>2, <2>1, NoneAssumption DEF AwareState, AwareTx, Steady, Applied, Deleting,
       Emptied, AtOutput, Committing
  <2> QED BY <2>2, <2>6, <2>7 DEF Wary, Aware
<1> QED BY <1>1, <1>3, <1>4, <1>5

(* and committed.                                                           *)
LEMMA CommittingIsWary ==
    ASSUME CleanInv, NEW p \in Procs, CommitSnapshot(p)
    PROVE  Wary(p)'
<1>p. PICK x, j : x = job[p].txn /\ j = job[p]
  OBVIOUS
<1>0. /\ ControlType /\ StateType /\ x \in Txns /\ pc[p] = "snap"
      /\ AwareState(pc[p], j) /\ UNCHANGED <<txVars, outVars>>
      /\ pc'[p] = "commit_sync" /\ job'[p] = j
  BY <1>p, CleanFacts DEF CommitSnapshot, LocalOK, WithTxn, Committing, Goto, ControlType
<1>1. DurablePend(x) /\ st'.snapshot.gen # tx[x].pend.base
  BY <1>p, CommittingKeepsClean
<1>2. DurablePend(x)' /\ st'.snapshot.gen # tx'[x].pend.base
  BY <1>0, <1>1 DEF DurablePend, txVars
<1>3. j.txn # None /\ j.ret = "unstage" => j.cmd # "reset"
  BY <1>0 DEF AwareState, Committing
<1> QED BY <1>0, <1>2, <1>3, <1>p DEF Wary, Aware, AwareState, AwareTx, AwareOut, Steady, Applied,
     Deleting, Emptied, AtOutput, Committing, Past

(* Looking at an output: one that is to be deleted is as wanted only when   *)
(* it is gone.                                                              *)
LEMMA LookingIsWary ==
    ASSUME CleanInv, NEW p \in Procs, CheckOutput(p)
    PROVE  Wary(p)'
<1>p. PICK j : j = job[p]
  OBVIOUS
<1>0. /\ ControlType /\ OutType /\ j \in JobRecords /\ pc[p] = "output" /\ TypeInv
      /\ AwareState(pc[p], j) /\ AwareTx(pc[p], j) /\ AwareOut(pc[p], j)
      /\ UNCHANGED <<stVars, txVars, outVars>>
  BY <1>p, CleanFacts DEF CheckOutput, disk, stVars, txVars, outVars
<1>1. PICK o \in DOMAIN j.ops :
         \/ Leave(p)
         \/ /\ GotoWith(p, "act", [j EXCEPT !.cur = o, !.obs = Bytes(out[o])])
         \/ /\ GotoWith(p, "out_sync", [j EXCEPT !.cur = o, !.obs = Bytes(out[o])])
            /\ AsWanted(j.ops[o], out[o])
  BY <1>p DEF CheckOutput
<1>2. CASE Leave(p)
  BY <1>0, <1>2, LeaveIsWary
<1>3. o \in Paths
  BY <1>0, <1>p, OpAtHand
<1>4. AsWanted(j.ops[o], out[o]) => (j.ops[o].after = None => out[o] = None)
  <2>1. out[o] = None \/ out[o].bytes \in Contents \cup {Foreign}
    BY <1>0, <1>3 DEF OutType, Cells, OrNone
  <2> QED BY <2>1, NoneAssumption DEF AsWanted, Bytes
<1>5. ASSUME NEW label \in {"act", "out_sync"}, NEW k, GotoWith(p, label, k),
             k = [j EXCEPT !.cur = o, !.obs = Bytes(out[o])],
             label = "out_sync" => (j.ops[o].after = None => out[o] = None)
      PROVE  Wary(p)'
  <2>1. pc'[p] = label /\ job'[p] = k
    BY <1>0, <1>5 DEF GotoWith, ControlType
  <2>2. k.ops = j.ops /\ k.txn = j.txn /\ k.cmd = j.cmd /\ k.ret = j.ret /\ k.cur = o
    BY <1>0, <1>5 DEF JobRecords
  <2>3. AwareState(label, k) /\ AwareTx(label, k)
    BY <1>0, <2>2 DEF AwareState, AwareTx, Steady, Applied, Deleting, Emptied, AtOutput, Committing
  <2>4. AwareOut(label, k)
    <3>1. Applied(label, k) => Ahead(tx[k.txn].pend, k)
      BY <1>0, <2>2 DEF AwareOut, Applied, AtOutput, Ahead
    <3>2. Deleting(label, k) => Deleting(pc[p], j)
      BY <1>0, <2>2 DEF Deleting, AtOutput
    <3> QED BY <1>0, <1>5, <2>2, <3>1, <3>2 DEF AwareOut, Emptied
  <2> QED BY <1>0, <2>1, <2>3, <2>4, QuietWary DEF Aware
<1> QED BY <1>1, <1>2, <1>4, <1>5

(* Acting on one leaves the others as they are.                             *)
LEMMA ActingIsWary ==
    ASSUME CleanInv, NEW p \in Procs, ActOnOutput(p)
    PROVE  Wary(p)'
<1>p. PICK o, j, pd : o = job[p].cur /\ j = job[p] /\ pd = tx[job[p].txn].pend
  OBVIOUS
<1>0. /\ ControlType /\ OutType /\ TypeInv /\ j \in JobRecords /\ pc[p] = "act" /\ LocalOK(pc[p], j)
      /\ AwareState(pc[p], j) /\ AwareTx(pc[p], j) /\ AwareOut(pc[p], j)
      /\ UNCHANGED <<stVars, txVars>> /\ pc'[p] = "out_sync" /\ job'[p] = j
  BY <1>p, CleanFacts DEF ActOnOutput, Goto, ControlType
<1>1. o \in DOMAIN j.ops /\ o \in Paths
  BY <1>0, <1>p, OpAtHand DEF LocalOK
<1>2. \A q \in Paths : q # o => (Left(q)' <=> Left(q))
  BY <1>p, ActingKeepsClean
<1>3. j.ops[o].after = None => out'[o] = None
  BY <1>0, <1>1, <1>p DEF ActOnOutput, WriteOut, OutType
<1>4. AwareState("out_sync", j)' /\ AwareTx("out_sync", j)'
  BY <1>0 DEF AwareState, AwareTx, Steady, Applied, Deleting, Emptied, AtOutput, Committing,
     DurablePend, stVars, txVars
<1>5. Applied("out_sync", j) => Ahead(pd, j)'
  <2> HAVE Applied("out_sync", j)
  <2>1. Ahead(pd, j)
    BY <1>0, <1>p DEF AwareOut, Applied, AtOutput
  <2>2. \A q : q \in DOMAIN pd.entries \ DOMAIN j.ops => (Left(q)' => Left(q))
    BY <1>1, <1>2 DEF Left
  <2> QED BY <1>0, <2>1, <2>2 DEF Ahead, stVars
<1>6. Deleting("out_sync", j) =>
         /\ DOMAIN j.ops \subseteq DOMAIN st'.snapshot.entries
         /\ \A q \in DOMAIN j.ops : j.ops[q].after = None
         /\ \A q \in Paths : Left(q)' => q \in DOMAIN j.ops
  BY <1>0, <1>1, <1>2 DEF AwareOut, Deleting, AtOutput, stVars
<1>7. tx'[j.txn].pend = pd
  BY <1>0, <1>p DEF txVars
<1>8. AwareOut("out_sync", j)'
  BY <1>3, <1>5, <1>6, <1>7, <1>p DEF AwareOut, Applied, Deleting, Emptied
<1> QED BY <1>0, <1>4, <1>8 DEF Wary, Aware

(* Once it is synced, one that was to be deleted is gone for certain.       *)
LEMMA OutSyncIsWary ==
    ASSUME CleanInv, NEW p \in Procs, SyncOutput(p)
    PROVE  Wary(p)'
<1>p. PICK o, j, pd : o = job[p].cur /\ j = job[p] /\ pd = tx[job[p].txn].pend
  OBVIOUS
<1>q. PICK k : k = [j EXCEPT !.ops = Without(j.ops, {o}), !.cur = None, !.obs = None]
  OBVIOUS
<1>0. /\ ControlType /\ OutType /\ TypeInv /\ j \in JobRecords /\ pc[p] = "out_sync"
      /\ LocalOK(pc[p], j)
      /\ AwareState(pc[p], j) /\ AwareTx(pc[p], j) /\ AwareOut(pc[p], j)
      /\ UNCHANGED <<stVars, txVars, touched>> /\ GotoWith(p, "output", k)
  BY <1>p, <1>q, CleanFacts DEF SyncOutput
<1>1. o \in DOMAIN j.ops /\ o \in Paths
  BY <1>0, <1>p, OpAtHand DEF LocalOK
<1>2. pc'[p] = "output" /\ job'[p] = k
  BY <1>0 DEF GotoWith, ControlType
<1>3. k.txn = j.txn /\ k.cmd = j.cmd /\ k.ret = j.ret /\ k.ops = Without(j.ops, {o})
  BY <1>0, <1>q DEF JobRecords
<1>4. DOMAIN k.ops = DOMAIN j.ops \ {o} /\ \A q \in DOMAIN k.ops : k.ops[q] = j.ops[q]
  BY <1>3 DEF Without, Restrict
<1>5. /\ \A q \in Paths : Left(q)' => Left(q)
      /\ out[o] = None => ~Left(o)'
  BY <1>p, OutSyncKeepsClean
<1>6. j.ops[o].after = None => ~Left(o)'
  <2>1. o \in touched \/ (j.ops[o].after = None => out[o] = None)
    BY <1>0, <1>p DEF AwareOut
  <2>2. o \in touched => ~Left(o)'
    BY <1>0 DEF Left
  <2> QED BY <1>5, <2>1, <2>2
<1>7. AwareState("output", k)' /\ AwareTx("output", k)'
  BY <1>0, <1>3 DEF AwareState, AwareTx, Steady, Applied, Deleting, Emptied, AtOutput, Committing,
     DurablePend, stVars, txVars
<1>8. Applied("output", k) => Ahead(pd, k)'
  <2> HAVE Applied("output", k)
  <2>1. Ahead(pd, j)
    BY <1>0, <1>3, <1>p DEF AwareOut, Applied, AtOutput
  <2>2. /\ DOMAIN k.ops \subseteq DOMAIN pd.entries
        /\ \A q \in DOMAIN k.ops : k.ops[q] = pd.entries[q]
    BY <1>4, <2>1 DEF Ahead
  <2>3. \A q \in DOMAIN pd.entries \ DOMAIN k.ops : pd.entries[q].after = None => ~Left(q)'
    <3> TAKE q \in DOMAIN pd.entries \ DOMAIN k.ops
    <3>1. CASE q = o
      BY <1>1, <1>6, <2>1, <3>1 DEF Ahead
    <3>2. CASE q # o
      <4>1. pd.entries[q].after = None => ~Left(q)
        BY <1>4, <2>1, <3>2 DEF Ahead
      <4>2. Left(q)' => Left(q)
        BY <1>5 DEF Left
      <4> QED BY <4>1, <4>2
    <3> QED BY <3>1, <3>2
  <2> QED BY <1>0, <2>1, <2>2, <2>3 DEF Ahead, stVars
<1>9. Deleting("output", k) =>
         /\ DOMAIN k.ops \subseteq DOMAIN st'.snapshot.entries
         /\ \A q \in DOMAIN k.ops : k.ops[q].after = None
         /\ \A q \in Paths : Left(q)' => q \in DOMAIN k.ops
  <2> HAVE Deleting("output", k)
  <2>1. /\ DOMAIN j.ops \subseteq DOMAIN st.snapshot.entries
        /\ \A q \in DOMAIN j.ops : j.ops[q].after = None
        /\ \A q \in Paths : Left(q) => q \in DOMAIN j.ops
    BY <1>0, <1>3 DEF AwareOut, Deleting, AtOutput
  <2> QED BY <1>0, <1>1, <1>4, <1>5, <1>6, <2>1 DEF stVars
<1>10. tx'[k.txn].pend = pd
  BY <1>0, <1>3, <1>p DEF txVars
<1>11. AwareOut("output", k)'
  BY <1>8, <1>9, <1>10 DEF AwareOut, Applied, Deleting, Emptied
<1> QED BY <1>2, <1>7, <1>11 DEF Wary, Aware

(* With every output done a transaction is committed, and a reset has left  *)
(* none.                                                                    *)
LEMMA OutputsDoneIsWary ==
    ASSUME CleanInv, NEW p \in Procs, OutputsDone(p)
    PROVE  Wary(p)'
<1>p. PICK j : j = job[p]
  OBVIOUS
<1>0. /\ ControlType /\ j \in JobRecords /\ pc[p] = "output" /\ DOMAIN j.ops = {}
      /\ AwareState(pc[p], j) /\ AwareTx(pc[p], j) /\ AwareOut(pc[p], j) /\ job'[p] = j
      /\ UNCHANGED <<stVars, txVars, outVars>>
      /\ pc'[p] = IF j.txn = None THEN "unstage" ELSE "snap"
  BY <1>p, CleanFacts DEF OutputsDone, Goto, ControlType, disk, stVars, txVars, outVars
<1>1. CASE j.txn = None
  <2>1. st.reset # None /\ \A o \in Paths : ~Left(o)
    BY <1>0, <1>1 DEF AwareState, AwareOut, Deleting, AtOutput
  <2>2. Aware("unstage", j)
    BY <2>1 DEF Aware, AwareState, AwareTx, AwareOut, Steady, Applied, Deleting, Emptied,
       AtOutput, Committing
  <2> QED BY <1>0, <1>1, <2>2, QuietWary
<1>2. CASE j.txn # None
  <2>1. Aware("snap", j)
    BY <1>0, <1>2 DEF Aware, AwareState, AwareTx, AwareOut, Steady, Applied, Deleting, Emptied,
       AtOutput, Committing
  <2> QED BY <1>0, <1>2, <2>1, QuietWary
<1> QED BY <1>1, <1>2

(* A reset that deletes outputs deletes every one that is left, and what    *)
(* follows the last one finds none.                                         *)
LEMMA PurgeIsWary ==
    ASSUME CleanInv, NEW p \in Procs, Purge(p)
    PROVE  Wary(p)'
<1>p. PICK j, k : j = job[p] /\ k = [job[p] EXCEPT !.ops = DeleteOps(st.reset.entries)]
  OBVIOUS
<1>0. /\ ControlType /\ StateType /\ j \in JobRecords /\ pc[p] = "purge" /\ LocalOK(pc[p], j)
      /\ DiskOK(pc[p], j, st, tx) /\ KnowsClaim(pc[p], j) /\ Matches(st) /\ AllRecorded
      /\ st.claim # None /\ UNCHANGED <<stVars, txVars, outVars>> /\ GotoWith(p, "output", k)
  BY <1>p, CleanFacts DEF Purge, Claimed, disk, stVars, txVars, outVars
<1>1. pc'[p] = "output" /\ job'[p] = k
  BY <1>0 DEF GotoWith, ControlType
<1>2. k.txn = j.txn /\ k.cmd = j.cmd /\ k.ops = DeleteOps(st.reset.entries)
  BY <1>0, <1>p DEF JobRecords
<1>3. j.txn = None /\ j.cmd = "reset" /\ st.reset # None
  BY <1>0, NoneIsNoRecord DEF LocalOK, WithTxn, Committing, AtOutput, KnowsClaim, ResetOnly, DiskOK
<1>4. st.reset.entries = st.snapshot.entries
  BY <1>0, <1>3 DEF Matches
<1>5. DOMAIN k.ops = DOMAIN st.snapshot.entries /\ \A o \in DOMAIN k.ops : k.ops[o].after = None
  BY <1>2, <1>4 DEF DeleteOps
<1>6. \A o \in Paths : Left(o) => o \in DOMAIN k.ops
  BY <1>0, <1>3, <1>5 DEF AllRecorded, Recorded, StateType
<1>7. Aware("output", k)
  BY <1>2, <1>3, <1>5, <1>6 DEF Aware, AwareState, AwareTx, AwareOut, Steady, Applied, Deleting,
     Emptied, AtOutput, Committing
<1> QED BY <1>0, <1>1, <1>7, QuietWary

(* A reset that removes staging has deleted, and synced, every output.      *)
LEMMA StagingIsWary ==
    ASSUME CleanInv, NEW p \in Procs, RemoveStaging(p) \/ SyncStaging(p) \/ RemoveDisposable(p)
    PROVE  Wary(p)'
<1>p. PICK j : j = job[p]
  OBVIOUS
<1>0. /\ ControlType /\ AwareState(pc[p], j) /\ AwareOut(pc[p], j) /\ job'[p] = j
      /\ pc[p] \in {"unstage", "unstage_sync", "disposable"} /\ UNCHANGED <<stVars, outVars>>
  BY <1>p, CleanFacts DEF RemoveStaging, SyncStaging, RemoveDisposable, Goto
<1>1. /\ RemoveStaging(p) => pc[p] = "unstage" /\ pc'[p] = "unstage_sync"
      /\ SyncStaging(p) => /\ pc[p] = "unstage_sync"
                           /\ pc'[p] = IF j.cmd = "reset" THEN "disposable" ELSE "plan"
      /\ RemoveDisposable(p) => pc[p] = "disposable" /\ pc'[p] = "unclaim"
  BY <1>0, <1>p DEF RemoveStaging, SyncStaging, RemoveDisposable, Goto, ControlType
<1>2. CASE Emptied(pc[p], j)
  <2>1. st'.reset # None /\ \A o \in Paths : ~Left(o)'
    BY <1>0, <1>2 DEF AwareState, AwareOut, Left, stVars, outVars
  <2>2. pc'[p] \in {"unstage_sync", "disposable", "plan", "unclaim"}
    BY <1>1
  <2>3. \A label : label = pc'[p] => Aware(label, j)'
    BY <2>1, <2>2 DEF Aware, AwareState, AwareTx, AwareOut, Steady, Applied, Deleting,
       Emptied, AtOutput, Committing
  <2> QED BY <1>0, <2>3 DEF Wary
<1>3. CASE ~Emptied(pc[p], j)
  <2>1. j.cmd # "reset" /\ pc'[p] \in {"unstage_sync", "plan"}
    BY <1>0, <1>1, <1>3 DEF Emptied
  <2> QED BY <1>0, <2>1, FreeIsWary DEF Free, Watched
<1> QED BY <1>2, <1>3

(* So the process that takes a step knows what it relies on next;           *)
LEMMA StepKeepsWary ==
    ASSUME CleanInv, NEW p \in Procs, Step(p)
    PROVE  Wary(p)'
<1>0. ControlType
  BY CleanFacts
<1> QED BY <1>0, UnwatchedSteps, SyncStateIsWary, RecoverIsWary, DropIsWary, DropSyncIsWary,
     SweepIsWary, OpeningIsWary, FillingIsWary, SyncPendingIsWary, ApplyingIsWary,
     CommittingIsWary, LookingIsWary, ActingIsWary, OutSyncIsWary, OutputsDoneIsWary,
     PurgeIsWary, StagingIsWary
     DEF Step, Claiming, Recovering, Applying, Generating, Configuring, Resetting

(* the others are outside the publication section, or nobody writes.        *)
LEMMA OthersKeepWary ==
    ASSUME CleanInv, NEW p \in Procs, Step(p), NEW q \in Procs, q # p
    PROVE  Wary(q)'
<1>0. TypeInv /\ ControlType /\ Wary(q)
  BY CleanFacts DEF CleanInv
<1>1. pc'[q] = pc[q] /\ job'[q] = job[q]
  BY <1>0, StepFrame DEF Frame
<1>2. CASE pc[q] \notin PubSection
  BY <1>1, <1>2, FreeIsWary DEF Free, Watched, PubSection
<1>3. CASE pc[q] \in PubSection
  <2>1. pc[p] \notin PubSection
    BY <1>0, <1>3 DEF TypeInv, PubInv
  <2>2. UNCHANGED <<stVars, txVars, outVars>>
    BY <2>1, OutsideQuiet
  <2> QED BY <1>0, <1>1, <2>2, QuietWary DEF Wary
<1> QED BY <1>2, <1>3

(* A command keeps its token to its end, unless it draws or returns one.    *)
Returns(p) == Released(p) \/ ReturnToken(p)
KeepsToken(p) == pc'[p] = "idle" \/ job'[p].token = job[p].token
(* So the token it resets with is the one it started with.                  *)
LEMMA StepKeepsToken ==
    ASSUME ControlType, NEW p \in Procs, Step(p)
    PROVE  KeepsToken(p) \/ InitSnapshot(p) \/ Returns(p)
<1>0. pc \in [Procs -> Labels] /\ job \in [Procs -> JobRecords] /\ job[p] \in JobRecords
  BY DEF ControlType
<1> DEFINE Same(j) == j.token = job[p].token
<1>a. \A label : Goto(p, label) => KeepsToken(p)
  BY <1>0 DEF Goto, KeepsToken
<1>b. Leave(p) => KeepsToken(p)
  BY <1>0 DEF Leave, KeepsToken
<1>c. \A label, j : GotoWith(p, label, j) /\ Same(j) => KeepsToken(p)
  BY <1>0 DEF GotoWith, KeepsToken
<1>e. \A condition, label : Require(p, condition, label) => KeepsToken(p)
  BY <1>a, <1>b DEF Require
<1>f. job'[p] = job[p] => KeepsToken(p)
  BY DEF KeepsToken
<1>j. /\ \A v : Same([job[p] EXCEPT !.plan = planFile[job[p].build]])
      /\ \A v, w : Same([job[p] EXCEPT !.txn = v, !.ret = w])
      /\ \A v : Same([job[p] EXCEPT !.txn = v])
      /\ \A v, w : Same([job[p] EXCEPT !.txn = v, !.draft = w])
      /\ \A v : Same([job[p] EXCEPT !.ret = v])
      /\ \A v : Same([job[p] EXCEPT !.draft = v])
      /\ \A v, w : Same([job[p] EXCEPT !.draft = v, !.ret = w])
      /\ \A v : Same([job[p] EXCEPT !.ops = v])
      /\ \A v, w : Same([job[p] EXCEPT !.cur = v, !.obs = w])
      /\ \A u, v, w : Same([job[p] EXCEPT !.ops = u, !.cur = v, !.obs = w])
      /\ \A v : Same([job[p] EXCEPT !.declared = v])
      /\ \A v : Same([job[p] EXCEPT !.publishing = v])
  BY <1>0 DEF JobRecords
<1> HIDE DEF Same
<1>1. CASE Locking(p)
  BY <1>1, <1>a, <1>b, <1>c, <1>f, <1>j DEF Locking, AcquireRegistry, AcquireGeneration,
     SpawnChild, AcquirePublication
<1>2. CASE Claiming(p)
  BY <1>2, <1>a, <1>b, <1>c, <1>e, <1>f, <1>j DEF Claiming, ValidateRegistry, WipeFile, WipeSync,
     LoadClaim, InitClaim, SyncState, AfterSync, Returns
<1>3. CASE Recovering(p)
  <2>1. CASE Recover(p) \/ Drop(p) \/ Sweep(p)
    BY <2>1, <1>a, <1>b, <1>c, <1>j DEF Recover, Drop, Sweep
  <2>2. CASE DropSync(p)
    BY <2>2, <1>b, <1>c, <1>j DEF DropSync
  <2>3. CASE Recovered(p)
    BY <2>3, <1>e DEF Recovered, Proceed
  <2> QED BY <1>3, <2>1, <2>2, <2>3 DEF Recovering
<1>4. CASE Applying(p)
  <2>1. CASE WritePending(p) \/ ActOnOutput(p) \/ OutputsDone(p) \/ CommitSnapshot(p)
    BY <2>1, <1>a DEF WritePending, ActOnOutput, OutputsDone, CommitSnapshot
  <2>2. CASE SyncPending(p) \/ SyncOutput(p)
    BY <2>2, <1>c, <1>j DEF SyncPending, SyncOutput
  <2>3. CASE ApplyPending(p)
    BY <2>3, <1>b, <1>c, <1>e, <1>j DEF ApplyPending
  <2>4. CASE CheckOutput(p)
    BY <2>4, <1>b, <1>c, <1>j DEF CheckOutput
  <2> QED BY <1>4, <2>1, <2>2, <2>3, <2>4 DEF Applying
<1>5. CASE Generating(p)
  <2>1. CASE Validated(p) \/ Verify(p) \/ CheckPublished(p) \/ DiscardStaging(p)
    BY <2>1, <1>b, <1>e, <1>f DEF Validated, Verify, CheckPublished, DiscardStaging
  <2>2. CASE RebuildStaging(p) \/ Protoc(p)
    BY <2>2, <1>a, <1>b, <1>c, <1>j DEF RebuildStaging, Protoc
  <2>3. CASE Prepare(p) \/ CopyPayload(p) \/ SyncPayloads(p)
    BY <2>3, <1>a, <1>b, <1>c, <1>j DEF Prepare, CopyPayload, SyncPayloads
  <2> QED BY <1>5, <2>1, <2>2, <2>3 DEF Generating
<1>6. CASE Configuring(p)
  BY <1>6, <1>a, <1>b, <1>c, <1>j DEF Configuring, RetireUnplanned, RemoveStaging, SyncStaging,
     WritePlan, StoreToken, Returns
<1>7. CASE Resetting(p)
  BY <1>7, <1>a, <1>b, <1>c, <1>e, <1>j DEF Resetting, WriteResetIntent, ResumeReset, Purge,
     RemoveDisposable, Unclaim, Scrub, RemoveState
<1> QED BY <1>1, <1>2, <1>3, <1>4, <1>5, <1>6, <1>7 DEF Step

(* Only a command that reconciles returns a token.                          *)
LEMMA StepToAnswer ==
    ASSUME TypeInv, NEW p \in Procs, Step(p), pc'[p] \in Answering
    PROVE  WritePlan(p) \/ (SyncState(p) /\ pc[p] = "plan_sync") \/ Returns(p)
<1>0. pc \in [Procs -> Labels] /\ job[p] \in JobRecords /\ LocalOK(pc[p], job[p])
  BY DEF TypeInv, TypeOK, ControlType, Shape
<1> USE <1>0
<1>a. \A label : Goto(p, label) => pc'[p] = label
  BY DEF Goto
<1>b. Leave(p) => pc'[p] = "idle"
  BY DEF Leave
<1>c. \A label, j : GotoWith(p, label, j) => pc'[p] = label
  BY DEF GotoWith
<1>e. \A condition, label : Require(p, condition, label) => pc'[p] \in {"idle", label}
  BY <1>a, <1>b DEF Require
<1>1. CASE Locking(p)
  <2>1. pc'[p] \in {"gen", "spawn", "pub", "registry", "load", "idle"}
    BY <1>1, <1>b, <1>c DEF Locking, AcquireRegistry, AcquireGeneration, SpawnChild,
       AcquirePublication
  <2> QED BY <2>1 DEF Answering
<1>2. CASE Claiming(p) /\ ~Released(p)
  <2>1. CASE SyncState(p)
    <3>1. pc[p] \in DOMAIN AfterSync /\ pc'[p] = AfterSync[pc[p]]
      BY <2>1, <1>a DEF SyncState
    <3> QED BY <2>1, <3>1 DEF AfterSync, Answering
  <2>2. CASE ~SyncState(p)
    <3>1. pc'[p] \in {"load", "wipe", "idle", "init", "resume", "recover", "init_sync",
                      "claim_sync"}
      BY <1>2, <2>2, <1>a, <1>c, <1>e DEF Claiming, ValidateRegistry, WipeFile, WipeSync,
         LoadClaim, InitSnapshot, InitClaim
    <3> QED BY <3>1 DEF Answering
  <2> QED BY <2>1, <2>2
<1>3. CASE Recovering(p)
  <2>1. job[p].ret \in Results \/ pc[p] # "drop_sync"
    BY DEF LocalOK, Committing
  <2>2. pc'[p] \in {"sweep", "idle", "apply", "drop", "drop_sync", "verify", "unstage", "retire",
                    "intent", "prepare", "validated"}
    BY <1>3, <2>1, <1>a, <1>b, <1>c, <1>e DEF Recovering, Recover, Drop, DropSync, Sweep,
       Recovered, Proceed, Results
  <2> QED BY <2>2 DEF Answering
<1>4. CASE Applying(p)
  <2>1. pc'[p] \in {"pend_sync", "apply", "idle", "commit_sync", "output", "out_sync", "act",
                    "unstage", "snap"}
    BY <1>4, <1>a, <1>b, <1>c, <1>e DEF Applying, WritePending, SyncPending, ApplyPending,
       CheckOutput, ActOnOutput, SyncOutput, OutputsDone, CommitSnapshot
  <2> QED BY <2>1 DEF Answering
<1>5. CASE Generating(p)
  <2>1. pc'[p] \in {"stage", "protoc", "idle", "spawn", "cleanup", "payload", "drop", "pend",
                    "published"}
    BY <1>5, <1>a, <1>b, <1>c, <1>e DEF Generating, Validated, RebuildStaging, Protoc, Prepare,
       CopyPayload, SyncPayloads, Verify, CheckPublished, DiscardStaging
  <2> QED BY <2>1 DEF Answering
<1>6. CASE Configuring(p) /\ ~WritePlan(p) /\ ~ReturnToken(p)
  <2>1. pc'[p] \in {"idle", "unstage", "pend", "unstage_sync", "disposable", "plan"}
    BY <1>6, <1>a, <1>b, <1>c DEF Configuring, RetireUnplanned, RemoveStaging, SyncStaging,
       StoreToken
  <2> QED BY <2>1 DEF Answering
<1>7. CASE Resetting(p)
  <2>1. pc'[p] \in {"idle", "intent_sync", "purge", "output", "unclaim", "unclaim_sync",
                    "scrub_sync"}
    BY <1>7, <1>a, <1>b, <1>c, <1>e DEF Resetting, WriteResetIntent, ResumeReset, Purge,
       RemoveDisposable, Unclaim, Scrub, RemoveState
  <2> QED BY <2>1 DEF Answering
<1> QED BY <1>1, <1>2, <1>3, <1>4, <1>5, <1>6, <1>7 DEF Step, Returns

(* So the operator's reset stays the only one, with a token that is held.   *)
LEMMA StepKeepsReset ==
    ASSUME CleanInv, NEW p \in Procs, Step(p)
    PROVE  OneReset' /\ HeldToken' /\ NoAnswer'
<1>0. /\ TypeInv /\ ControlType /\ Stopped /\ OneReset /\ HeldToken /\ NoAnswer
      /\ LocalOK(pc[p], job[p]) /\ KnowsClaim(pc[p], job[p])
  BY CleanFacts DEF CleanInv, ResetInv
<1>1. pc[p] # "idle" /\ SameCommand(p)
  BY <1>0, StepKeepsCommand
<1>2. \A q \in Procs : q # p => pc'[q] = pc[q] /\ job'[q] = job[q]
  BY <1>0, StepFrame DEF Frame
<1>3. \A q \in Procs : Clearing(q)' => Clearing(q)
  BY <1>1, <1>2 DEF Clearing, SameCommand
<1>4. OneReset'
  BY <1>0, <1>3 DEF OneReset
<1>5. Returns(p) => job[p].cmd # "reset"
  BY <1>0 DEF Returns, Released, ReturnToken, NoAnswer, Answering
<1>6. \A q \in Procs : Clearing(q)' => job'[q].token = job[q].token
  <2> TAKE q \in Procs
  <2> HAVE Clearing(q)'
  <2>1. CASE q # p
    BY <1>2, <2>1
  <2>2. CASE q = p
    <3>1. job[p].cmd = "reset" /\ pc'[p] # "idle"
      BY <1>3, <2>2 DEF Clearing
    <3>2. ~InitSnapshot(p)
      BY <1>0, <3>1 DEF KnowsClaim, InitSnapshot
    <3> QED BY <1>0, <1>5, <2>2, <3>1, <3>2, StepKeepsToken DEF KeepsToken
  <2> QED BY <2>1, <2>2
<1>7. held' = held \/ \A q \in Procs : ~Clearing(q)
  <2>1. StoreToken(p) => Building(p)
    BY <1>0, <1>1 DEF StoreToken, NoAnswer, Answering, Building
  <2> QED BY <1>0, <2>1, StepOnTokens DEF Stopped
<1>8. HeldToken'
  BY <1>0, <1>3, <1>6, <1>7 DEF HeldToken
<1>9. NoAnswer'
  <2>1. ASSUME pc'[p] \in Answering
        PROVE  job'[p].cmd # "reset"
    <3>1. job[p].cmd # "reset"
      BY <1>0, <1>5, <2>1, StepToAnswer DEF WritePlan, LocalOK, NoAnswer, Answering
    <3> QED BY <1>1, <2>1, <3>1 DEF SameCommand, Answering
  <2> QED BY <1>0, <1>2, <2>1 DEF NoAnswer
<1> QED BY <1>4, <1>8, <1>9

(* At first the root is empty and nobody is at work.                        *)
LEMMA CleanInvInit == Init => CleanInv
<1> SUFFICES ASSUME Init  PROVE CleanInv
  OBVIOUS
<1>1. /\ st = EmptyState /\ stOld = {EmptyState} /\ txOld = [x \in Txns |-> NoTxOld]
      /\ outOld = [o \in Paths |-> {None}] /\ pc = [p \in Procs |-> "idle"]
  BY DEF Init
<1>2. \A p \in Procs : pc[p] = "idle"
  BY <1>1
<1>3. Clean
  <2>1. \A o \in Paths : ~Left(o)
    BY <1>1 DEF Left
  <2>2. OneTxn
    BY <1>1 DEF OneTxn, MayExist, NoTxOld
  <2> QED BY <1>1, <2>1, <2>2 DEF Clean, AllRecorded, Older, EmptyState
<1>4. OneReset /\ HeldToken /\ NoAnswer
  BY <1>2 DEF OneReset, HeldToken, NoAnswer, Clearing, Answering
<1>5. \A p \in Procs : Wary(p)
  BY <1>2, FreeIsAware DEF Wary, Free, Watched
<1> QED BY <1>3, <1>4, <1>5, ResetInvInit DEF CleanInv

(* A command that starts, or ends, leaves the disk alone.                   *)
LEMMA StartKeepsWary ==
    ASSUME CleanInv, NEW p \in Procs, NEW event, NEW label \in {"reg", "gen"}, NEW j,
           Start(p, event, label, j)
    PROVE  /\ Clean' /\ \A q \in Procs : Wary(q)'
           /\ pc'[p] = label /\ job'[p] = j /\ held' = held
           /\ \A q \in Procs : q # p => pc'[q] = pc[q] /\ job'[q] = job[q]
<1>0. ControlType /\ Clean
  BY CleanFacts
<1>1. /\ pc'[p] = label /\ job'[p] = j /\ held' = held
      /\ \A q \in Procs : q # p => pc'[q] = pc[q] /\ job'[q] = job[q]
  BY <1>0 DEF Start, GotoWith, ControlType
<1>2. UNCHANGED <<stVars, txVars, outVars>>
  BY DEF Start, disk, stVars, txVars, outVars
<1>3. Clean'
  BY <1>0, <1>2, QuietKeepsClean
<1>4. Wary(p)'
  BY <1>1, UnwatchedIsWary DEF Unwatched, Watched, Labels
<1>5. \A q \in Procs : q # p => Wary(q)'
  BY <1>1, <1>2, QuietWary DEF Wary, CleanInv
<1> QED BY <1>1, <1>3, <1>4, <1>5

(* A build that starts does not touch what the resets hold;                 *)
LEMMA BuildStarts ==
    ASSUME CleanInv, NEW p \in Procs, NEW event, NEW label \in {"reg", "gen"}, NEW j,
           Start(p, event, label, j), j.cmd # "reset"
    PROVE  Clean' /\ OneReset' /\ HeldToken' /\ NoAnswer' /\ \A q \in Procs : Wary(q)'
<1>1. /\ Clean' /\ (\A q \in Procs : Wary(q)')
      /\ pc'[p] = label /\ job'[p] = j /\ held' = held
      /\ \A q \in Procs : q # p => pc'[q] = pc[q] /\ job'[q] = job[q]
  BY StartKeepsWary
<1>2. \A q \in Procs : Clearing(q)' => q # p /\ Clearing(q) /\ job'[q] = job[q]
  BY <1>1 DEF Clearing
<1> QED BY <1>1, <1>2 DEF CleanInv, OneReset, HeldToken, NoAnswer, Answering

(* a reset starts when nobody else runs, with the token of a build.         *)
LEMMA ResetStarts ==
    ASSUME BuildsStopped, CleanInv, NEW p \in Procs, NEW b \in Builds, StartReset(p, b)
    PROVE  Clean' /\ OneReset' /\ HeldToken' /\ NoAnswer' /\ \A q \in Procs : Wary(q)'
<1> DEFINE j == [NoJob EXCEPT !.cmd = "reset", !.build = st.claim.build, !.token = held[b]]
<1>1. Start(p, "resets", "reg", j) /\ \A q \in Procs : pc[q] = "idle"
  BY DEF StartReset, MayReset
<1>2. j.token = held[b]
  BY DEF NoJob
<1> HIDE DEF j
<1>3. /\ Clean' /\ (\A q \in Procs : Wary(q)')
      /\ pc'[p] = "reg" /\ job'[p] = j /\ held' = held
      /\ \A q \in Procs : q # p => pc'[q] = pc[q] /\ job'[q] = job[q]
  BY <1>1, StartKeepsWary
<1>4. \A q \in Procs : q # p => pc'[q] = "idle"
  BY <1>1, <1>3
<1> QED BY <1>2, <1>3, <1>4 DEF OneReset, HeldToken, NoAnswer, Clearing, Answering

(* Whatever starts, the invariant is kept.                                  *)
LEMMA StartingKeepsClean ==
    ASSUME BuildsStopped, CleanInv, NEW p \in Procs, Starting(p)
    PROVE  Clean' /\ OneReset' /\ HeldToken' /\ NoAnswer' /\ \A q \in Procs : Wary(q)'
<1>1. ASSUME NEW b \in Builds, NEW outs \in Plans, StartConfigure(p, b, outs)
      PROVE  \E event, j : \E label \in {"reg", "gen"} :
                 Start(p, event, label, j) /\ j.cmd # "reset"
  <2> DEFINE j == [NoJob EXCEPT !.cmd = "configure", !.build = b, !.plan = Plan(b, outs)]
  <2>1. Start(p, "configures", "reg", j)
    BY <1>1 DEF StartConfigure
  <2>2. j.cmd # "reset"
    BY DEF NoJob
  <2> HIDE DEF j
  <2> QED BY <2>1, <2>2
<1>2. ASSUME NEW b \in Builds, StartRetire(p, b)
      PROVE  \E event, j : \E label \in {"reg", "gen"} :
                 Start(p, event, label, j) /\ j.cmd # "reset"
  <2> DEFINE j == [NoJob EXCEPT !.cmd = "retire", !.build = b, !.plan = Plan(b, NoMap)]
  <2>1. Start(p, "configures", "reg", j)
    BY <1>2 DEF StartRetire
  <2>2. j.cmd # "reset"
    BY DEF NoJob
  <2> HIDE DEF j
  <2> QED BY <2>1, <2>2
<1>3. ASSUME NEW b \in Builds, NEW t \in Targets, StartGenerate(p, b, t)
      PROVE  \E event, j : \E label \in {"reg", "gen"} :
                 Start(p, event, label, j) /\ j.cmd # "reset"
  <2> DEFINE j == [NoJob EXCEPT !.cmd = "generate", !.build = b, !.target = t]
  <2>1. Start(p, "generates", "gen", j)
    BY <1>3 DEF StartGenerate
  <2>2. j.cmd # "reset"
    BY DEF NoJob
  <2> HIDE DEF j
  <2> QED BY <2>1, <2>2
<1> QED BY <1>1, <1>2, <1>3, BuildStarts, ResetStarts DEF Starting

(* So is it when a process is killed;                                       *)
LEMMA KillKeepsClean ==
    ASSUME CleanInv, NEW p \in Procs, Kill(p)
    PROVE  Clean' /\ OneReset' /\ HeldToken' /\ NoAnswer' /\ \A q \in Procs : Wary(q)'
<1>0. ControlType /\ Clean
  BY CleanFacts
<1>1. /\ pc'[p] = "idle" /\ held' = held /\ UNCHANGED <<stVars, txVars, outVars>>
      /\ \A q \in Procs : q # p => pc'[q] = pc[q] /\ job'[q] = job[q]
  BY <1>0 DEF Kill, Leave, disk, ControlType, stVars, txVars, outVars
<1>2. Clean'
  BY <1>0, <1>1, QuietKeepsClean
<1>3. \A q \in Procs : Wary(q)'
  <2>1. Wary(p)'
    BY <1>0, LeaveIsWary DEF Kill
  <2>2. \A q \in Procs : q # p => Wary(q)'
    BY <1>1, QuietWary DEF Wary, CleanInv
  <2> QED BY <2>1, <2>2
<1>4. \A q \in Procs : Clearing(q)' => Clearing(q) /\ job'[q] = job[q]
  BY <1>1 DEF Clearing
<1> QED BY <1>1, <1>2, <1>3, <1>4 DEF CleanInv, OneReset, HeldToken, NoAnswer, Answering

(* when power is lost, since one version of the state survives;             *)
LEMMA LossKeepsClean ==
    ASSUME ~Reorder, CleanInv, TypeInv', PowerLoss
    PROVE  Clean' /\ OneReset' /\ HeldToken' /\ NoAnswer' /\ \A q \in Procs : Wary(q)'
<1>0. TypeInv /\ Clean /\ TxType /\ TxType'
  BY DEF CleanInv, ResetInv, TypeInv, TypeOK
<1>1. stOld' = {st'} /\ st' \in stOld
  BY DEF PowerLoss, StateSurvivors
<1>2. \A o \in Paths : Left(o)' => Left(o)
  <2>1. PICK f \in [Paths -> UNION {outOld[o] : o \in Paths}] :
            /\ \A o \in Paths : f[o] \in outOld[o]
            /\ outOld' = [o \in Paths |-> {f[o]}] /\ touched' = touched
    BY DEF PowerLoss
  <2> QED BY <2>1 DEF Left
<1>3. Clean'
  BY <1>0, <1>1, <1>2, PowerLossNarrows, FewerKeepsClean
<1>4. \A q \in Procs : pc'[q] = "idle"
  BY DEF PowerLoss
<1>5. \A q \in Procs : Wary(q)'
  BY <1>4, UnwatchedIsWary DEF Unwatched, Watched, Labels
<1> QED BY <1>3, <1>4, <1>5 DEF OneReset, HeldToken, NoAnswer, Clearing, Answering

(* and when the user edits outputs, which are the user's own from then on.  *)
LEMMA UserKeepsClean ==
    ASSUME CleanInv, UserStep
    PROVE  Clean' /\ OneReset' /\ HeldToken' /\ NoAnswer' /\ \A q \in Procs : Wary(q)'
<1>0. OutType /\ Clean /\ OneReset /\ HeldToken /\ NoAnswer /\ \A q \in Procs : Wary(q)
  BY DEF CleanInv, ResetInv, TypeInv, TypeOK
<1>1. UNCHANGED <<pc, job, st, stOld, tx, txOld, held>> /\ touched \subseteq touched'
  BY DEF UserStep, UserWrites, UserDeletes, UserLinks, UserSets, stVars, txVars
<1>2. \A o \in Paths : (Left(o)' => Left(o))
                       /\ (out[o] = None => out'[o] = None \/ o \in touched')
  <2>1. ASSUME NEW q \in Paths, UserWrites(q) \/ UserDeletes(q), NEW o \in Paths
        PROVE  (Left(o)' => Left(o)) /\ (out[o] = None => out'[o] = None \/ o \in touched')
    BY <1>0, <2>1 DEF UserWrites, UserDeletes, UserSets, Left, OutType
  <2>2. ASSUME NEW q \in Paths, NEW d \in Paths, UserLinks(q, d), NEW o \in Paths
        PROVE  (Left(o)' => Left(o)) /\ (out[o] = None => out'[o] = None \/ o \in touched')
    BY <1>0, <2>2 DEF UserLinks, UserSets, Left, OutType
  <2> QED BY <2>1, <2>2 DEF UserStep
<1>3. Clean'
  BY <1>0, <1>1, <1>2 DEF Clean, AllRecorded, Recorded, Rescued, Older, Behind, DurablePend, OneTxn,
     MayExist
<1>4. \A o : Left(o)' => Left(o)
  BY <1>2 DEF Left
<1>5. ASSUME NEW q \in Procs  PROVE Wary(q)'
  <2>1. PICK label, j : label = pc[q] /\ j = job[q] /\ Aware(label, j)
    BY <1>0 DEF Wary
  <2>2. label = "out_sync" => j.cur \in Paths
    <3>1. LocalOK(label, j) /\ j \in JobRecords
      BY <2>1, CleanFacts
    <3>2. j.ops \in Operations
      BY <3>1 DEF JobRecords
    <3>3. DOMAIN j.ops \subseteq Paths
      BY <3>2, MapElim DEF Operations
    <3> QED BY <3>1, <3>3 DEF LocalOK
  <2>3. AwareState(label, j)' /\ AwareTx(label, j)'
    BY <1>1, <2>1, StateKept DEF Aware, AwareState, AwareTx, Pendings, DurablePend, MayExist, Past
  <2>4. \A pd : Ahead(pd, j) => Ahead(pd, j)'
    BY <1>1, <1>4 DEF Ahead
  <2>5. AwareOut(label, j)'
    <3>1. tx'[j.txn].pend = tx[j.txn].pend /\ AwareOut(label, j)
      BY <1>1, <2>1 DEF Aware
    <3>2. label = "out_sync" =>
              j.cur \in touched' \/ (j.ops[j.cur].after = None => out'[j.cur] = None)
      BY <1>1, <1>2, <2>2, <3>1 DEF AwareOut
    <3> QED BY <1>1, <1>4, <2>4, <3>1, <3>2 DEF AwareOut
  <2> QED BY <1>1, <2>1, <2>3, <2>5 DEF Wary, Aware
<1>6. OneReset' /\ HeldToken' /\ NoAnswer'
  BY <1>0, <1>1 DEF OneReset, HeldToken, NoAnswer, Clearing
<1> QED BY <1>3, <1>5, <1>6

(* The invariant is inductive.                                              *)
LEMMA CleanInvNext ==
    ASSUME BuildsStopped, ~Reorder, CleanInv, [Next]_vars
    PROVE  CleanInv'
<1>0. ResetInv /\ Clean /\ OneReset /\ HeldToken /\ NoAnswer /\ \A p \in Procs : Wary(p)
  BY DEF CleanInv
<1>1. ResetInv' /\ TypeInv'
  BY <1>0, ResetInvNext DEF ResetInv
<1> DEFINE Kept == Clean' /\ OneReset' /\ HeldToken' /\ NoAnswer' /\ \A q \in Procs : Wary(q)'
<1>2. ASSUME NEW p \in Procs, Step(p)  PROVE Kept
  <2>1. Clean' /\ OneReset' /\ HeldToken' /\ NoAnswer'
    BY <1>1, <1>2, StepKeepsClean, StepKeepsReset
  <2> QED BY <1>2, <2>1, StepKeepsWary, OthersKeepWary
<1>3. ASSUME NEW p \in Procs, ParentDies(p)  PROVE Kept
  <2>1. UNCHANGED <<pc, job, held, stVars, txVars, outVars>>
    BY <1>3 DEF ParentDies, disk, stVars, txVars, outVars
  <2>2. Clean'
    BY <1>0, <2>1, QuietKeepsClean
  <2>3. \A q \in Procs : Wary(q)'
    BY <1>0, <2>1, QuietWary DEF Wary
  <2> QED BY <1>0, <2>1, <2>2, <2>3 DEF OneReset, HeldToken, NoAnswer, Clearing
<1>4. ASSUME UNCHANGED vars  PROVE Kept
  <2>1. UNCHANGED <<pc, job, held, stVars, txVars, outVars>>
    BY <1>4 DEF vars, disk, env, stVars, txVars, outVars
  <2>2. Clean'
    BY <1>0, <2>1, QuietKeepsClean
  <2>3. \A q \in Procs : Wary(q)'
    BY <1>0, <2>1, QuietWary DEF Wary
  <2> QED BY <1>0, <2>1, <2>2, <2>3 DEF OneReset, HeldToken, NoAnswer, Clearing
<1>5. Kept
  BY <1>1, <1>2, <1>3, <1>4, StartingKeepsClean, KillKeepsClean, LossKeepsClean, UserKeepsClean
     DEF Next, AtRest
<1> QED BY <1>1, <1>5 DEF CleanInv

(* Once builds are stopped before a reset, and the file system keeps the    *)
(* order of the writes to the state, a root that no surviving state claims  *)
(* holds no file the coordinator wrote, whatever was killed and whenever    *)
(* power was lost: recover, retire and reset delete an output, and sync its *)
(* directory, before they let go of the last record of it.                  *)
THEOREM ReleaseIsClean ==
    ASSUME BuildsStopped, ~Reorder
    PROVE  Spec => []ReleasedIsClean
<1>1. Init => CleanInv
  BY CleanInvInit
<1>2. CleanInv /\ [Next]_vars => CleanInv'
  BY CleanInvNext
<1>3. CleanInv => ReleasedIsClean
  <2> SUFFICES ASSUME CleanInv, \A s \in StateSurvivors : s.claim = None, NEW o \in Paths, Left(o)
               PROVE  FALSE
    BY DEF ReleasedIsClean, Left
  <2>1. st \in stOld /\ StateSurvivors = stOld
    BY DEF CleanInv, ResetInv, TypeInv, TypeOK, StateType, StateSurvivors
  <2> QED BY <2>1 DEF CleanInv, Clean, AllRecorded, Recorded
<1> QED BY <1>1, <1>2, <1>3, PTL DEF Spec
==============================================================================
