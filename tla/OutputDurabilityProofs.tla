------------------------ MODULE OutputDurabilityProofs ------------------------
(***************************************************************************)
(* Crash safety of the output coordinator: what every loss of power leaves *)
(* is a root that the next command can load and recover.  The invariant is *)
(* about the versions of each file that may survive, taken on their own,   *)
(* so it covers file systems that reorder and those that do not.  Core     *)
(* says how the surviving claim, snapshot, plan, intent, transaction and   *)
(* outputs fit together; Knows says what the process inside the            *)
(* publication section knows of them at each label.                        *)
(*                                                                         *)
(* Over the same invariant, what no step may do: overwrite bytes the user  *)
(* wrote before the command looked, give a claim away, or commit a plan    *)
(* over outputs it no longer names.                                        *)
(***************************************************************************)
EXTENDS OutputTypeProofs

(* No process is killed in a history with resets: the next reset would      *)
(* resume on an intent, or wipe a claim, that was never synced.             *)
NoKilledReset == \A b \in Budgets : b["kills"] = 0 \/ b["resets"] = 0

---------------------------------------------------------------------------
(* What may survive *)

Claims == {s.claim : s \in stOld}
Snaps == {s.snapshot : s \in stOld}
PlansKept == {s.plan : s \in stOld}
Resets == {s.reset : s \in stOld}
MayExist(x) == TRUE \in txOld[x].ent
DurablePend(x) ==
    /\ tx[x].ent /\ tx[x].pend # None
    /\ txOld[x].ent = {TRUE} /\ txOld[x].pend = {tx[x].pend}
(* The surviving transaction x restores output o of generation gen.         *)
RestorableBy(x, o, gen) ==
    /\ FALSE \notin txOld[x].ent
    /\ \A d \in txOld[x].pend : d # None /\ d.base = gen /\ o \in DOMAIN d.entries
Here(label) == \E q \in Procs : pc[q] = label

---------------------------------------------------------------------------
(* How it fits together *)

OneTxn == \A x, y \in Txns : MayExist(x) /\ MayExist(y) => x = y
TxnClaimed == \A x \in Txns : MayExist(x) => None \notin Claims
OneClaim == \A c, d \in Claims : c # None /\ d # None => c = d
Backed == \A c \in Claims, n \in Snaps : c # None => n # None /\ n.token = c.token
Unclaimed == st.claim = None /\ ~Here("unclaim_sync") => Claims = {None}
(* An older snapshot may survive the present one only while the transaction *)
(* that leads from one to the other does.                                   *)
Behind(n) ==
    \E x \in Txns : /\ DurablePend(x)
                    /\ tx[x].pend.base = n.gen /\ tx[x].pend.snap = st.snapshot
SnapsOK == \A n \in Snaps : n = st.snapshot \/ Claims = {None} \/ Behind(n)
ResetsOK ==
    Resets = {st.reset} \/ Here("intent_sync") \/ Here("scrub_sync") \/ Here("wipe")
ResetSettled ==
    Resets # {None} => Snaps = {st.snapshot} \/ Claims = {None} \/ Here("commit_sync")
Publishes(d) == \E o \in DOMAIN d.entries : d.entries[o].after # None
Follows(d, n, pays) ==
    \/ n = d.snap
    \/ /\ n.gen = d.base
       /\ \A o \in DOMAIN d.entries :
             /\ d.entries[o].before = HashIn(n.entries, o)
             /\ d.entries[o].after # None =>
                   \A y \in pays : o \in DOMAIN y /\ y[o] = d.entries[o].after
Wellformed(d) ==
    /\ d.snap.gen = d.base + 1
    /\ \A o \in DOMAIN d.entries : d.entries[o].transfer # None =>
          ~Publishes(d) /\ d.entries[o].transfer.inode = Shared
Authorized(d) == \A n \in Snaps : n.gen = d.base /\ Publishes(d) => PlansKept = {d.plan}
PendSafe(x, d) ==
    /\ Wellformed(d)
    /\ \A c \in Claims : c # None => d.snap.token = c.token
    /\ \A n \in Snaps : Follows(d, n, txOld[x].pay)
    /\ d # tx[x].pend => st.snapshot = d.snap
    /\ Authorized(d)
PendOK == \A x \in Txns : MayExist(x) =>
              \A d \in txOld[x].pend : d # None => PendSafe(x, d)
Durable(o, bytes) == \A cell \in outOld[o] : Bytes(cell) = bytes
OutputSafe(n, o) ==
    Durable(o, n.entries[o].hash) \/ \E x \in Txns : RestorableBy(x, o, n.gen)
OutputsOK ==
    None \in Resets =>
        \A c \in Claims, n \in Snaps : c # None =>
            \A o \in DOMAIN n.entries : o \in touched \/ OutputSafe(n, o)
(* Only the user shares an inode, and what the user does is durable.        *)
LinksOK ==
    \A o \in Paths :
        /\ \A cell \in outOld[o] : cell # None => cell.inode \in {o, Shared}
        /\ out[o] # None /\ out[o].inode = Shared => outOld[o] = {out[o]}
Core ==
    /\ OneTxn /\ TxnClaimed /\ OneClaim /\ Backed /\ Unclaimed
    /\ SnapsOK /\ ResetsOK /\ ResetSettled /\ PendOK /\ OutputsOK /\ LinksOK

---------------------------------------------------------------------------
(* What the process in the publication section knows *)

Unpublished == {"init", "init_sync", "claim", "wipe", "scrub", "scrub_sync"}
SnapSure == {"claim", "claim_sync", "sweep", "drop", "drop_sync", "apply", "output", "act",
    "out_sync", "snap", "validated", "prepare", "payload", "pend", "pend_sync", "verify",
    "retire", "unstage", "unstage_sync", "plan", "plan_sync", "return", "intent",
    "intent_sync", "resume", "purge", "disposable", "unclaim", "unclaim_sync"}
NoTxns == {"retire", "prepare", "plan", "intent", "unclaim", "unclaim_sync"}
InReset == {"resume", "intent", "intent_sync", "purge", "disposable", "unclaim",
    "unclaim_sync", "scrub", "scrub_sync"}
Applied(label, j) == label \in AtOutput \cup {"snap"} /\ j.txn # None
Purging(label, j) ==
    \/ label \in {"purge", "disposable", "unclaim", "unclaim_sync"}
    \/ label \in AtOutput /\ j.txn = None
    \/ label \in {"unstage", "unstage_sync"} /\ j.cmd = "reset"

KnowsState(label, j) ==
    /\ label \in Unpublished => Claims = {None}
    /\ label \in SnapSure => Snaps = {st.snapshot}
    /\ label \in {"init_sync", "claim"} =>
          /\ st.snapshot # None /\ st.snapshot.token = j.token
          /\ st.snapshot.entries = NoMap
    /\ label = "load" /\ j.cmd = "configure" => st.claim # None \/ st.reset = None
    /\ label \in {"init", "init_sync", "claim"} => st.reset = None
    /\ label = "prepare" => st.plan = j.plan
    /\ label = "payload" => PlansKept = {j.plan}
    /\ Purging(label, j) => None \notin Resets
    /\ label = "unclaim_sync" => st.claim = None
    /\ label \in InReset => j.cmd = "reset"
    /\ label \in AtOutput /\ j.txn = None => j.cmd = "reset"
    /\ label \in {"pend", "pend_sync"} => j.cmd # "reset"
    /\ label \in Committing \cup AtOutput /\ j.txn # None /\ j.ret = "unstage" =>
          j.cmd # "reset"

DraftOK(x, d) ==
    /\ d # None /\ Wellformed(d)
    /\ d.base = st.snapshot.gen /\ d.snap.token = st.claim.token
    /\ Follows(d, st.snapshot, txOld[x].pay)
    /\ Publishes(d) => PlansKept = {d.plan}
ValidNow(pd) ==
    /\ pd.base = st.snapshot.gen
    /\ pd.snap.entries = NextEntries(st.snapshot.entries, pd.entries)
    /\ Heirs(pd.entries) \cap (DOMAIN pd.entries \cup DOMAIN st.snapshot.entries) = {}
    /\ Heirs(pd.entries) \subseteq DOMAIN pd.plan.outs
    /\ \A o \in DOMAIN pd.entries : pd.entries[o].after # None => o \in DOMAIN pd.plan.outs
KnowsTxn(label, j) ==
    /\ label = "sweep" => Pendings = {}
    /\ label \in NoTxns \/ (label \in {"unstage", "unstage_sync"} /\ j.cmd # "reset") =>
          \A x \in Txns : ~tx[x].ent
    /\ label \in {"unclaim", "unclaim_sync"} => \A x \in Txns : ~MayExist(x)
    /\ label = "drop" =>
          tx[j.txn].ent /\ (tx[j.txn].pend # None => tx[j.txn].pend.snap = st.snapshot)
    /\ label = "drop_sync" => MayExist(j.txn) /\ tx[j.txn] = NoTx
    /\ label \in {"apply", "commit_sync"} \/ Applied(label, j) => DurablePend(j.txn)
    /\ label = "commit_sync" => tx[j.txn].pend.snap = st.snapshot
    /\ label \in {"payload", "pend", "pend_sync"} =>
          tx[j.txn].ent /\ txOld[j.txn].ent = {TRUE}
    /\ label = "pend_sync" => tx[j.txn].pend # None
    /\ label \in {"payload", "pend"} => txOld[j.txn].pend = {None}
    /\ label = "pend" => DraftOK(j.txn, j.draft)
    /\ Applied(label, j) => ValidNow(tx[j.txn].pend)

(* The operations that are done are durable, and so are the heirs.          *)
Done(pd, j) ==
    /\ DOMAIN j.ops \subseteq DOMAIN pd.entries
    /\ \A o \in DOMAIN j.ops : j.ops[o] = pd.entries[o]
    /\ \A o \in DOMAIN pd.entries \ DOMAIN j.ops :
          o \in touched \/ Durable(o, pd.entries[o].after)
    /\ \A o \in DOMAIN pd.entries : pd.entries[o].transfer # None =>
          pd.entries[o].transfer.path \in touched
          \/ Durable(pd.entries[o].transfer.path, pd.entries[o].before)
(* What is recorded outside the plan of a configuration is the user's.      *)
Within(entries, j) == DOMAIN entries \ DOMAIN j.plan.outs \subseteq touched
Leads(pd, j) == pd.plan.outs = j.plan.outs /\ Within(pd.snap.entries, j)
KnowsPlan(label, j) ==
    /\ label \in {"unstage", "unstage_sync", "plan"} /\ j.cmd # "reset" =>
          Within(st.snapshot.entries, j)
    /\ label = "pend" /\ j.cmd # "generate" => Leads(j.draft, j)
    /\ label = "pend_sync" /\ j.cmd # "generate" => Leads(tx[j.txn].pend, j)
    /\ (label = "apply" \/ Applied(label, j)) /\ j.ret = "unstage" =>
          Leads(tx[j.txn].pend, j)
    /\ label \in {"commit_sync", "drop", "drop_sync"} /\ j.ret = "unstage" =>
          Within(st.snapshot.entries, j)
KnowsOut(label, j) ==
    /\ Applied(label, j) => Done(tx[j.txn].pend, j)
    /\ label = "out_sync" /\ j.txn # None =>
          j.cur \in touched \/ Bytes(out[j.cur]) = j.ops[j.cur].after
    /\ label = "snap" => DOMAIN j.ops = {}
    /\ st.reset = None => KnowsPlan(label, j)
Knows(p) ==
    /\ KnowsState(pc[p], job[p]) /\ KnowsTxn(pc[p], job[p]) /\ KnowsOut(pc[p], job[p])

(* The plan of a command belongs to its build. *)
PlansOwn ==
    /\ \A b \in Builds : planFile[b] # None => planFile[b].build = b
    /\ \A p \in Procs : pc[p] # "idle" /\ job[p].plan # None =>
          job[p].plan.build = job[p].build
NoCutReset ==
    \/ budget["kills"] = 0
    \/ /\ budget["resets"] = 0 /\ Resets = {None}
       /\ \A p \in Procs : pc[p] # "idle" => job[p].cmd # "reset"

CrashInv == TypeInv /\ Core /\ (\A p \in Procs : Knows(p)) /\ PlansOwn /\ NoCutReset

---------------------------------------------------------------------------
(* Version sets *)

(* What the version sets hold. *)
LEMMA StateSets ==
    ASSUME StateType
    PROVE  /\ st.claim \in Claims /\ st.snapshot \in Snaps
           /\ st.plan \in PlansKept /\ st.reset \in Resets
           /\ Claims \subseteq OrNone(ClaimRecords) /\ Snaps \subseteq OrNone(Snapshots)
           /\ PlansKept \subseteq OrNone(PlanRecords) /\ Resets \subseteq OrNone(ResetRecords)
BY DEF StateType, States, Claims, Snaps, PlansKept, Resets

(* Whatever of the state a loss leaves, each file is one of its versions.   *)
LEMMA SurvivorSets ==
    ASSUME StateType
    PROVE  \A s \in StateSurvivors :
              /\ s.claim \in Claims /\ s.snapshot \in Snaps
              /\ s.plan \in PlansKept /\ s.reset \in Resets
BY DEF StateSurvivors, Claims, Snaps, PlansKept, Resets

(* The version sets after a step that leaves the state alone, *)
LEMMA StateKept ==
    ASSUME st' = st, stOld' = stOld
    PROVE  Claims' = Claims /\ Snaps' = Snaps /\ PlansKept' = PlansKept /\ Resets' = Resets
BY DEF Claims, Snaps, PlansKept, Resets

(* after a sync, *)
LEMMA StateSynced ==
    ASSUME stOld' = {st'}
    PROVE  /\ Claims' = {st'.claim} /\ Snaps' = {st'.snapshot}
           /\ PlansKept' = {st'.plan} /\ Resets' = {st'.reset}
BY DEF Claims, Snaps, PlansKept, Resets

(* and after a write of one of the four files.                              *)
LEMMA ClaimWritten ==
    ASSUME StateType, NEW value, WriteState("claim", value)
    PROVE  /\ st'.claim = value /\ st'.snapshot = st.snapshot
           /\ st'.plan = st.plan /\ st'.reset = st.reset
           /\ Claims' = Claims \cup {value} /\ Snaps' = Snaps
           /\ PlansKept' = PlansKept /\ Resets' = Resets
<1>1. /\ st'.claim = value /\ st'.snapshot = st.snapshot
      /\ st'.plan = st.plan /\ st'.reset = st.reset
  BY DEF StateType, States, WriteState
<1> QED BY <1>1 DEF WriteState, StateType, Claims, Snaps, PlansKept, Resets

(* A new snapshot adds one version of it and leaves the rest of the state.  *)
LEMMA SnapshotWritten ==
    ASSUME StateType, NEW value, WriteState("snapshot", value)
    PROVE  /\ st'.claim = st.claim /\ st'.snapshot = value
           /\ st'.plan = st.plan /\ st'.reset = st.reset
           /\ Claims' = Claims /\ Snaps' = Snaps \cup {value}
           /\ PlansKept' = PlansKept /\ Resets' = Resets
<1>1. /\ st'.claim = st.claim /\ st'.snapshot = value
      /\ st'.plan = st.plan /\ st'.reset = st.reset
  BY DEF StateType, States, WriteState
<1> QED BY <1>1 DEF WriteState, StateType, Claims, Snaps, PlansKept, Resets

(* So does a new plan.                                                      *)
LEMMA PlanWritten ==
    ASSUME StateType, NEW value, WriteState("plan", value)
    PROVE  /\ st'.claim = st.claim /\ st'.snapshot = st.snapshot
           /\ st'.plan = value /\ st'.reset = st.reset
           /\ Claims' = Claims /\ Snaps' = Snaps
           /\ PlansKept' = PlansKept \cup {value} /\ Resets' = Resets
<1>1. /\ st'.claim = st.claim /\ st'.snapshot = st.snapshot
      /\ st'.plan = value /\ st'.reset = st.reset
  BY DEF StateType, States, WriteState
<1> QED BY <1>1 DEF WriteState, StateType, Claims, Snaps, PlansKept, Resets

(* So does a new reset intent.                                              *)
LEMMA ResetWritten ==
    ASSUME StateType, NEW value, WriteState("reset", value)
    PROVE  /\ st'.claim = st.claim /\ st'.snapshot = st.snapshot
           /\ st'.plan = st.plan /\ st'.reset = value
           /\ Claims' = Claims /\ Snaps' = Snaps
           /\ PlansKept' = PlansKept /\ Resets' = Resets \cup {value}
<1>1. /\ st'.claim = st.claim /\ st'.snapshot = st.snapshot
      /\ st'.plan = st.plan /\ st'.reset = value
  BY DEF StateType, States, WriteState
<1> QED BY <1>1 DEF WriteState, StateType, Claims, Snaps, PlansKept, Resets

---------------------------------------------------------------------------
(* The publication section *)

Exceptional == {"unclaim_sync", "intent_sync", "scrub_sync", "wipe", "commit_sync"}

(* Nobody else is in the section. *)
LEMMA HereOnly ==
    ASSUME TypeInv, NEW p \in Procs, pc[p] \in PubSection
    PROVE  \A label \in PubSection : Here(label) <=> pc[p] = label
BY DEF TypeInv, PubInv, Here

(* So what may survive is settled but for the writes in progress. *)
LEMMA Settled ==
    ASSUME CrashInv, NEW p \in Procs, pc[p] \in PubSection
    PROVE  /\ pc[p] # "unclaim_sync" /\ st.claim = None => Claims = {None}
           /\ pc[p] \notin {"intent_sync", "scrub_sync", "wipe"} => Resets = {st.reset}
           /\ pc[p] # "commit_sync" /\ st.reset # None =>
                 Snaps = {st.snapshot} \/ Claims = {None}
<1>1. st.reset \in Resets
  BY StateSets DEF CrashInv, TypeInv, TypeOK
<1>2. \A label \in Exceptional : Here(label) => pc[p] = label
  BY HereOnly DEF CrashInv, Exceptional, PubSection
<1> QED BY <1>1, <1>2 DEF CrashInv, Core, Unclaimed, ResetsOK, ResetSettled, Exceptional

(* A process outside the section need know nothing. *)
LEMMA KnowsNothing ==
    ASSUME NEW p \in Procs, pc'[p] \notin PubSection
    PROVE  Knows(p)'
BY DEF Knows, KnowsState, KnowsTxn, KnowsOut, KnowsPlan, Applied, Purging, AtOutput, Committing,
   PubSection, Unpublished, SnapSure, NoTxns, InReset

(* What the disk says does not change with it. *)
LEMMA QuietKnows ==
    ASSUME UNCHANGED <<stVars, txVars, outVars>>, NEW label, NEW j
    PROVE  /\ KnowsState(label, j) => KnowsState(label, j)'
           /\ KnowsTxn(label, j) => KnowsTxn(label, j)'
           /\ KnowsOut(label, j) => KnowsOut(label, j)'
<1> USE DEF stVars, txVars, outVars
<1>1. KnowsState(label, j) => KnowsState(label, j)'
  BY StateKept DEF KnowsState
<1>2. KnowsTxn(label, j) => KnowsTxn(label, j)'
  BY StateKept, ZenonT(60) DEF KnowsTxn, Pendings, MayExist, DurablePend, DraftOK, ValidNow
<1>3. KnowsOut(label, j) => KnowsOut(label, j)'
  BY DEF KnowsOut, KnowsPlan, Done, Durable, Within, Leads
<1> QED BY <1>1, <1>2, <1>3

(* How the versions fit together does not depend on who reads them. *)
LEMMA QuietCore ==
    ASSUME Core, UNCHANGED <<stVars, txVars, outVars>>,
           \A label \in Exceptional : Here(label) => Here(label)'
    PROVE  Core'
<1> USE DEF stVars, txVars, outVars
<1>1. Claims' = Claims /\ Snaps' = Snaps /\ PlansKept' = PlansKept /\ Resets' = Resets
  BY StateKept
<1>2. OneTxn' /\ TxnClaimed' /\ OneClaim' /\ Backed'
  BY <1>1 DEF Core, OneTxn, TxnClaimed, OneClaim, Backed, MayExist
<1>3. Unclaimed' /\ ResetsOK' /\ ResetSettled'
  BY <1>1 DEF Core, Unclaimed, ResetsOK, ResetSettled, Exceptional
<1>4. SnapsOK' /\ PendOK'
  BY <1>1, ZenonT(60) DEF Core, SnapsOK, Behind, DurablePend, PendOK, PendSafe, Authorized, MayExist
<1>5. \A n, o : OutputSafe(n, o) => OutputSafe(n, o)'
  BY DEF OutputSafe, Durable, RestorableBy
<1>6. OutputsOK'
  BY <1>1, <1>5 DEF Core, OutputsOK
<1>7. LinksOK'
  BY DEF Core, LinksOK
<1> QED BY <1>2, <1>3, <1>4, <1>6, <1>7 DEF Core

(* A step of one process from an unexceptional label leaves the others      *)
(* where they are.                                                          *)
LEMMA HereStays ==
    ASSUME NEW p \in Procs, pc[p] \notin Exceptional, \A q \in Procs : q # p => pc'[q] = pc[q]
    PROVE  \A label \in Exceptional : Here(label) => Here(label)'
BY DEF Here

(* A step that leaves the disk alone keeps the invariant if the process     *)
(* already knows what it must at its next label,                            *)
LEMMA QuietMove ==
    ASSUME CrashInv, UNCHANGED <<stVars, txVars, outVars>>,
           NEW p \in Procs, NEW label, NEW j, GotoWith(p, label, j), pc[p] \notin Exceptional,
           KnowsState(label, j), KnowsTxn(label, j), KnowsOut(label, j)
    PROVE  Core' /\ Knows(p)'
<1>1. pc'[p] = label /\ job'[p] = j /\ \A q \in Procs : q # p => pc'[q] = pc[q]
  BY DEF CrashInv, TypeInv, TypeOK, ControlType, GotoWith
<1>2. Core'
  BY <1>1, HereStays, QuietCore DEF CrashInv
<1>3. Knows(p)'
  BY <1>1, QuietKnows DEF Knows
<1> QED BY <1>2, <1>3

(* or if it leaves the section.                                             *)
LEMMA QuietExit ==
    ASSUME CrashInv, UNCHANGED <<stVars, txVars, outVars>>,
           NEW p \in Procs, pc'[p] \notin PubSection, pc[p] \notin Exceptional,
           \A q \in Procs : q # p => pc'[q] = pc[q]
    PROVE  Core' /\ Knows(p)'
BY HereStays, QuietCore, KnowsNothing DEF CrashInv

(* A step that only moves to another label need only know what that label   *)
(* says.                                                                    *)
LEMMA QuietGoto ==
    ASSUME CrashInv, UNCHANGED <<stVars, txVars, outVars>>,
           NEW p \in Procs, NEW label, Goto(p, label), pc[p] \notin Exceptional,
           KnowsState(label, job[p]), KnowsTxn(label, job[p]), KnowsOut(label, job[p])
    PROVE  Core' /\ Knows(p)'
<1>1. /\ pc'[p] = label /\ job'[p] = job[p] /\ \A q \in Procs : q # p => pc'[q] = pc[q]
  BY DEF CrashInv, TypeInv, TypeOK, ControlType, Goto
<1>2. Core'
  BY <1>1, HereStays, QuietCore DEF CrashInv
<1>3. Knows(p)'
  BY <1>1, QuietKnows DEF Knows
<1> QED BY <1>2, <1>3

(* A command that ends is such a step. *)
LEMMA QuietLeave ==
    ASSUME CrashInv, UNCHANGED <<stVars, txVars, outVars>>,
           NEW p \in Procs, Leave(p), pc[p] \notin Exceptional
    PROVE  Core' /\ Knows(p)'
<1>1. pc'[p] = "idle" /\ \A q \in Procs : q # p => pc'[q] = pc[q]
  BY DEF CrashInv, TypeInv, TypeOK, ControlType, Leave
<1> QED BY <1>1, QuietExit DEF PubSection

---------------------------------------------------------------------------
(* Steps that leave state, transactions and outputs alone *)

(* Steps that are, or end, outside the section. *)
LEMMA OutsideKeeps ==
    ASSUME CrashInv, NEW p \in Procs,
           \/ AcquireRegistry(p) \/ AcquireGeneration(p) \/ SpawnChild(p) \/ Released(p)
           \/ Validated(p) \/ RebuildStaging(p) \/ Protoc(p) \/ Verify(p)
           \/ CheckPublished(p) \/ DiscardStaging(p) \/ ReturnToken(p) \/ StoreToken(p)
    PROVE  Core' /\ Knows(p)'
<1> USE DEF disk, stVars, txVars, outVars, PubSection, Exceptional, Goto, GotoWith, Leave,
        Answer, Require
<1>0. pc \in [Procs -> Labels]
  BY DEF CrashInv, TypeInv, TypeOK, ControlType
<1>1. CASE AcquireRegistry(p) \/ AcquireGeneration(p) \/ SpawnChild(p)
  BY <1>0, <1>1, QuietExit DEF AcquireRegistry, AcquireGeneration, SpawnChild
<1>2. CASE Released(p) \/ Validated(p) \/ RebuildStaging(p)
  BY <1>0, <1>2, QuietExit DEF Released, Validated, RebuildStaging
<1>3. CASE Protoc(p)
  BY <1>0, <1>3, QuietExit DEF Protoc
<1>4. CASE Verify(p) \/ CheckPublished(p) \/ DiscardStaging(p)
  BY <1>0, <1>4, QuietExit DEF Verify, CheckPublished, DiscardStaging
<1>5. CASE ReturnToken(p) \/ StoreToken(p)
  BY <1>0, <1>5, QuietExit DEF ReturnToken, StoreToken
<1> QED BY <1>1, <1>2, <1>3, <1>4, <1>5

(* Entering the section. *)
LEMMA AcquireKeeps ==
    ASSUME CrashInv, NEW p \in Procs, AcquirePublication(p)
    PROVE  Core' /\ Knows(p)'
<1> DEFINE label == IF job[p].cmd = "configure" THEN "registry" ELSE "load"
<1>0. pc \in [Procs -> Labels]
  BY DEF CrashInv, TypeInv, TypeOK, ControlType
<1>1. /\ UNCHANGED <<stVars, txVars, outVars>> /\ pc[p] \notin Exceptional
      /\ pc'[p] = label /\ job'[p] = job[p] /\ \A q \in Procs : q # p => pc'[q] = pc[q]
  BY <1>0 DEF AcquirePublication, disk, stVars, txVars, outVars, Exceptional
<1>2. KnowsState(label, job[p]) /\ KnowsTxn(label, job[p]) /\ KnowsOut(label, job[p])
  BY DEF KnowsState, KnowsTxn, KnowsOut, KnowsPlan, Applied, Purging, AtOutput, Committing,
     Unpublished, SnapSure, NoTxns, InReset
<1>3. Knows(p)'
  BY <1>1, <1>2, QuietKnows DEF Knows
<1> QED BY <1>1, <1>3, HereStays, QuietCore DEF CrashInv

(* Looking at the claim. *)
LEMMA LookKeeps ==
    ASSUME CrashInv, NEW p \in Procs, ValidateRegistry(p) \/ LoadClaim(p) \/ ResumeReset(p)
    PROVE  Core' /\ Knows(p)'
<1> DEFINE At(label) == /\ KnowsState(label, job[p]) /\ KnowsTxn(label, job[p])
                        /\ KnowsOut(label, job[p])
<1> USE DEF disk, stVars, txVars, outVars, PubSection, Exceptional
<1>0. /\ pc[p] \in {"registry", "load", "resume"} /\ UNCHANGED <<stVars, txVars, outVars>>
      /\ \A label : Goto(p, label) /\ At(label) => Core' /\ Knows(p)'
      /\ Leave(p) => Core' /\ Knows(p)'
  BY QuietGoto, QuietLeave DEF ValidateRegistry, LoadClaim, ResumeReset
<1>1. /\ st.claim = None => Claims = {None}
      /\ Resets = {st.reset}
      /\ st.reset # None => Snaps = {st.snapshot} \/ Claims = {None}
      /\ KnowsState(pc[p], job[p])
      /\ st.claim \in Claims
  BY <1>0, Settled, StateSets DEF CrashInv, TypeInv, TypeOK, Knows
<1> USE DEF KnowsState, KnowsTxn, KnowsOut, KnowsPlan, Applied, Purging, AtOutput, Committing,
        Unpublished, SnapSure, NoTxns, InReset
<1>2. CASE ValidateRegistry(p)
  <2>1. st.claim = None => At("wipe")
    BY <1>1
  <2>2. st.claim # None \/ st = EmptyState => At("load")
    BY DEF EmptyState
  <2> HIDE DEF At
  <2> QED BY <1>0, <1>2, <2>1, <2>2 DEF ValidateRegistry, Require
<1>3. CASE LoadClaim(p)
  <2>1. job[p].cmd = "configure" /\ st.claim = None => At("init")
    BY <1>1, <1>3 DEF LoadClaim
  <2>2. OwnClaim(p) /\ job[p].cmd = "reset" /\ st.reset # None => At("resume")
    BY <1>1 DEF OwnClaim
  <2>3. At("recover")
    OBVIOUS
  <2> HIDE DEF At
  <2> QED BY <1>0, <1>3, <2>1, <2>2, <2>3 DEF LoadClaim, Require
<1>4. CASE ResumeReset(p)
  <2>1. st.reset # None
    BY <1>4, NoneIsNoRecord DEF ResumeReset, CrashInv, TypeInv, Shape, DiskOK
  <2>2. At("purge")
    BY <1>1, <1>4, <2>1 DEF ResumeReset
  <2> HIDE DEF At
  <2> QED BY <1>0, <1>4, <2>2 DEF ResumeReset, Require
<1> QED BY <1>2, <1>3, <1>4

(* Deciding what comes after recovery. *)
LEMMA SweepKeeps ==
    ASSUME CrashInv, NEW p \in Procs, Sweep(p) \/ Recovered(p)
    PROVE  Core' /\ Knows(p)'
<1> DEFINE At(label, j) == KnowsState(label, j) /\ KnowsTxn(label, j) /\ KnowsOut(label, j)
<1> USE DEF disk, stVars, txVars, outVars, PubSection, Exceptional
<1>0. /\ pc[p] = "sweep" /\ UNCHANGED <<stVars, txVars, outVars>>
      /\ \A label : Goto(p, label) /\ At(label, job[p]) => Core' /\ Knows(p)'
      /\ \A label, j : GotoWith(p, label, j) /\ At(label, j) => Core' /\ Knows(p)'
      /\ Leave(p) => Core' /\ Knows(p)'
  BY QuietGoto, QuietMove, QuietLeave DEF Sweep, Recovered
<1>1. Snaps = {st.snapshot} /\ Pendings = {}
  BY <1>0 DEF CrashInv, Knows, KnowsState, KnowsTxn, SnapSure
<1> USE DEF KnowsState, KnowsTxn, KnowsOut, KnowsPlan, Applied, Purging, AtOutput, Committing,
        Unpublished, SnapSure, NoTxns, InReset
<1>2. ASSUME NEW x \in Txns, tx[x].ent,
             GotoWith(p, "drop", [job[p] EXCEPT !.txn = x, !.ret = "sweep"])
      PROVE  Core' /\ Knows(p)'
  <2> DEFINE j == [job[p] EXCEPT !.txn = x, !.ret = "sweep"]
  <2>1. j.txn = x /\ j.ret = "sweep"
    BY DEF CrashInv, TypeInv, TypeOK, ControlType, JobRecords
  <2>2. tx[x].pend = None
    BY <1>1, <1>2 DEF Pendings
  <2> HIDE DEF j
  <2>3. At("drop", j)
    BY <1>1, <1>2, <2>1, <2>2
  <2> HIDE DEF At
  <2> QED BY <1>0, <1>2, <2>3 DEF j
<1>3. ASSUME \A x \in Txns : ~tx[x].ent, Proceed(p)
      PROVE  Core' /\ Knows(p)'
  <2>1. At("retire", job[p]) /\ At("validated", job[p])
    BY <1>1, <1>3
  <2>2. job[p].cmd = "reset" => At("intent", job[p])
    BY <1>1, <1>3
  <2>3. CurrentPlan(p) => At("prepare", job[p])
    BY <1>1, <1>3 DEF CurrentPlan
  <2> HIDE DEF At
  <2>4. CASE job[p].cmd \in {"configure", "retire"}
    BY <1>0, <1>3, <2>1, <2>4 DEF Proceed, Require
  <2>5. CASE job[p].cmd = "reset"
    BY <1>0, <1>3, <2>2, <2>5 DEF Proceed, Require
  <2>6. CASE job[p].cmd \notin {"configure", "retire", "reset"}
    BY <1>0, <1>3, <2>1, <2>3, <2>6 DEF Proceed, Require
  <2> QED BY <2>4, <2>5, <2>6
<1> QED BY <1>2, <1>3 DEF Sweep, Recovered

(* Looking at an output, and what follows the last one. *)
LEMMA CheckOutputKeeps ==
    ASSUME CrashInv, NEW p \in Procs, CheckOutput(p) \/ OutputsDone(p)
    PROVE  Core' /\ Knows(p)'
<1> DEFINE At(label, j) == KnowsState(label, j) /\ KnowsTxn(label, j) /\ KnowsOut(label, j)
<1> USE DEF disk, stVars, txVars, outVars, PubSection, Exceptional
<1>0. /\ pc[p] = "output" /\ UNCHANGED <<stVars, txVars, outVars>>
      /\ \A label : Goto(p, label) /\ At(label, job[p]) => Core' /\ Knows(p)'
      /\ \A label, j : GotoWith(p, label, j) /\ At(label, j) => Core' /\ Knows(p)'
      /\ Leave(p) => Core' /\ Knows(p)'
  BY QuietGoto, QuietMove, QuietLeave DEF CheckOutput, OutputsDone
<1>1. At("output", job[p])
  BY <1>0 DEF CrashInv, Knows
<1> USE DEF KnowsState, KnowsTxn, KnowsOut, KnowsPlan, Applied, Purging, AtOutput, Committing,
        Unpublished, SnapSure, NoTxns, InReset
<1>2. ASSUME NEW o \in DOMAIN job[p].ops, NEW label \in {"act", "out_sync"},
             label = "out_sync" => Bytes(out[o]) = job[p].ops[o].after,
             GotoWith(p, label, [job[p] EXCEPT !.cur = o, !.obs = Bytes(out[o])])
      PROVE  Core' /\ Knows(p)'
  <2> DEFINE j == [job[p] EXCEPT !.cur = o, !.obs = Bytes(out[o])]
  <2>1. /\ j.cur = o /\ j.cmd = job[p].cmd /\ j.ops = job[p].ops /\ j.txn = job[p].txn
        /\ j.ret = job[p].ret /\ j.plan = job[p].plan
    BY DEF CrashInv, TypeInv, TypeOK, ControlType, JobRecords
  <2> HIDE DEF j
  <2>2. KnowsState(label, j) /\ KnowsTxn(label, j)
    BY <1>1, <2>1
  <2>3. \A pd : Done(pd, job[p]) => Done(pd, j)
    BY <2>1 DEF Done
  <2>4. KnowsPlan("output", job[p]) => KnowsPlan(label, j)
    BY <2>1 DEF Within, Leads
  <2>5. KnowsOut(label, j)
    BY <1>1, <1>2, <2>1, <2>3, <2>4
  <2> HIDE DEF At
  <2> QED BY <1>0, <1>2, <2>2, <2>5 DEF j, At
<1>3. CASE CheckOutput(p)
  <2> HIDE DEF At
  <2> QED BY <1>0, <1>2, <1>3 DEF CheckOutput, AsWanted
<1>4. CASE OutputsDone(p)
  <2>1. job[p].txn = None => At("unstage", job[p])
    BY <1>1
  <2>2. job[p].txn # None => At("snap", job[p])
    BY <1>1, <1>4 DEF OutputsDone
  <2> HIDE DEF At
  <2> QED BY <1>0, <1>4, <2>1, <2>2 DEF OutputsDone
<1> QED BY <1>3, <1>4

(* The staging of targets, and the list of outputs a reset deletes. *)
LEMMA StagingKeeps ==
    ASSUME CrashInv, NEW p \in Procs, RemoveStaging(p) \/ SyncStaging(p) \/ Purge(p)
    PROVE  Core' /\ Knows(p)'
<1> DEFINE At(label, j) == KnowsState(label, j) /\ KnowsTxn(label, j) /\ KnowsOut(label, j)
<1> USE DEF disk, stVars, txVars, outVars, PubSection, Exceptional
<1>0. /\ pc[p] \in {"unstage", "unstage_sync", "purge"}
      /\ UNCHANGED <<stVars, txVars, outVars>>
      /\ \A label : Goto(p, label) /\ At(label, job[p]) => Core' /\ Knows(p)'
      /\ \A label, j : GotoWith(p, label, j) /\ At(label, j) => Core' /\ Knows(p)'
  BY QuietGoto, QuietMove DEF RemoveStaging, SyncStaging, Purge
<1>1. At(pc[p], job[p]) /\ LocalOK(pc[p], job[p])
  BY <1>0 DEF CrashInv, Knows, TypeInv, Shape
<1> USE DEF KnowsState, KnowsTxn, KnowsOut, KnowsPlan, Applied, Purging, AtOutput, Committing,
        Unpublished, SnapSure, NoTxns, InReset
<1>2. CASE RemoveStaging(p)
  <2>1. At("unstage_sync", job[p])
    BY <1>1, <1>2 DEF RemoveStaging
  <2> HIDE DEF At
  <2> QED BY <1>0, <1>2, <2>1 DEF RemoveStaging
<1>3. CASE SyncStaging(p)
  <2>1. job[p].cmd = "reset" => At("disposable", job[p])
    BY <1>1, <1>3 DEF SyncStaging
  <2>2. job[p].cmd # "reset" => At("plan", job[p])
    BY <1>1, <1>3 DEF SyncStaging
  <2> HIDE DEF At
  <2> QED BY <1>0, <1>3, <2>1, <2>2 DEF SyncStaging
<1>4. CASE Purge(p)
  <2> DEFINE j == [job[p] EXCEPT !.ops = DeleteOps(st.reset.entries)]
  <2>1. j.cmd = job[p].cmd /\ j.txn = None
    BY <1>1, <1>4 DEF CrashInv, TypeInv, TypeOK, ControlType, JobRecords, LocalOK, WithTxn, Purge
  <2> HIDE DEF j
  <2>2. At("output", j)
    BY <1>1, <1>4, <2>1 DEF Purge
  <2> HIDE DEF At
  <2> QED BY <1>0, <1>4, <2>2 DEF Purge, j
<1> QED BY <1>2, <1>3, <1>4

---------------------------------------------------------------------------
(* Syncs and losses *)

(* The versions of a transaction become fewer. *)
Narrowed(x) ==
    /\ txOld'[x].ent \subseteq txOld[x].ent
    /\ txOld'[x].pend \subseteq txOld[x].pend /\ txOld'[x].pay \subseteq txOld[x].pay
(* None is new, and one that is certain to survive loses versions only. *)
Narrowing == \A x \in Txns : MayExist(x)' \/ FALSE \notin txOld[x].ent => Narrowed(x)

(* A sync, or a loss of power, only takes versions away: nothing that may   *)
(* survive it is new.                                                       *)
LEMMA NarrowCore ==
    ASSUME CrashInv, TxType', OutType', touched' = touched,
           \/ /\ stOld' = {st'} /\ st'.claim \in Claims /\ st'.snapshot \in Snaps
              /\ st'.plan \in PlansKept /\ st'.reset \in Resets
           \/ /\ UNCHANGED <<st, stOld, tx>>
              /\ \A label \in Exceptional : Here(label) => Here(label)',
           UNCHANGED <<st, tx>> \/ \A x \in Txns : txOld'[x].pend = {tx'[x].pend},
           \A x \in Txns : MayExist(x)' \/ FALSE \notin txOld[x].ent => Narrowed(x),
           \A o \in Paths : outOld'[o] \subseteq outOld[o],
           out' = out \/ \A o \in Paths : outOld'[o] = {out'[o]}
    PROVE  Core'
<1>0. StateType /\ TxType /\ Core
  BY DEF CrashInv, TypeInv, TypeOK
<1>2. /\ Claims' \subseteq Claims /\ Snaps' \subseteq Snaps
      /\ PlansKept' \subseteq PlansKept /\ Resets' \subseteq Resets
  BY StateKept, StateSynced
<1>3. \A x \in Txns : MayExist(x)' => MayExist(x) /\ Narrowed(x)
  BY DEF MayExist, Narrowed
<1>4. OneTxn' /\ TxnClaimed'
  BY <1>0, <1>2, <1>3 DEF Core, OneTxn, TxnClaimed
<1>5. OneClaim' /\ Backed'
  BY <1>0, <1>2 DEF Core, OneClaim, Backed
<1>6. Unclaimed' /\ ResetsOK' /\ ResetSettled'
  <2>1. CASE stOld' = {st'}
    BY <2>1, StateSynced DEF Unclaimed, ResetsOK, ResetSettled
  <2>2. CASE /\ UNCHANGED <<st, stOld, tx>>
             /\ \A label \in Exceptional : Here(label) => Here(label)'
    BY <1>0, <2>2, StateKept DEF Core, Unclaimed, ResetsOK, ResetSettled, Exceptional
  <2> QED BY <2>1, <2>2
<1>7. SnapsOK'
  <2>1. CASE stOld' = {st'}
    BY <2>1, StateSynced DEF SnapsOK
  <2>2. CASE UNCHANGED <<st, stOld, tx>>
    <3>1. \A x \in Txns : DurablePend(x) => DurablePend(x)'
      <4> TAKE x \in Txns
      <4> HAVE DurablePend(x)
      <4>1. Narrowed(x)
        BY DEF DurablePend
      <4>2. tx'[x].ent \in txOld'[x].ent /\ tx'[x].pend \in txOld'[x].pend
        BY DEF TxType
      <4>3. tx'[x] = tx[x]
        BY <2>2
      <4>4. txOld'[x].ent = {TRUE}
        BY <4>1, <4>2, <4>3 DEF DurablePend, Narrowed
      <4>5. txOld'[x].pend = {tx[x].pend}
        BY <4>1, <4>2, <4>3 DEF DurablePend, Narrowed
      <4> QED BY <4>3, <4>4, <4>5 DEF DurablePend
    <3>2. \A n : Behind(n) => Behind(n)'
      BY <2>2, <3>1 DEF Behind
    <3> QED BY <1>0, <2>2, <3>2, StateKept DEF Core, SnapsOK
  <2> QED BY <2>1, <2>2
<1>8. PendOK'
  <2> SUFFICES ASSUME NEW x \in Txns, MayExist(x)', NEW d \in txOld'[x].pend, d # None
               PROVE  PendSafe(x, d)'
    BY DEF PendOK
  <2>1. MayExist(x) /\ Narrowed(x)
    BY <1>3
  <2>2. PendSafe(x, d)
    BY <1>0, <2>1 DEF Core, PendOK, Narrowed
  <2>3. Wellformed(d)' /\ \A c \in Claims' : c # None => d.snap.token = c.token
    BY <1>2, <2>2 DEF PendSafe, Wellformed, Publishes
  <2>4. \A n \in Snaps' : Follows(d, n, txOld'[x].pay)
    BY <1>2, <2>1, <2>2 DEF PendSafe, Follows, Narrowed
  <2>5. d # tx'[x].pend => st'.snapshot = d.snap
    BY <2>2 DEF PendSafe
  <2>6. Authorized(d)'
    <3>1. Authorized(d)
      BY <2>2 DEF PendSafe
    <3>2. PlansKept' \in {{st'.plan}, PlansKept} /\ st'.plan \in PlansKept
      BY <1>0, StateKept, StateSynced, StateSets
    <3> QED BY <1>2, <3>1, <3>2 DEF Authorized, Publishes
  <2> QED BY <2>3, <2>4, <2>5, <2>6 DEF PendSafe
<1>9. OutputsOK'
  <2>1. \A n, o : o \in Paths /\ OutputSafe(n, o) => OutputSafe(n, o)'
    <3> TAKE n, o
    <3> HAVE o \in Paths /\ OutputSafe(n, o)
    <3>1. CASE Durable(o, n.entries[o].hash)
      BY <3>1 DEF OutputSafe, Durable
    <3>2. ASSUME NEW x \in Txns, RestorableBy(x, o, n.gen)
          PROVE  OutputSafe(n, o)'
      BY <3>2 DEF OutputSafe, RestorableBy, Narrowed
    <3> QED BY <3>1, <3>2 DEF OutputSafe
  <2>2. \A c \in Claims, n \in Snaps : c # None => DOMAIN n.entries \subseteq Paths
    <3> TAKE c \in Claims, n \in Snaps
    <3> HAVE c # None
    <3>1. n \in Snapshots
      BY <1>0, StateSets DEF Core, Backed, OrNone
    <3> QED BY <3>1, EntriesElim DEF Snapshots
  <2> QED BY <1>0, <1>2, <2>1, <2>2 DEF Core, OutputsOK
<1>10. LinksOK'
  <2>1. \A o \in Paths : out'[o] \in outOld'[o]
    BY DEF OutType
  <2> QED BY <1>0, <2>1 DEF Core, LinksOK
<1> QED BY <1>4, <1>5, <1>6, <1>7, <1>8, <1>9, <1>10 DEF Core

(* A transaction that cannot survive is not there. *)
LEMMA NotThere ==
    ASSUME TxType, NEW x \in Txns, ~MayExist(x)
    PROVE  FALSE \in txOld[x].ent /\ ~tx[x].ent
<1>1. tx[x].ent \in txOld[x].ent /\ tx[x].ent \in BOOLEAN
  BY DEF TxType, TxRecords
<1>2. CASE tx[x].ent = TRUE
  BY <1>1, <1>2 DEF MayExist
<1>3. CASE tx[x].ent = FALSE
  BY <1>1, <1>3
<1> QED BY <1>1, <1>2, <1>3

(* Syncing the directory of transactions. *)
LEMMA SyncedNarrows ==
    ASSUME TxType, NEW x \in Txns
    PROVE  /\ tx[x].ent => EntriesSynced(txOld, tx)[x] = [txOld[x] EXCEPT !.ent = {TRUE}]
           /\ ~tx[x].ent => /\ EntriesSynced(txOld, tx)[x] = NoTxOld
                            /\ FALSE \in txOld[x].ent
           /\ EntriesSynced(txOld, tx)[x].ent = {tx[x].ent}
           /\ EntriesSynced(txOld, tx)[x].pend \subseteq txOld[x].pend
                \/ EntriesSynced(txOld, tx)[x] = NoTxOld
           /\ EntriesSynced(txOld, tx)[x].pay \subseteq txOld[x].pay
                \/ EntriesSynced(txOld, tx)[x] = NoTxOld
<1>1. txOld[x] \in TxOldRecords /\ tx[x] \in TxRecords /\ tx[x].ent \in txOld[x].ent
  BY DEF TxType
<1>2. CASE tx[x].ent
  BY <1>1, <1>2 DEF EntriesSynced, TxOldRecords, TxRecords
<1>3. CASE ~tx[x].ent
  BY <1>1, <1>3 DEF EntriesSynced, NoTxOld, TxRecords
<1> QED BY <1>2, <1>3 DEF TxType, TxRecords

(* The sync that ends a write of the state directory, *)
LEMMA SyncStateKeeps ==
    ASSUME CrashInv, TypeInv', NEW p \in Procs, SyncState(p)
    PROVE  Core' /\ Knows(p)'
<1>0. /\ st' = st /\ stOld' = {st} /\ UNCHANGED <<txVars, outVars>>
      /\ pc[p] \in DOMAIN AfterSync /\ pc'[p] = AfterSync[pc[p]] /\ job'[p] = job[p]
  BY DEF SyncState, Goto, CrashInv, TypeInv, TypeOK, ControlType
<1>1. /\ Claims' = {st.claim} /\ Snaps' = {st.snapshot}
      /\ PlansKept' = {st.plan} /\ Resets' = {st.reset}
  BY <1>0, StateSynced
<1>2. Core'
  BY <1>0, StateSets, NarrowCore
     DEF CrashInv, TypeInv, TypeOK, txVars, outVars, Narrowed, OutType
<1>3. /\ KnowsState(pc[p], job[p]) /\ KnowsTxn(pc[p], job[p]) /\ KnowsOut(pc[p], job[p])
      /\ DiskOK(pc[p], job[p], st, tx) /\ st.claim \in Claims
  BY StateSets DEF CrashInv, Knows, TypeInv, TypeOK, Shape
<1>4. Knows(p)'
  <2> USE <1>0, <1>1, <1>3 DEF AfterSync, KnowsState, KnowsTxn, KnowsOut, KnowsPlan, Applied,
        Purging, AtOutput, Committing, Unpublished, SnapSure, NoTxns, InReset, Knows, Within,
        txVars, outVars
  <2>1. CASE pc[p] = "init_sync"
    BY <2>1
  <2>2. CASE pc[p] \in {"claim_sync", "plan_sync"}
    BY <2>2
  <2>3. CASE pc[p] = "commit_sync"
    BY <2>3 DEF DurablePend
  <2>4. CASE pc[p] = "intent_sync"
    BY <2>4, NoneIsNoRecord DEF DiskOK
  <2>5. CASE pc[p] \in {"unclaim_sync", "scrub_sync"}
    BY <2>5
  <2> QED BY <2>1, <2>2, <2>3, <2>4, <2>5
<1> QED BY <1>2, <1>4

(* and the end of a removal of the state directory.                         *)
LEMMA RemovedKeeps ==
    ASSUME CrashInv, TypeInv', NEW p \in Procs, RemoveState(p) \/ WipeSync(p)
    PROVE  Core' /\ Knows(p)'
<1>0. /\ st' = st /\ stOld' = {st'} /\ UNCHANGED outVars
      /\ pc[p] \in {"scrub", "wipe"} /\ st = EmptyState
  BY DEF RemoveState, WipeSync, outVars
<1>1. \A x \in Txns : ~MayExist(x)
  BY <1>0 DEF CrashInv, Core, TxnClaimed, Knows, KnowsState, Unpublished
<1>2. /\ UNCHANGED <<st, tx>> \/ \A x \in Txns : txOld'[x].pend = {tx'[x].pend}
      /\ \A x \in Txns : MayExist(x)' \/ FALSE \notin txOld[x].ent => Narrowed(x)
  <2>1. CASE RemoveState(p)
    BY <2>1 DEF RemoveState, txVars, Narrowed
  <2>2. CASE WipeSync(p)
    <3>1. \A x \in Txns : txOld'[x] = NoTxOld /\ tx'[x] = NoTx
      BY <2>2 DEF WipeSync
    <3>2. \A x \in Txns : ~MayExist(x)' /\ FALSE \in txOld[x].ent
      <4> TAKE x \in Txns
      <4>1. txOld'[x].ent = {FALSE}
        <5>1. txOld'[x] = NoTxOld
          BY <3>1
        <5> QED BY <5>1 DEF NoTxOld
      <4>2. FALSE \in txOld[x].ent
        BY <1>1, NotThere DEF CrashInv, TypeInv, TypeOK
      <4> QED BY <4>1, <4>2 DEF MayExist
    <3>3. \A x \in Txns : txOld'[x].pend = {tx'[x].pend}
      BY <3>1 DEF NoTx, NoTxOld
    <3> QED BY <3>2, <3>3
  <2> QED BY <2>1, <2>2
<1>3. Core'
  BY <1>0, <1>2, StateSets, NarrowCore DEF CrashInv, TypeInv, TypeOK, outVars
<1>4. Knows(p)'
  <2>1. CASE RemoveState(p)
    BY <2>1, KnowsNothing DEF RemoveState, Leave, PubSection, CrashInv, TypeInv, TypeOK,
       ControlType
  <2>2. CASE WipeSync(p)
    <3>1. pc'[p] = "load" /\ st'.reset = None
      BY <1>0, <2>2 DEF WipeSync, Goto, CrashInv, TypeInv, TypeOK, ControlType, EmptyState
    <3> QED BY <3>1 DEF Knows, KnowsState, KnowsTxn, KnowsOut, KnowsPlan, Applied, Purging,
               AtOutput, Committing, Unpublished, SnapSure, NoTxns, InReset
  <2> QED BY <2>1, <2>2
<1> QED BY <1>3, <1>4

(* What syncing the directory of transactions leaves of one, narrowed. *)
LEMMA EntriesNarrowed ==
    ASSUME TxType, NEW x \in Txns, NEW r \in TxOldRecords, r = EntriesSynced(txOld, tx)[x],
           TRUE \in r.ent \/ FALSE \notin txOld[x].ent
    PROVE  /\ tx[x].ent /\ r.ent = {TRUE} /\ r.pend = txOld[x].pend /\ r.pay = txOld[x].pay
           /\ TRUE \in txOld[x].ent
<1>1. tx[x].ent \in txOld[x].ent /\ tx[x].ent \in BOOLEAN /\ txOld[x] \in TxOldRecords
  BY DEF TxType, TxRecords
<1>2. CASE tx[x].ent
  <2>1. r = [txOld[x] EXCEPT !.ent = {TRUE}]
    BY <1>2, SyncedNarrows
  <2>2. r.ent = {TRUE} /\ r.pend = txOld[x].pend /\ r.pay = txOld[x].pay
    BY <1>1, <2>1 DEF TxOldRecords
  <2>3. TRUE \in txOld[x].ent
    <3>1. tx[x].ent = TRUE
      BY <1>1, <1>2
    <3> QED BY <1>1, <3>1
  <2> QED BY <1>2, <2>2, <2>3
<1>3. CASE ~tx[x].ent
  <2>1. r = NoTxOld /\ FALSE \in txOld[x].ent
    BY <1>3, SyncedNarrows
  <2>2. r.ent = {FALSE}
    BY <2>1 DEF NoTxOld
  <2> QED BY <2>1, <2>2
<1> QED BY <1>2, <1>3

(* So a sync of the directory narrows, *)
LEMMA EntriesSyncNarrows ==
    ASSUME TxType, txOld' = EntriesSynced(txOld, tx)
    PROVE  Narrowing
<1> DEFINE ES == EntriesSynced(txOld, tx)
<1>0. txOld' = ES
  OBVIOUS
<1>1. ES \in [Txns -> TxOldRecords]
  BY EntriesSyncedKind
<1> HIDE DEF ES
<1> SUFFICES ASSUME NEW x \in Txns, MayExist(x)' \/ FALSE \notin txOld[x].ent
             PROVE  Narrowed(x)
  BY DEF Narrowing
<1>2. TRUE \in ES[x].ent \/ FALSE \notin txOld[x].ent
  BY <1>0 DEF MayExist
<1>3. ES[x].ent = {TRUE} /\ ES[x].pend = txOld[x].pend /\ ES[x].pay = txOld[x].pay
      /\ TRUE \in txOld[x].ent
  BY <1>1, <1>2, EntriesNarrowed DEF ES
<1> QED BY <1>0, <1>3 DEF Narrowed

(* and so does the one that makes the pending transaction durable as well.  *)
LEMMA RecoverNarrows ==
    ASSUME TxType, NEW x \in Pendings,
           txOld' = [EntriesSynced(txOld, tx) EXCEPT ![x].pend = {tx[x].pend}]
    PROVE  Narrowing
<1> DEFINE ES == EntriesSynced(txOld, tx)
<1>0. txOld' = [ES EXCEPT ![x].pend = {tx[x].pend}]
  OBVIOUS
<1>1. x \in Txns /\ ES \in [Txns -> TxOldRecords]
  BY EntriesSyncedKind DEF Pendings
<1> HIDE DEF ES
<1>2. /\ txOld'[x].pend = {tx[x].pend} /\ txOld'[x].ent = ES[x].ent
      /\ txOld'[x].pay = ES[x].pay
      /\ \A y \in Txns : y # x => txOld'[y] = ES[y]
  BY <1>0, <1>1 DEF TxOldRecords
<1> SUFFICES ASSUME NEW y \in Txns, MayExist(y)' \/ FALSE \notin txOld[y].ent
             PROVE  Narrowed(y)
  BY DEF Narrowing
<1>3. TRUE \in ES[y].ent \/ FALSE \notin txOld[y].ent
  BY <1>2 DEF MayExist
<1>4. /\ ES[y].ent = {TRUE} /\ ES[y].pend = txOld[y].pend /\ ES[y].pay = txOld[y].pay
      /\ TRUE \in txOld[y].ent
  BY <1>1, <1>3, EntriesNarrowed DEF ES
<1>5. CASE y = x
  <2>1. tx[x].pend \in txOld[x].pend
    BY <1>1 DEF TxType
  <2>2. txOld'[x].ent \subseteq txOld[x].ent
    BY <1>2, <1>4, <1>5
  <2>3. txOld'[x].pend \subseteq txOld[x].pend /\ txOld'[x].pay \subseteq txOld[x].pay
    BY <1>2, <1>4, <1>5, <2>1
  <2> QED BY <1>5, <2>2, <2>3 DEF Narrowed
<1>6. CASE y # x
  BY <1>2, <1>4, <1>6 DEF Narrowed
<1> QED BY <1>5, <1>6

(* Recovery finds the one transaction that is pending and makes it durable. *)
LEMMA RecoverKeeps ==
    ASSUME CrashInv, TypeInv', NEW p \in Procs, Recover(p)
    PROVE  Core' /\ Knows(p)'
<1> USE DEF PubSection, Exceptional
<1>0. /\ StateType /\ TxType /\ Core /\ pc[p] = "recover" /\ st.claim \in Claims
      /\ UNCHANGED <<st, tx>> /\ UNCHANGED outVars
  BY StateSets DEF CrashInv, TypeInv, TypeOK, Recover
<1>1. Claims # {None}
  BY <1>0, NoneIsNoRecord DEF CrashInv, TypeInv, Shape, DiskOK, Claimed
<1>2. ASSUME Pendings = {}, Goto(p, "sweep"), UNCHANGED <<stOld, txOld>>
      PROVE  Core' /\ Knows(p)'
  <2>1. \A n \in Snaps : n = st.snapshot
    BY <1>0, <1>1, <1>2 DEF Core, SnapsOK, Behind, DurablePend, Pendings
  <2>2. Snaps = {st.snapshot}
    BY <1>0, <2>1, StateSets
  <2>3. KnowsState("sweep", job[p]) /\ KnowsTxn("sweep", job[p]) /\ KnowsOut("sweep", job[p])
    BY <1>2, <2>2 DEF KnowsState, KnowsTxn, KnowsOut, KnowsPlan, Applied, Purging, AtOutput,
       Committing, Unpublished, SnapSure, NoTxns, InReset
  <2> QED BY <1>0, <1>2, <2>3, QuietGoto DEF stVars, txVars
<1>3. ASSUME Leave(p), UNCHANGED <<stOld, txOld>>
      PROVE  Core' /\ Knows(p)'
  BY <1>0, <1>3, QuietLeave DEF stVars, txVars
<1>4. ASSUME NEW x \in Pendings,
             GotoWith(p, "apply", [job[p] EXCEPT !.txn = x, !.ret = "sweep"]), stOld' = {st},
             txOld' = [EntriesSynced(txOld, tx) EXCEPT ![x].pend = {tx[x].pend}]
      PROVE  Core' /\ Knows(p)'
  <2> DEFINE ES == EntriesSynced(txOld, tx)
  <2>1. x \in Txns /\ tx[x].ent /\ tx[x].pend # None /\ ES \in [Txns -> TxOldRecords]
    BY <1>0, EntriesSyncedKind DEF Pendings
  <2> HIDE DEF ES
  <2>2. /\ txOld'[x].pend = {tx[x].pend} /\ txOld'[x].ent = ES[x].ent
        /\ txOld'[x].pay = ES[x].pay
    BY <1>4, <2>1 DEF ES, TxOldRecords
  <2>4. Narrowing
    BY <1>0, <1>4, RecoverNarrows
  <2>5. Core'
    BY <1>0, <1>4, <2>4, StateSets, NarrowCore
       DEF CrashInv, TypeInv, TypeOK, outVars, OutType, Narrowing
  <2>6. ES[x].ent = {TRUE}
    <3>1. tx[x].ent = TRUE
      BY <1>0, <2>1 DEF TxType, TxRecords
    <3>2. ES[x].ent = {tx[x].ent}
      BY <1>0, <2>1, SyncedNarrows DEF ES
    <3> QED BY <3>1, <3>2
  <2>7. DurablePend(x)'
    BY <1>0, <2>1, <2>2, <2>6 DEF DurablePend
  <2>8. pc'[p] = "apply" /\ job'[p].txn = x /\ job'[p].ret = "sweep"
    BY <1>4 DEF GotoWith, CrashInv, TypeInv, TypeOK, ControlType, JobRecords
  <2>9. Snaps' = {st'.snapshot}
    BY <1>0, <1>4, StateSynced
  <2> QED BY <2>5, <2>7, <2>8, <2>9 DEF Knows, KnowsState, KnowsTxn, KnowsOut, KnowsPlan,
       Applied, Purging, AtOutput, Committing, Unpublished, SnapSure, NoTxns, InReset
<1> QED BY <1>0, <1>2, <1>3, <1>4 DEF Recover

(* A sync of transactions or outputs inside the section. *)
LEMMA DiskSyncCore ==
    ASSUME CrashInv, TypeInv', NEW p \in Procs, NEW label, NEW j,
           GotoWith(p, label, j) \/ Leave(p), pc[p] \notin Exceptional,
           UNCHANGED <<stVars, tx, out, touched>>,
           \A x \in Txns : MayExist(x)' \/ FALSE \notin txOld[x].ent => Narrowed(x),
           \A o \in Paths : outOld'[o] \subseteq outOld[o]
    PROVE  Core'
<1>1. \A q \in Procs : q # p => pc'[q] = pc[q]
  BY DEF CrashInv, TypeInv, TypeOK, ControlType, GotoWith, Leave
<1>2. \A l \in Exceptional : Here(l) => Here(l)'
  BY <1>1, HereStays
<1> QED BY <1>2, NarrowCore DEF CrashInv, TypeInv, TypeOK, stVars

(* Syncing the removal of a transaction. *)
LEMMA DropSyncKeeps ==
    ASSUME CrashInv, TypeInv', NEW p \in Procs, DropSync(p)
    PROVE  Core' /\ Knows(p)'
<1> DEFINE ES == EntriesSynced(txOld, tx)
<1>0. /\ StateType /\ TxType /\ Core /\ pc[p] = "drop_sync" /\ job[p] \in JobRecords
      /\ job[p].txn \in Txns /\ job[p].ret \in Results
      /\ UNCHANGED <<stVars, tx>> /\ UNCHANGED outVars /\ txOld' = ES
      /\ KnowsState(pc[p], job[p]) /\ KnowsTxn(pc[p], job[p]) /\ KnowsOut(pc[p], job[p])
  BY DEF CrashInv, TypeInv, TypeOK, ControlType, Shape, LocalOK, WithTxn, Committing, Knows,
     DropSync
<1> HIDE DEF ES
<1>2. Narrowing
  BY <1>0, EntriesSyncNarrows DEF ES
<1>3. Core'
  <2>1. Leave(p) \/ GotoWith(p, job[p].ret, [job[p] EXCEPT !.txn = None, !.ret = None])
    BY DEF DropSync
  <2> QED BY <1>0, <1>2, <2>1, DiskSyncCore DEF Exceptional, outVars, Narrowing
<1>4. \A x \in Txns : ~tx[x].ent
  <2> SUFFICES ASSUME NEW x \in Txns, tx[x].ent  PROVE FALSE
    OBVIOUS
  <2>1. MayExist(x)
    BY <1>0, NotThere
  <2>2. x = job[p].txn /\ tx[x] = NoTx
    BY <1>0, <2>1 DEF Core, OneTxn, KnowsTxn
  <2> QED BY <2>2 DEF NoTx
<1>5. Knows(p)'
  <2>1. CASE job[p].ret = "fail"
    <3>1. pc'[p] = "idle"
      BY <1>0, <2>1 DEF DropSync, Leave, CrashInv, TypeInv, TypeOK, ControlType
    <3> QED BY <3>1, KnowsNothing DEF PubSection
  <2>2. CASE job[p].ret # "fail"
    <3>1. /\ pc'[p] = job[p].ret /\ job'[p].cmd = job[p].cmd /\ job'[p].txn = None
          /\ job'[p].plan = job[p].plan
      <4>1. GotoWith(p, job[p].ret, [job[p] EXCEPT !.txn = None, !.ret = None])
        BY <2>2 DEF DropSync
      <4>2. pc \in [Procs -> Labels] /\ job \in [Procs -> JobRecords] /\ job[p] \in JobRecords
        BY DEF CrashInv, TypeInv, TypeOK, ControlType
      <4> QED BY <4>1, <4>2 DEF GotoWith, JobRecords
    <3>2. job[p].ret \in {"sweep", "verify", "unstage"}
      BY <1>0, <2>2 DEF Results
    <3>3. Snaps' = {st'.snapshot}
      BY <1>0, StateKept DEF KnowsState, SnapSure, stVars
    <3>4. Pendings' = {} /\ \A x \in Txns : ~tx'[x].ent
      BY <1>0, <1>4 DEF Pendings
    <3>5. job[p].ret = "unstage" => job[p].cmd # "reset"
      BY <1>0, NoneAssumption DEF KnowsState, Committing
    <3>6. st'.reset = None /\ job[p].ret = "unstage" => Within(st.snapshot.entries, job[p])'
      BY <1>0, <3>1 DEF KnowsOut, KnowsPlan, Within, outVars, stVars
    <3>7. KnowsState(pc[p], job[p])'
      BY <3>1, <3>2, <3>3, <3>5 DEF KnowsState, Purging, AtOutput, Committing, Unpublished,
         SnapSure, InReset
    <3>8. KnowsTxn(pc[p], job[p])'
      BY <3>1, <3>2, <3>4 DEF KnowsTxn, Applied, AtOutput, NoTxns
    <3>9. KnowsOut(pc[p], job[p])'
      BY <3>1, <3>2, <3>6 DEF KnowsOut, KnowsPlan, Applied, AtOutput
    <3> QED BY <3>7, <3>8, <3>9 DEF Knows
  <2> QED BY <2>1, <2>2
<1> QED BY <1>3, <1>5

(* Syncing the payloads, over which the publication is drafted. *)
LEMMA SyncPayloadsKeeps ==
    ASSUME CrashInv, TypeInv', NEW p \in Procs, SyncPayloads(p)
    PROVE  Core' /\ Knows(p)'
<1>p. PICK x, d, j : /\ x = job[p].txn
                     /\ d = Pending(job[p].build, job[p].plan.outs, PublishOps(p))
                     /\ j = [job[p] EXCEPT !.draft = d]
  OBVIOUS
<1>0. /\ StateType /\ TxType /\ Core /\ pc[p] = "payload" /\ job[p] \in JobRecords
      /\ x \in Txns /\ job[p].cmd = "generate" /\ job[p].plan \in PlanRecords
      /\ job[p].plan.build = job[p].build
      /\ KnowsState(pc[p], job[p]) /\ KnowsTxn(pc[p], job[p]) /\ KnowsOut(pc[p], job[p])
  BY <1>p, NoneIsNoRecord DEF CrashInv, TypeInv, TypeOK, ControlType, Shape, LocalOK, WithTxn, Knows,
     SyncPayloads, PlansOwn
<1>1. /\ UNCHANGED <<stVars, tx>> /\ UNCHANGED outVars /\ GotoWith(p, "pend", j)
      /\ txOld' = [txOld EXCEPT ![x].pay = {tx[x].pay}]
      /\ Outputs(p) \subseteq DOMAIN tx[x].pay
  BY <1>p DEF SyncPayloads
<1>2. /\ j.cmd = job[p].cmd /\ j.txn = x /\ j.draft = d /\ pc'[p] = "pend" /\ job'[p] = j
  BY <1>p, <1>0, <1>1 DEF GotoWith, CrashInv, TypeInv, TypeOK, ControlType, JobRecords
<1>3. d \in PendingRecords
  BY <1>2 DEF TypeInv, Shape, LocalOK
<1>4. /\ d.base = st.snapshot.gen /\ d.plan = Plan(job[p].build, job[p].plan.outs)
      /\ d.snap.token = st.claim.token /\ d.snap.gen = st.snapshot.gen + 1
      /\ d.entries = PublishOps(p)
  BY <1>p DEF Pending
<1>5. d.plan = job[p].plan
  BY <1>p, <1>0, <1>4 DEF Plan, PlanRecords
<1>6. /\ txOld'[x].pay = {tx[x].pay} /\ txOld'[x].ent = txOld[x].ent
      /\ txOld'[x].pend = txOld[x].pend /\ \A y \in Txns : y # x => txOld'[y] = txOld[y]
  BY <1>p, <1>0, <1>1 DEF TxType, TxOldRecords
<1>7. Core'
  <2>1. \A y \in Txns : Narrowed(y)
    BY <1>p, <1>0, <1>6 DEF Narrowed, TxType
  <2> QED BY <1>p, <1>0, <1>1, <2>1, DiskSyncCore DEF Exceptional, outVars
<1>8. DraftOK(x, d)'
  <2>1. Wellformed(d)' /\ d # None
    BY <1>3, <1>4, NoneIsNoRecord DEF Wellformed, PublishOps
  <2>2. \A o \in DOMAIN d.entries :
            /\ d.entries[o].before = HashIn(st.snapshot.entries, o)
            /\ o \in DOMAIN tx[x].pay /\ tx[x].pay[o] = d.entries[o].after
    <3> TAKE o \in DOMAIN d.entries
    <3>1. DOMAIN PublishOps(p) = Outputs(p) /\ o \in Outputs(p)
      BY <1>4 DEF PublishOps
    <3>2. PublishOps(p)[o] = [before |-> HashIn(st.snapshot.entries, o), after |-> tx[x].pay[o],
                              target |-> job[p].target, transfer |-> None]
      BY <1>p, <3>1 DEF PublishOps
    <3> QED BY <1>1, <1>4, <3>1, <3>2
  <2>3. Follows(d, st.snapshot, txOld'[x].pay)
    BY <1>4, <1>6, <2>2 DEF Follows
  <2>4. PlansKept' = {d.plan}
    BY <1>p, <1>0, <1>1, <1>5, StateKept DEF KnowsState, stVars
  <2> QED BY <1>1, <1>4, <2>1, <2>3, <2>4 DEF DraftOK, stVars, Follows
<1>9. Snaps' = {st'.snapshot}
  BY <1>p, <1>0, <1>1, StateKept DEF KnowsState, SnapSure, stVars
<1>10. tx'[x].ent /\ txOld'[x].ent = {TRUE} /\ txOld'[x].pend = {None}
  BY <1>p, <1>0, <1>1, <1>6 DEF KnowsTxn
<1>11. KnowsState(pc[p], job[p])'
  BY <1>p, <1>0, <1>2, <1>9 DEF KnowsState, Purging, AtOutput, Committing, Unpublished, SnapSure,
     InReset
<1>12. KnowsTxn(pc[p], job[p])'
  BY <1>2, <1>8, <1>10 DEF KnowsTxn, Applied, AtOutput, NoTxns
<1>13. KnowsOut(pc[p], job[p])'
  BY <1>p, <1>0, <1>2 DEF KnowsOut, KnowsPlan, Applied, AtOutput
<1> QED BY <1>7, <1>11, <1>12, <1>13 DEF Knows

(* Syncing pending.json: from here the transaction is rolled forward. *)
LEMMA SyncPendingKeeps ==
    ASSUME CrashInv, TypeInv', NEW p \in Procs, SyncPending(p)
    PROVE  Core' /\ Knows(p)'
<1>p. PICK x, ret, j :
          /\ x = job[p].txn /\ ret = IF job[p].cmd = "generate" THEN "verify" ELSE "unstage"
          /\ j = [job[p] EXCEPT !.draft = None, !.ret = ret]
  OBVIOUS
<1>0. /\ StateType /\ TxType /\ Core /\ pc[p] = "pend_sync" /\ job[p] \in JobRecords
      /\ x \in Txns
      /\ KnowsState(pc[p], job[p]) /\ KnowsTxn(pc[p], job[p]) /\ KnowsOut(pc[p], job[p])
  BY <1>p DEF CrashInv, TypeInv, TypeOK, ControlType, Shape, LocalOK, WithTxn, Knows, SyncPending
<1>1. /\ UNCHANGED <<stVars, tx>> /\ UNCHANGED outVars /\ GotoWith(p, "apply", j)
      /\ txOld' = [txOld EXCEPT ![x].pend = {tx[x].pend}]
  BY <1>p DEF SyncPending
<1>2. /\ j.cmd = job[p].cmd /\ j.txn = x /\ j.ret = ret /\ j.plan = job[p].plan
      /\ pc'[p] = "apply" /\ job'[p] = j
  BY <1>p, <1>0, <1>1 DEF GotoWith, CrashInv, TypeInv, TypeOK, ControlType, JobRecords
<1>3. /\ txOld'[x].pend = {tx[x].pend} /\ txOld'[x].ent = txOld[x].ent
      /\ txOld'[x].pay = txOld[x].pay /\ \A y \in Txns : y # x => txOld'[y] = txOld[y]
  BY <1>p, <1>0, <1>1 DEF TxType, TxOldRecords
<1>4. Core'
  <2>1. \A y \in Txns : Narrowed(y)
    BY <1>p, <1>0, <1>3 DEF Narrowed, TxType
  <2> QED BY <1>p, <1>0, <1>1, <2>1, DiskSyncCore DEF Exceptional, outVars
<1>5. Snaps' = {st'.snapshot} /\ job[p].cmd # "reset"
  BY <1>p, <1>0, <1>1, StateKept DEF KnowsState, SnapSure, stVars
<1>6. DurablePend(x)'
  BY <1>p, <1>0, <1>1, <1>3 DEF DurablePend, KnowsTxn
<1>7. st'.reset = None /\ ret = "unstage" => Leads(tx[x].pend, j)'
  BY <1>p, <1>0, <1>1, <1>2 DEF KnowsOut, KnowsPlan, Leads, Within, outVars, stVars
<1>8. KnowsState(pc[p], job[p])'
  BY <1>p, <1>0, <1>2, <1>5 DEF KnowsState, Purging, AtOutput, Committing, Unpublished, SnapSure,
     InReset
<1>9. KnowsTxn(pc[p], job[p])'
  BY <1>2, <1>6 DEF KnowsTxn, Applied, AtOutput, NoTxns
<1>10. KnowsOut(pc[p], job[p])'
  BY <1>p, <1>0, <1>2, <1>7 DEF KnowsOut, KnowsPlan, Applied, AtOutput
<1> QED BY <1>4, <1>8, <1>9, <1>10 DEF Knows

(* Syncing the directory of an output ends one operation. *)
LEMMA SyncOutputKeeps ==
    ASSUME CrashInv, TypeInv', NEW p \in Procs, SyncOutput(p)
    PROVE  Core' /\ Knows(p)'
<1>p. PICK o, j, pd :
          /\ o = job[p].cur /\ pd = tx[job[p].txn].pend
          /\ j = [job[p] EXCEPT !.ops = Without(@, {job[p].cur}), !.cur = None, !.obs = None]
  OBVIOUS
<1>0. /\ StateType /\ TxType /\ OutType /\ Core /\ pc[p] = "out_sync"
      /\ job[p] \in JobRecords /\ o \in DOMAIN job[p].ops
      /\ KnowsState(pc[p], job[p]) /\ KnowsTxn(pc[p], job[p]) /\ KnowsOut(pc[p], job[p])
  BY <1>p DEF CrashInv, TypeInv, TypeOK, ControlType, Shape, LocalOK, Knows, SyncOutput
<1>00. o \in Paths
  BY <1>p, <1>0, MapElim DEF JobRecords, Operations
<1>1. /\ UNCHANGED stVars /\ UNCHANGED <<tx, txOld>> /\ UNCHANGED <<out, touched>>
      /\ GotoWith(p, "output", j) /\ outOld' = [outOld EXCEPT ![o] = {out[o]}]
  BY <1>p DEF SyncOutput, SyncOut, txVars
<1>2. /\ j.cmd = job[p].cmd /\ j.txn = job[p].txn /\ j.ret = job[p].ret /\ j.plan = job[p].plan
      /\ j.ops = Without(job[p].ops, {o}) /\ pc'[p] = "output" /\ job'[p] = j
  BY <1>p, <1>0, <1>1 DEF GotoWith, CrashInv, TypeInv, TypeOK, ControlType, JobRecords
<1>3. \A q \in Paths : outOld'[q] \subseteq outOld[q] /\ (q = o => outOld'[q] = {out[o]})
  BY <1>p, <1>0, <1>00, <1>1 DEF OutType
<1>4. Core'
  <2>1. \A y \in Txns : Narrowed(y)
    BY <1>1 DEF Narrowed
  <2> QED BY <1>p, <1>0, <1>1, <1>3, <2>1, DiskSyncCore DEF Exceptional
<1>5. ASSUME job[p].txn # None  PROVE Done(pd, j)'
  <2>1. Done(pd, job[p])
    BY <1>p, <1>0, <1>5 DEF KnowsOut, Applied, AtOutput
  <2>2. pd.entries \in Operations /\ DOMAIN pd.entries \subseteq Paths
    <3>1. pd \in PendingRecords
      BY <1>p, <1>0, <1>5 DEF CrashInv, TypeInv, Shape, DiskOK, LocalOK, Replaying, AtOutput
    <3> QED BY <3>1, MapElim DEF PendingRecords, Operations
  <2>3. DOMAIN j.ops = DOMAIN job[p].ops \ {o} /\ \A q \in DOMAIN j.ops : j.ops[q] = job[p].ops[q]
    BY <1>2 DEF Without, Restrict
  <2>4. \A q \in Paths : \A b : Durable(q, b) => Durable(q, b)'
    BY <1>3 DEF Durable
  <2>5. o \in touched \/ Durable(o, pd.entries[o].after)'
    <3>1. o \in touched \/ Bytes(out[o]) = pd.entries[o].after
      BY <1>p, <1>0, <1>5, <2>1 DEF KnowsOut, Done
    <3> QED BY <1>00, <1>3, <3>1 DEF Durable
  <2>6. \A q \in DOMAIN pd.entries : pd.entries[q].transfer # None =>
            pd.entries[q].transfer.path \in Paths
    <3> TAKE q \in DOMAIN pd.entries
    <3>1. pd.entries[q] \in OpRecords
      BY <2>2, MapElim DEF Operations
    <3> QED BY <3>1 DEF OpRecords, OrNone
  <2>7. DOMAIN j.ops \subseteq DOMAIN pd.entries /\ \A q \in DOMAIN j.ops : j.ops[q] = pd.entries[q]
    BY <2>1, <2>3 DEF Done
  <2>8. \A q \in DOMAIN pd.entries \ DOMAIN j.ops :
            q \in touched \/ Durable(q, pd.entries[q].after)'
    BY <2>1, <2>2, <2>3, <2>4, <2>5 DEF Done
  <2>9. \A q \in DOMAIN pd.entries : pd.entries[q].transfer # None =>
          pd.entries[q].transfer.path \in touched
          \/ Durable(pd.entries[q].transfer.path, pd.entries[q].before)'
    BY <2>1, <2>4, <2>6 DEF Done
  <2> QED BY <1>1, <2>7, <2>8, <2>9 DEF Done, Durable
<1>6. KnowsState(pc[p], job[p])'
  <2>1. /\ Claims' = Claims /\ Snaps' = Snaps /\ PlansKept' = PlansKept /\ Resets' = Resets
        /\ st' = st
    BY <1>1, StateKept DEF stVars
  <2> QED BY <1>p, <1>0, <1>2, <2>1 DEF KnowsState, Purging, AtOutput, Committing, Unpublished,
     SnapSure, InReset
<1>7. KnowsTxn(pc[p], job[p])'
  BY <1>p, <1>0, <1>1, <1>2 DEF KnowsTxn, Applied, AtOutput, NoTxns, DurablePend, ValidNow, stVars
<1>8. KnowsOut(pc[p], job[p])'
  BY <1>p, <1>0, <1>1, <1>2, <1>5 DEF KnowsOut, KnowsPlan, Applied, AtOutput, Leads, Within, stVars
<1> QED BY <1>4, <1>6, <1>7, <1>8 DEF Knows

---------------------------------------------------------------------------
(* Writes of the state directory *)

(* What the two parts about transactions and outputs alone keep. *)
LEMMA PartsKept ==
    ASSUME Core, UNCHANGED <<txVars, outVars>>
    PROVE  /\ OneTxn' /\ LinksOK'
           /\ \A x : MayExist(x)' <=> MayExist(x)
           /\ \A x : DurablePend(x)' <=> DurablePend(x)
           /\ \A n, o : OutputSafe(n, o)' <=> OutputSafe(n, o)
<1> USE DEF txVars, outVars
<1>1. \A x : (MayExist(x)' <=> MayExist(x)) /\ (DurablePend(x)' <=> DurablePend(x))
  BY DEF MayExist, DurablePend
<1>2. \A n, o : OutputSafe(n, o)' <=> OutputSafe(n, o)
  BY DEF OutputSafe, Durable, RestorableBy
<1>3. OneTxn' /\ LinksOK'
  BY <1>1 DEF Core, OneTxn, LinksOK
<1> QED BY <1>1, <1>2, <1>3

(* Where no claim may survive, nothing that is left can do harm. *)
LEMMA UnclaimedCore ==
    ASSUME Core, Claims = {None}, Claims' = {None}, UNCHANGED <<txVars, outVars>>,
           Resets' = {st'.reset} \/ Here("scrub_sync")' \/ Here("wipe")'
    PROVE  Core'
<1>1. \A x \in Txns : ~MayExist(x)'
  BY PartsKept DEF Core, TxnClaimed
<1>2. TxnClaimed' /\ PendOK'
  BY <1>1 DEF TxnClaimed, PendOK
<1>3. OneClaim' /\ Backed' /\ Unclaimed' /\ SnapsOK' /\ ResetSettled' /\ OutputsOK'
  BY DEF OneClaim, Backed, Unclaimed, SnapsOK, ResetSettled, OutputsOK
<1>4. ResetsOK'
  BY DEF ResetsOK
<1> QED BY <1>2, <1>3, <1>4, PartsKept DEF Core

(* The first snapshot, and the files of a state directory without a claim.  *)
LEMMA UnclaimedWriteKeeps ==
    ASSUME CrashInv, TypeInv', NEW p \in Procs,
           InitSnapshot(p) \/ Scrub(p) \/ \E file \in DOMAIN EmptyState : WipeFile(p, file)
    PROVE  Core' /\ Knows(p)'
<1>0. /\ StateType /\ Core /\ pc[p] \in {"init", "scrub", "wipe"} /\ Claims = {None}
      /\ pc \in [Procs -> Labels] /\ job \in [Procs -> JobRecords] /\ job[p] \in JobRecords
      /\ UNCHANGED <<txVars, outVars>>
      /\ KnowsState(pc[p], job[p])
  BY DEF CrashInv, TypeInv, TypeOK, ControlType, Knows, KnowsState, Unpublished, InitSnapshot,
     Scrub, WipeFile, txVars, outVars
<1> USE DEF KnowsState, KnowsTxn, KnowsOut, KnowsPlan, Applied, Purging, AtOutput, Committing,
       Unpublished, SnapSure, NoTxns, InReset, Knows
<1>1. CASE InitSnapshot(p)
  <2>1. WriteState("snapshot", [token |-> nextToken, gen |-> 0, entries |-> NoMap])
        /\ GotoWith(p, "init_sync", [job[p] EXCEPT !.token = nextToken])
        /\ pc[p] = "init"
    BY <1>1 DEF InitSnapshot
  <2>2. /\ Claims' = {None} /\ Resets' = Resets /\ st'.reset = st.reset
        /\ st'.snapshot = [token |-> nextToken, gen |-> 0, entries |-> NoMap]
    BY <1>0, <2>1, SnapshotWritten
  <2>3. Resets = {st.reset}
    BY <2>1, Settled DEF PubSection
  <2>4. Core'
    BY <1>0, <2>2, <2>3, UnclaimedCore
  <2>5. pc'[p] = "init_sync" /\ job'[p].token = nextToken
    BY <1>0, <2>1 DEF GotoWith, JobRecords
  <2>6. st'.snapshot # None
    <3>1. st'.snapshot \in Snapshots
      BY <2>2, MapEmpty DEF Snapshots, Entries, CrashInv, TypeInv, TypeOK, EnvType
    <3> QED BY <3>1, NoneIsNoRecord
  <2> QED BY <1>0, <2>1, <2>2, <2>4, <2>5, <2>6
<1>2. CASE Scrub(p)
  <2>1. Goto(p, "scrub_sync") /\ pc[p] = "scrub"
        /\ \E file \in {"plan", "snapshot", "reset"} : WriteState(file, None)
    BY <1>2 DEF Scrub, ScrubOrder
  <2>2. Claims' = {None}
    BY <1>0, <2>1, SnapshotWritten, PlanWritten, ResetWritten
  <2>3. pc'[p] = "scrub_sync" /\ job'[p] = job[p]
    BY <1>0, <2>1 DEF Goto
  <2>4. Core'
    BY <1>0, <2>2, <2>3, UnclaimedCore DEF Here
  <2> QED BY <1>0, <2>1, <2>2, <2>3, <2>4
<1>3. ASSUME NEW file \in DOMAIN EmptyState, WipeFile(p, file)
      PROVE  Core' /\ Knows(p)'
  <2>1. WriteState(file, None) /\ pc' = pc /\ job' = job /\ pc[p] = "wipe"
    BY <1>3 DEF WipeFile
  <2>2. Claims' = {None}
    BY <1>0, <2>1, ClaimWritten, SnapshotWritten, PlanWritten, ResetWritten DEF EmptyState
  <2>3. Core'
    BY <1>0, <2>1, <2>2, UnclaimedCore DEF Here
  <2> QED BY <1>0, <2>1, <2>2, <2>3
<1> QED BY <1>1, <1>2, <1>3

(* The claim, over a snapshot that is durable. *)
LEMMA InitClaimKeeps ==
    ASSUME CrashInv, TypeInv', NEW p \in Procs, InitClaim(p)
    PROVE  Core' /\ Knows(p)'
<1>p. PICK c : c = [build |-> job[p].build, token |-> job[p].token]
  OBVIOUS
<1>0. /\ StateType /\ Core /\ pc[p] = "claim" /\ Claims = {None} /\ Snaps = {st.snapshot}
      /\ st.snapshot # None /\ st.snapshot.token = c.token /\ st.snapshot.entries = NoMap
      /\ st.reset = None /\ c \in ClaimRecords
      /\ pc'[p] = "claim_sync" /\ job'[p] = job[p] /\ UNCHANGED <<txVars, outVars>>
      /\ WriteState("claim", c)
  BY <1>p DEF CrashInv, TypeInv, TypeOK, ControlType, Shape, LocalOK, Knows, KnowsState,
     Unpublished, SnapSure, InitClaim, Goto, ClaimRecords
<1>1. /\ Claims' = {None, c} /\ Snaps' = {st'.snapshot} /\ st'.snapshot = st.snapshot
      /\ st'.claim = c /\ Resets' = {None} /\ st'.reset = None /\ c # None
  BY <1>0, ClaimWritten, Settled, NoneIsNoRecord DEF PubSection
<1>2. \A x \in Txns : ~MayExist(x)'
  BY <1>0, PartsKept DEF Core, TxnClaimed
<1>3. TxnClaimed' /\ PendOK'
  BY <1>2 DEF TxnClaimed, PendOK
<1>4. OneClaim' /\ Backed' /\ Unclaimed' /\ SnapsOK' /\ ResetsOK' /\ ResetSettled'
  BY <1>0, <1>1 DEF OneClaim, Backed, Unclaimed, SnapsOK, ResetsOK, ResetSettled
<1>5. OutputsOK'
  BY <1>0, <1>1 DEF OutputsOK, NoMap
<1>6. Core'
  BY <1>0, <1>3, <1>4, <1>5, PartsKept DEF Core
<1> QED BY <1>0, <1>1, <1>6 DEF Knows, KnowsState, KnowsTxn, KnowsOut, KnowsPlan, Applied,
     Purging, AtOutput, Committing, Unpublished, SnapSure, NoTxns, InReset

(* The plan of a configuration, when no transaction is left. *)
LEMMA WritePlanKeeps ==
    ASSUME CrashInv, TypeInv', NEW p \in Procs, WritePlan(p)
    PROVE  Core' /\ Knows(p)'
<1>0. /\ StateType /\ TxType /\ Core /\ pc[p] = "plan" /\ Snaps = {st.snapshot}
      /\ \A x \in Txns : ~tx[x].ent
      /\ pc'[p] = "plan_sync" /\ job'[p] = job[p] /\ UNCHANGED <<txVars, outVars>>
      /\ WriteState("plan", job[p].plan)
  BY DEF CrashInv, TypeInv, TypeOK, ControlType, Knows, KnowsState, KnowsTxn, NoTxns, SnapSure,
     WritePlan, Goto
<1>1. /\ Claims' = Claims /\ Snaps' = Snaps /\ Resets' = Resets
      /\ st'.claim = st.claim /\ st'.snapshot = st.snapshot /\ st'.reset = st.reset
  BY <1>0, PlanWritten
<1>2. /\ pc[p] # "unclaim_sync" /\ st.claim = None => Claims = {None}
      /\ Resets = {st.reset}
  BY <1>0, Settled DEF PubSection
<1>3. OneClaim' /\ Backed' /\ TxnClaimed'
  BY <1>0, <1>1, PartsKept DEF Core, OneClaim, Backed, TxnClaimed
<1>4. Unclaimed' /\ SnapsOK' /\ ResetsOK' /\ ResetSettled'
  BY <1>0, <1>1, <1>2 DEF Unclaimed, SnapsOK, ResetsOK, ResetSettled
<1>5. PendOK'
  <2> SUFFICES ASSUME NEW x \in Txns, MayExist(x)', NEW d \in txOld'[x].pend, d # None
               PROVE  PendSafe(x, d)'
    BY DEF PendOK
  <2>0. tx' = tx /\ txOld' = txOld
    BY <1>0 DEF txVars
  <2>1. PendSafe(x, d)
    BY <1>0, <2>0, PartsKept DEF Core, PendOK
  <2>2. tx[x] = NoTx
    BY <1>0 DEF TxType
  <2>3. d # tx[x].pend
    BY <2>2 DEF NoTx
  <2>4. st.snapshot = d.snap /\ d.snap.gen = d.base + 1
    BY <2>1, <2>3 DEF PendSafe, Wellformed
  <2>5. d.base \in Nat
    BY <1>0, <2>0 DEF TxType, TxOldRecords, PendingRecords, OrNone
  <2>6. Authorized(d)'
    BY <1>0, <1>1, <2>4, <2>5 DEF Authorized
  <2>7. Wellformed(d)' /\ \A c \in Claims' : c # None => d.snap.token = c.token
    BY <1>1, <2>1 DEF PendSafe, Wellformed, Publishes
  <2>8. \A n \in Snaps' : Follows(d, n, txOld'[x].pay)
    BY <1>1, <2>0, <2>1 DEF PendSafe
  <2> QED BY <1>1, <2>4, <2>6, <2>7, <2>8 DEF PendSafe
<1>6. OutputsOK'
  BY <1>0, <1>1, PartsKept DEF Core, OutputsOK, outVars
<1>7. Core'
  BY <1>0, <1>3, <1>4, <1>5, <1>6, PartsKept DEF Core
<1> QED BY <1>0, <1>1, <1>7 DEF Knows, KnowsState, KnowsTxn, KnowsOut, KnowsPlan, Applied,
     Purging, AtOutput, Committing, Unpublished, SnapSure, NoTxns, InReset

(* The intent of a reset, and the end of its claim. *)
LEMMA ResetWriteKeeps ==
    ASSUME CrashInv, TypeInv', NEW p \in Procs, WriteResetIntent(p) \/ Unclaim(p)
    PROVE  Core' /\ Knows(p)'
<1>0. /\ StateType /\ TxType /\ Core /\ pc[p] \in {"intent", "unclaim"}
      /\ Snaps = {st.snapshot} /\ job[p].cmd = "reset" /\ UNCHANGED <<txVars, outVars>>
      /\ \A x \in Txns : ~tx[x].ent
      /\ KnowsState(pc[p], job[p]) /\ KnowsTxn(pc[p], job[p])
      /\ pc \in [Procs -> Labels] /\ job \in [Procs -> JobRecords]
  BY DEF CrashInv, TypeInv, TypeOK, ControlType, Knows, KnowsState, KnowsTxn, NoTxns, SnapSure,
     InReset, WriteResetIntent, Unclaim, stVars
<1>1. (st.claim = None => Claims = {None}) /\ Resets = {st.reset}
  BY <1>0, Settled DEF PubSection
<1>2. CASE UNCHANGED stVars /\ Leave(p)
  BY <1>0, <1>2, QuietLeave DEF Exceptional
<1>3. ASSUME NEW r, WriteState("reset", r), Goto(p, "intent_sync")
      PROVE  Core' /\ Knows(p)'
  <2>1. pc'[p] = "intent_sync" /\ job'[p] = job[p]
    BY <1>0, <1>3 DEF Goto
  <2>2. /\ Claims' = Claims /\ Snaps' = Snaps /\ Resets' = Resets \cup {r}
        /\ PlansKept' = PlansKept
        /\ st'.claim = st.claim /\ st'.snapshot = st.snapshot /\ st'.reset = r
    BY <1>0, <1>3, ResetWritten
  <2>3. r # None
    BY <2>1, <2>2, NoneIsNoRecord DEF TypeInv, Shape, DiskOK
  <2>4. OneClaim' /\ Backed' /\ TxnClaimed'
    BY <1>0, <2>2, PartsKept DEF Core, OneClaim, Backed, TxnClaimed
  <2>5. Unclaimed' /\ SnapsOK' /\ ResetsOK' /\ ResetSettled'
    BY <1>0, <1>1, <2>1, <2>2 DEF Unclaimed, SnapsOK, ResetsOK, ResetSettled, Here
  <2>6. PendOK'
    BY <1>0, <2>2, PartsKept DEF Core, PendOK, PendSafe, Authorized, txVars
  <2>7. OutputsOK'
    BY <1>0, <2>2, <2>3, PartsKept DEF Core, OutputsOK, outVars
  <2>8. Core'
    BY <1>0, <2>4, <2>5, <2>6, <2>7, PartsKept DEF Core
  <2> QED BY <1>0, <2>1, <2>2, <2>8 DEF Knows, KnowsState, KnowsTxn, KnowsOut, KnowsPlan,
       Applied, Purging, AtOutput, Committing, Unpublished, SnapSure, NoTxns, InReset
<1>4. CASE Unclaim(p)
  <2>1. /\ pc[p] = "unclaim" /\ pc'[p] = "unclaim_sync" /\ job'[p] = job[p]
        /\ WriteState("claim", None)
    BY <1>0, <1>4 DEF Unclaim, Goto
  <2>2. /\ Claims' = Claims \cup {None} /\ Snaps' = Snaps /\ Resets' = Resets
        /\ st'.claim = None /\ st'.snapshot = st.snapshot /\ st'.reset = st.reset
    BY <1>0, <2>1, ClaimWritten
  <2>3. None \notin Resets /\ \A x \in Txns : ~MayExist(x)
    BY <1>0, <2>1 DEF KnowsState, KnowsTxn, Purging
  <2>4. TxnClaimed' /\ PendOK'
    BY <1>0, <2>3, PartsKept DEF TxnClaimed, PendOK
  <2>5. OneClaim' /\ Backed' /\ Unclaimed' /\ SnapsOK' /\ ResetsOK' /\ ResetSettled'
    BY <1>0, <1>1, <2>1, <2>2 DEF Core, OneClaim, Backed, Unclaimed, SnapsOK, ResetsOK,
       ResetSettled, Here
  <2>6. OutputsOK'
    BY <2>2, <2>3 DEF OutputsOK
  <2>7. Core'
    BY <1>0, <2>4, <2>5, <2>6, PartsKept DEF Core
  <2>8. \A x \in Txns : ~MayExist(x)' /\ ~tx'[x].ent
    BY <1>0, <2>3, PartsKept DEF txVars
  <2> QED BY <1>0, <2>1, <2>2, <2>3, <2>7, <2>8 DEF Knows, KnowsState, KnowsTxn, KnowsOut,
       KnowsPlan, Applied, Purging, AtOutput, Committing, Unpublished, SnapSure, NoTxns, InReset
<1> QED BY <1>2, <1>3, <1>4 DEF WriteResetIntent

(* Where an entry of the next snapshot comes from: an operation that writes *)
(* it, one that passes it on, or the snapshot before.                       *)
LEMMA NextEntryFrom ==
    ASSUME NEW entries, NEW ops, NEW o \in DOMAIN NextEntries(entries, ops)
    PROVE  \/ /\ o \in DOMAIN ops /\ ops[o].after # None
              /\ NextEntries(entries, ops)[o].hash = ops[o].after
           \/ \E q \in DOMAIN ops :
                 /\ ops[q].transfer # None /\ ops[q].transfer.path = o
                 /\ NextEntries(entries, ops)[o].hash = ops[q].before
           \/ /\ o \in DOMAIN entries \ DOMAIN ops
              /\ NextEntries(entries, ops)[o] = entries[o]
<1> DEFINE added == {q \in DOMAIN ops : ops[q].after # None}
           moved == {q \in DOMAIN ops : ops[q].transfer # None}
           heirs == {ops[q].transfer.path : q \in moved}
           source(d) == CHOOSE q \in moved : ops[q].transfer.path = d
           entry(q) ==
              IF q \in added THEN [hash |-> ops[q].after, target |-> ops[q].target]
              ELSE IF q \in heirs THEN [hash |-> ops[source(q)].before,
                                        target |-> ops[source(q)].target]
              ELSE entries[q]
           D == (DOMAIN entries \ DOMAIN ops) \cup added \cup heirs
<1>1. NextEntries(entries, ops) = [q \in D |-> entry(q)]
  BY DEF NextEntries
<1> HIDE DEF entry
<1>2. o \in D /\ NextEntries(entries, ops)[o] = entry(o)
  BY <1>1
<1>3. CASE o \in added
  BY <1>2, <1>3 DEF entry
<1>4. CASE o \notin added /\ o \in heirs
  <2>1. source(o) \in moved /\ ops[source(o)].transfer.path = o
    BY <1>4
  <2>2. entry(o).hash = ops[source(o)].before
    BY <1>4 DEF entry
  <2> QED BY <1>2, <2>1, <2>2
<1>5. CASE o \notin added \cup heirs
  BY <1>2, <1>5 DEF entry
<1> QED BY <1>3, <1>4, <1>5

(* The commit: until it is synced the transaction leads to it. *)
LEMMA CommitKeeps ==
    ASSUME CrashInv, TypeInv', NEW p \in Procs, CommitSnapshot(p)
    PROVE  Core' /\ Knows(p)'
<1>p. PICK x, d, j : x = job[p].txn /\ d = tx[x].pend /\ j = job[p]
  OBVIOUS
<1>0. /\ StateType /\ TxType /\ Core /\ pc[p] = "snap" /\ j \in JobRecords
      /\ UNCHANGED <<txVars, outVars>> /\ WriteState("snapshot", d.snap)
      /\ pc'[p] = "commit_sync" /\ job'[p] = j /\ x = j.txn
      /\ x \in Txns /\ x # None /\ d \in PendingRecords /\ st.claim # None /\ d # None
      /\ KnowsState("snap", j) /\ KnowsTxn("snap", j) /\ KnowsOut("snap", j)
  BY <1>p, NoneAssumption, NoneIsNoRecord DEF CrashInv, TypeInv, TypeOK, ControlType, Shape,
     LocalOK, DiskOK, WithTxn, Committing, Replaying, Claimed, Knows, CommitSnapshot, Goto
<1>1. /\ Claims' = Claims /\ Snaps' = {st.snapshot, d.snap} /\ Resets' = Resets
      /\ PlansKept' = PlansKept /\ Snaps = {st.snapshot}
      /\ st'.claim = st.claim /\ st'.snapshot = d.snap /\ st'.reset = st.reset
      /\ Resets = {st.reset}
  BY <1>0, <1>p, SnapshotWritten, Settled DEF KnowsState, SnapSure, PubSection
<1>2. /\ DurablePend(x) /\ ValidNow(d) /\ Done(d, j) /\ DOMAIN j.ops = {}
  BY <1>0, <1>p DEF KnowsTxn, KnowsOut, Applied
<1>3. MayExist(x) /\ txOld[x].pend = {d} /\ PendSafe(x, d)
  BY <1>0, <1>2, <1>p DEF DurablePend, MayExist, Core, PendOK
<1>4. \A y \in Txns : MayExist(y) => y = x
  BY <1>0, <1>3 DEF Core, OneTxn
<1>5. TxnClaimed' /\ OneClaim' /\ Backed' /\ Unclaimed'
  <2>1. d.snap # None
    BY <1>0, NoneIsNoRecord DEF PendingRecords
  <2> QED BY <1>0, <1>1, <1>3, <2>1, PartsKept DEF Core, TxnClaimed, OneClaim, Backed, Unclaimed,
       PendSafe
<1>6. SnapsOK'
  <2>1. PICK n : n = st.snapshot
    OBVIOUS
  <2>2. DurablePend(x)' /\ tx'[x].pend = d /\ d.base = n.gen /\ d.snap = st'.snapshot
    BY <1>0, <1>1, <1>2, <1>p, <2>1, PartsKept DEF ValidNow, txVars
  <2>3. Behind(n)'
    BY <1>0, <2>2 DEF Behind
  <2> QED BY <1>1, <2>1, <2>3 DEF SnapsOK
<1>7. ResetsOK' /\ ResetSettled'
  BY <1>0, <1>1 DEF ResetsOK, ResetSettled, Here
<1>8. PendOK'
  <2> SUFFICES ASSUME NEW y \in Txns, MayExist(y)', NEW e \in txOld'[y].pend, e # None
               PROVE  PendSafe(y, e)'
    BY DEF PendOK
  <2>1. y = x /\ e = d /\ tx' = tx /\ txOld' = txOld
    BY <1>0, <1>3, <1>4, PartsKept DEF txVars
  <2>2. Wellformed(d)' /\ \A c \in Claims' : c # None => d.snap.token = c.token
    BY <1>1, <1>3 DEF PendSafe, Wellformed, Publishes
  <2>3. \A n \in Snaps' : Follows(d, n, txOld'[x].pay)
    BY <1>1, <1>3, <2>1 DEF PendSafe, Follows
  <2>4. Authorized(d)'
    <3>1. d.snap.gen # d.base
      BY <1>0, <1>3 DEF PendSafe, Wellformed, PendingRecords
    <3> QED BY <1>1, <1>3, <3>1 DEF PendSafe, Authorized
  <2> QED BY <1>p, <2>1, <2>2, <2>3, <2>4 DEF PendSafe
<1>9. OutputsOK'
  <2> SUFFICES ASSUME None \in Resets, NEW c \in Claims, NEW n \in Snaps', c # None,
                      NEW o \in DOMAIN n.entries, o \notin touched
               PROVE  OutputSafe(n, o)
    BY <1>0, <1>1, PartsKept DEF OutputsOK, outVars
  <2>1. \A q \in DOMAIN st.snapshot.entries : q \in touched \/ OutputSafe(st.snapshot, q)
    BY <1>0, <1>1 DEF Core, OutputsOK
  <2>2. CASE n = st.snapshot
    BY <2>1, <2>2
  <2>3. CASE n = d.snap
    <3>1. n.entries = NextEntries(st.snapshot.entries, d.entries)
      BY <1>2, <2>3 DEF ValidNow
    <3>2. CASE o \in DOMAIN d.entries /\ n.entries[o].hash = d.entries[o].after
      BY <1>2, <3>2 DEF Done, OutputSafe
    <3>3. CASE \E q \in DOMAIN d.entries :
                 /\ d.entries[q].transfer # None /\ d.entries[q].transfer.path = o
                 /\ n.entries[o].hash = d.entries[q].before
      BY <1>2, <3>3 DEF Done, OutputSafe
    <3>4. CASE /\ o \in DOMAIN st.snapshot.entries \ DOMAIN d.entries
               /\ n.entries[o] = st.snapshot.entries[o]
      <4>1. OutputSafe(st.snapshot, o)
        BY <2>1, <3>4
      <4>2. CASE Durable(o, st.snapshot.entries[o].hash)
        BY <3>4, <4>2 DEF OutputSafe
      <4>3. ASSUME NEW y \in Txns, RestorableBy(y, o, st.snapshot.gen)
            PROVE  FALSE
        <5>1. MayExist(y)
          BY <1>0, <4>3, NotThere DEF RestorableBy
        <5> QED BY <1>3, <1>4, <3>4, <4>3, <5>1 DEF RestorableBy
      <4> QED BY <4>1, <4>2, <4>3 DEF OutputSafe
    <3> QED BY <3>1, <3>2, <3>3, <3>4, NextEntryFrom
  <2> QED BY <1>1, <2>2, <2>3
<1>10. Core'
  BY <1>0, <1>5, <1>6, <1>7, <1>8, <1>9, PartsKept DEF Core
<1>11. KnowsState("commit_sync", j)'
  BY <1>0 DEF KnowsState, Purging, AtOutput, Committing, Unpublished, SnapSure, InReset
<1>12. KnowsTxn("commit_sync", j)'
  BY <1>0, <1>1, <1>2, <1>p, PartsKept DEF KnowsTxn, Applied, AtOutput, NoTxns, txVars
<1>13. KnowsOut("commit_sync", j)'
  BY <1>0, <1>1, <1>p DEF KnowsOut, KnowsPlan, Applied, AtOutput, Leads, Within, outVars
<1> QED BY <1>0, <1>10, <1>11, <1>12, <1>13 DEF Knows

---------------------------------------------------------------------------
(* Transactions *)

(* A new transaction, made when no other is left. *)
LEMMA NewTransactionCore ==
    ASSUME CrashInv, TypeInv', NEW p \in Procs, pc[p] \in {"prepare", "retire"},
           NEW x \in Txns, MakeTransaction(x), UNCHANGED outVars
    PROVE  /\ Core'
           /\ tx'[x].ent /\ txOld'[x].ent = {TRUE} /\ txOld'[x].pend = {None}
           /\ Snaps' = {st'.snapshot} /\ PlansKept' = {st'.plan} /\ st' = st
           /\ \A y \in Txns : FALSE \in txOld[y].ent /\ (MayExist(y)' => y = x)
<1>0. /\ StateType /\ TxType /\ Core /\ st' = st /\ stOld' = {st'} /\ st.claim # None
      /\ \A y \in Txns : ~tx[y].ent
      /\ tx' = [tx EXCEPT ![x] = [NoTx EXCEPT !.ent = TRUE]]
  BY NoneIsNoRecord DEF CrashInv, TypeInv, TypeOK, Shape, DiskOK, Claimed, Knows, KnowsTxn,
     NoTxns, MakeTransaction
<1>1. /\ Claims' = {st.claim} /\ Snaps' = {st.snapshot} /\ PlansKept' = {st.plan}
      /\ Resets' = {st.reset}
      /\ st.claim \in Claims /\ st.snapshot \in Snaps /\ st.reset \in Resets
  BY <1>0, StateSynced, StateSets
<1>2. \A y \in Txns : FALSE \in txOld[y].ent
  <2> TAKE y \in Txns
  <2>1. tx[y].ent \in txOld[y].ent /\ tx[y].ent \in BOOLEAN
    BY <1>0 DEF TxType, TxRecords
  <2>2. tx[y].ent = FALSE
    BY <1>0, <2>1
  <2> QED BY <2>1, <2>2
<1>3. tx'[x] = [NoTx EXCEPT !.ent = TRUE] /\ \A y \in Txns : y # x => tx'[y] = tx[y]
  BY <1>0 DEF TxType
<1>4. tx'[x].ent
  BY <1>3 DEF NoTx
<1>5. \A y \in Txns : txOld'[y] = IF tx'[y].ent THEN [[txOld EXCEPT ![x] = NoTxOld][y] EXCEPT
                                                          !.ent = {TRUE}]
                                  ELSE NoTxOld
  BY DEF MakeTransaction, EntriesSynced
<1>6. txOld'[x].ent = {TRUE} /\ txOld'[x].pend = {None}
  <2>1. txOld'[x] = [[txOld EXCEPT ![x] = NoTxOld][x] EXCEPT !.ent = {TRUE}]
    BY <1>4, <1>5
  <2>2. [txOld EXCEPT ![x] = NoTxOld][x] = NoTxOld
    BY <1>0 DEF TxType
  <2> QED BY <2>1, <2>2 DEF NoTxOld
<1>7. \A y \in Txns : y # x => ~MayExist(y)'
  <2> TAKE y \in Txns
  <2> HAVE y # x
  <2>1. txOld'[y] = NoTxOld
    BY <1>0, <1>3, <1>5
  <2>2. txOld'[y].ent = {FALSE}
    BY <2>1 DEF NoTxOld
  <2> QED BY <2>2 DEF MayExist
<1>8. OneTxn' /\ TxnClaimed'
  BY <1>0, <1>1, <1>7 DEF OneTxn, TxnClaimed
<1>9. OneClaim' /\ Backed' /\ Unclaimed' /\ SnapsOK' /\ ResetsOK' /\ ResetSettled'
  BY <1>0, <1>1 DEF Core, OneClaim, Backed, Unclaimed, SnapsOK, ResetsOK, ResetSettled
<1>10. PendOK'
  BY <1>6, <1>7 DEF PendOK
<1>11. OutputsOK'
  <2>1. \A n, o : OutputSafe(n, o) => OutputSafe(n, o)'
    BY <1>2 DEF OutputSafe, RestorableBy, Durable, outVars
  <2> QED BY <1>0, <1>1, <2>1 DEF Core, OutputsOK, outVars
<1>12. LinksOK'
  BY <1>0 DEF Core, LinksOK, outVars
<1>13. Core'
  BY <1>8, <1>9, <1>10, <1>11, <1>12 DEF Core
<1>14. \A y \in Txns : FALSE \in txOld[y].ent /\ (MayExist(y)' => y = x)
  BY <1>2, <1>7
<1> QED BY <1>0, <1>1, <1>4, <1>6, <1>13, <1>14

(* A publication begins: it is the committed plan's. *)
LEMMA PrepareKeeps ==
    ASSUME CrashInv, TypeInv', NEW p \in Procs, Prepare(p)
    PROVE  Core' /\ Knows(p)'
<1>0. pc[p] = "prepare" /\ UNCHANGED outVars /\ KnowsState(pc[p], job[p])
  BY DEF Prepare, CrashInv, Knows
<1>1. ASSUME NEW x \in Txns, MakeTransaction(x),
             GotoWith(p, "payload", [job[p] EXCEPT !.txn = x])
      PROVE  Core' /\ Knows(p)'
  <2>1. pc'[p] = "payload" /\ job'[p].plan = job[p].plan /\ job'[p].txn = x
    BY <1>1 DEF GotoWith, CrashInv, TypeInv, TypeOK, ControlType, JobRecords
  <2>2. /\ Core' /\ tx'[x].ent /\ txOld'[x].ent = {TRUE} /\ txOld'[x].pend = {None}
        /\ Snaps' = {st'.snapshot} /\ PlansKept' = {job[p].plan}
    BY <1>0, <1>1, NewTransactionCore DEF KnowsState
  <2> QED BY <2>1, <2>2 DEF Knows, KnowsState, KnowsTxn, KnowsOut, KnowsPlan, Applied, Purging,
       AtOutput, Committing, Unpublished, SnapSure, NoTxns, InReset
<1>2. CASE Leave(p) /\ UNCHANGED <<stVars, txVars>>
  BY <1>0, <1>2, QuietLeave DEF Exceptional
<1> QED BY <1>1, <1>2 DEF Prepare

(* What a retirement does to one output: delete it, or pass it on to an     *)
(* output the user linked to it.                                            *)
LEMMA RetireOpAt ==
    ASSUME NEW p \in Procs, NEW o \in Retired(p)
    PROVE  /\ DOMAIN RetireOps(p) = Retired(p)
           /\ RetireOps(p)[o].before = st.snapshot.entries[o].hash
           /\ RetireOps(p)[o].after = None
           /\ RetireOps(p)[o].transfer # None =>
                 \E d \in Linked(p, o) :
                     /\ RetireOps(p)[o].transfer.path = d
                     /\ RetireOps(p)[o].transfer.inode = out[o].inode
<1> DEFINE heir(q) == CHOOSE d \in Linked(p, q) : TRUE
           first(d) == CHOOSE q \in Retired(p) : d \in Linked(p, q)
           gives(q) == Linked(p, q) # {} /\ first(heir(q)) = q
           op(q) == [before |-> st.snapshot.entries[q].hash, after |-> None,
                     target |-> IF gives(q) THEN job[p].plan.outs[heir(q)]
                                ELSE st.snapshot.entries[q].target,
                     transfer |-> IF gives(q)
                                  THEN [path |-> heir(q), inode |-> out[q].inode] ELSE None]
<1>1. RetireOps(p) = [q \in Retired(p) |-> op(q)]
  BY DEF RetireOps
<1>2. DOMAIN RetireOps(p) = Retired(p) /\ RetireOps(p)[o] = op(o)
  BY <1>1
<1>3. op(o).transfer # None => Linked(p, o) # {}
  OBVIOUS
<1>4. Linked(p, o) # {} => heir(o) \in Linked(p, o)
  OBVIOUS
<1>5. op(o).transfer # None =>
          op(o).transfer.path = heir(o) /\ op(o).transfer.inode = out[o].inode
  OBVIOUS
<1> QED BY <1>2, <1>3, <1>4, <1>5

(* A recorded output that does not have the committed bytes is the user's.  *)
LEMMA NotRetired ==
    ASSUME CrashInv, NEW p \in Procs, pc[p] = "retire", st.reset = None,
           NEW o \in DOMAIN st.snapshot.entries \ DOMAIN job[p].plan.outs, o \notin Retired(p)
    PROVE  o \in touched
<1>0. /\ StateType /\ TxType /\ OutType /\ Core /\ st.claim # None /\ st.snapshot \in Snapshots
      /\ \A y \in Txns : ~tx[y].ent
  BY NoneIsNoRecord DEF CrashInv, TypeInv, TypeOK, Shape, DiskOK, Claimed, Knows, KnowsTxn,
     NoTxns
<1>1. o \in Paths
  BY <1>0, EntriesElim DEF Snapshots
<1>2. o \in touched \/ OutputSafe(st.snapshot, o)
  BY <1>0, StateSets DEF Core, OutputsOK
<1>3. ~Durable(o, st.snapshot.entries[o].hash)
  BY <1>0, <1>1 DEF Durable, Retired, OutType, Bytes
<1>4. \A y \in Txns : ~RestorableBy(y, o, st.snapshot.gen)
  <2> TAKE y \in Txns
  <2>1. tx[y].ent \in txOld[y].ent /\ tx[y].ent \in BOOLEAN
    BY <1>0 DEF TxType, TxRecords
  <2>2. tx[y].ent = FALSE
    BY <1>0, <2>1
  <2> QED BY <2>1, <2>2 DEF RestorableBy
<1> QED BY <1>2, <1>3, <1>4 DEF OutputSafe

(* The draft of a retirement leads from the snapshot to one that records    *)
(* nothing outside the plan but what is the user's.                         *)
LEMMA RetireDraft ==
    ASSUME CrashInv, NEW p \in Procs, pc[p] = "retire",
           NEW d \in PendingRecords,
           d = Pending(job[p].build, job[p].plan.outs, RetireOps(p))
    PROVE  /\ Wellformed(d) /\ d.base = st.snapshot.gen /\ d.snap.token = st.claim.token
           /\ \A pays : Follows(d, st.snapshot, pays)
           /\ ~Publishes(d)
           /\ st.reset = None => Leads(d, job[p])
<1>0. /\ StateType /\ OutType /\ Core /\ st.snapshot \in Snapshots
  BY DEF CrashInv, TypeInv, TypeOK, Shape, DiskOK
<1>1. /\ d.base = st.snapshot.gen /\ d.plan = Plan(job[p].build, job[p].plan.outs)
      /\ d.snap.token = st.claim.token /\ d.snap.gen = st.snapshot.gen + 1
      /\ d.snap.entries = NextEntries(st.snapshot.entries, d.entries)
      /\ d.entries = RetireOps(p)
  BY DEF Pending
<1>2. ASSUME NEW o \in DOMAIN d.entries
      PROVE  /\ o \in Retired(p) /\ o \in DOMAIN st.snapshot.entries /\ o \in Paths
             /\ d.entries[o].before = st.snapshot.entries[o].hash
             /\ d.entries[o].after = None
             /\ d.entries[o].transfer # None =>
                   \E h \in Linked(p, o) : /\ d.entries[o].transfer.path = h
                                           /\ d.entries[o].transfer.inode = out[o].inode
  <2>1. DOMAIN RetireOps(p) = Retired(p)
    BY DEF RetireOps
  <2>2. o \in Retired(p) /\ o \in DOMAIN st.snapshot.entries
    BY <1>1, <2>1 DEF Retired
  <2>3. o \in Paths
    BY <1>0, <2>2, EntriesElim DEF Snapshots
  <2> QED BY <1>1, <2>2, <2>3, RetireOpAt
<1>3. ~Publishes(d)
  BY <1>2 DEF Publishes
<1>4. Wellformed(d)
  <2>1. ASSUME NEW o \in DOMAIN d.entries, NEW h \in Linked(p, o)
        PROVE  out[o].inode = Shared
    <3>1. /\ out[o] # None /\ out[h] # None /\ out[o].inode = out[h].inode
          /\ h \notin DOMAIN st.snapshot.entries /\ h \in DOMAIN job[p].plan.outs
      BY <2>1 DEF Linked, SameFile
    <3>2. o # h /\ o \in Paths
      BY <1>2, <3>1
    <3>3. h \in Paths
      <4>1. job[p].plan \in PlanRecords
        BY DEF CrashInv, TypeInv, Shape, LocalOK
      <4> QED BY <3>1, <4>1, MapElim DEF PlanRecords
    <3>4. out[o].inode \in {o, Shared} /\ out[h].inode \in {h, Shared}
      BY <1>0, <3>1, <3>2, <3>3 DEF Core, LinksOK, OutType
    <3> QED BY <3>1, <3>2, <3>4, NoneAssumption
  <2> QED BY <1>1, <1>2, <1>3, <2>1 DEF Wellformed
<1>5. \A pays : Follows(d, st.snapshot, pays)
  BY <1>1, <1>2 DEF Follows, HashIn
<1>6. ASSUME st.reset = None  PROVE Leads(d, job[p])
  <2>1. d.plan.outs = job[p].plan.outs
    BY <1>1 DEF Plan
  <2> SUFFICES ASSUME NEW o \in DOMAIN d.snap.entries, o \notin DOMAIN job[p].plan.outs
               PROVE  o \in touched
    BY <2>1 DEF Leads, Within
  <2>2. o \in DOMAIN st.snapshot.entries \ DOMAIN d.entries
    <3>1. ASSUME NEW q \in DOMAIN d.entries, d.entries[q].transfer # None,
                 d.entries[q].transfer.path = o
          PROVE  FALSE
      BY <1>2, <3>1 DEF Linked
    <3>2. \A q \in DOMAIN d.entries : d.entries[q].after = None
      BY <1>2
    <3>3. o \in DOMAIN NextEntries(st.snapshot.entries, d.entries)
      BY <1>1
    <3>4. \/ o \in DOMAIN d.entries /\ d.entries[o].after # None
          \/ \E q \in DOMAIN d.entries :
                 d.entries[q].transfer # None /\ d.entries[q].transfer.path = o
          \/ o \in DOMAIN st.snapshot.entries \ DOMAIN d.entries
      BY <3>3, NextEntryFrom, SMTT(30)
    <3> QED BY <3>1, <3>2, <3>4
  <2>3. DOMAIN d.entries = Retired(p)
    BY <1>1 DEF RetireOps
  <2> QED BY <1>6, <2>2, <2>3, NotRetired
<1> QED BY <1>1, <1>3, <1>4, <1>5, <1>6

(* Retirement: nothing to do, or a transaction drafted. *)
LEMMA RetireKeeps ==
    ASSUME CrashInv, TypeInv', NEW p \in Procs, RetireUnplanned(p)
    PROVE  Core' /\ Knows(p)'
<1>0. /\ pc[p] = "retire" /\ UNCHANGED outVars /\ job[p].cmd # "reset"
      /\ KnowsState(pc[p], job[p]) /\ KnowsTxn(pc[p], job[p])
  BY DEF RetireUnplanned, CrashInv, Knows, TypeInv, Shape, LocalOK
<1>1. CASE Leave(p) /\ UNCHANGED <<stVars, txVars>>
  BY <1>0, <1>1, QuietLeave DEF Exceptional
<1>2. CASE Retired(p) = {} /\ Goto(p, "unstage") /\ UNCHANGED <<stVars, txVars>>
  <2>1. KnowsState("unstage", job[p])
    BY <1>0 DEF KnowsState, Purging, AtOutput, Committing, Unpublished, SnapSure, InReset
  <2>2. KnowsTxn("unstage", job[p])
    BY <1>0 DEF KnowsTxn, Applied, AtOutput, NoTxns
  <2>3. st.reset = None => Within(st.snapshot.entries, job[p])
    BY <1>0, <1>2, NotRetired DEF Within
  <2>4. KnowsOut("unstage", job[p])
    BY <2>3 DEF KnowsOut, KnowsPlan, Applied, AtOutput
  <2> QED BY <1>0, <1>2, <2>1, <2>2, <2>4, QuietGoto DEF Exceptional
<1>3. ASSUME NEW x \in Txns, MakeTransaction(x),
             GotoWith(p, "pend", [job[p] EXCEPT !.txn = x,
                 !.draft = Pending(job[p].build, job[p].plan.outs, RetireOps(p))])
      PROVE  Core' /\ Knows(p)'
  <2>1. PICK d : d = Pending(job[p].build, job[p].plan.outs, RetireOps(p))
    OBVIOUS
  <2>2. PICK j : j = [job[p] EXCEPT !.txn = x, !.draft = d]
    OBVIOUS
  <2>3. /\ pc'[p] = "pend" /\ job'[p] = j /\ j.cmd = job[p].cmd /\ j.plan = job[p].plan
        /\ j.txn = x /\ j.draft = d
    BY <1>3, <2>1, <2>2 DEF GotoWith, CrashInv, TypeInv, TypeOK, ControlType, JobRecords
  <2>4. /\ Core' /\ tx'[x].ent /\ txOld'[x].ent = {TRUE} /\ txOld'[x].pend = {None}
        /\ Snaps' = {st'.snapshot} /\ st' = st
    BY <1>0, <1>3, NewTransactionCore
  <2>5. d \in PendingRecords
    BY <2>3 DEF TypeInv, Shape, LocalOK
  <2>6. /\ Wellformed(d) /\ d.base = st.snapshot.gen /\ d.snap.token = st.claim.token
        /\ Follows(d, st.snapshot, txOld'[x].pay) /\ ~Publishes(d)
        /\ st.reset = None => Leads(d, job[p])
    BY <1>0, <2>1, <2>5, RetireDraft
  <2>7. DraftOK(x, d)'
    BY <2>4, <2>5, <2>6, NoneIsNoRecord DEF DraftOK, Wellformed, Publishes, Follows
  <2>8. st'.reset = None => Leads(d, j)'
    BY <1>0, <2>3, <2>4, <2>6 DEF Leads, Within, outVars
  <2>9. KnowsState("pend", j)'
    BY <1>0, <2>3, <2>4 DEF KnowsState, Purging, AtOutput, Committing, Unpublished, SnapSure,
       InReset
  <2>10. KnowsTxn("pend", j)'
    BY <2>3, <2>4, <2>7 DEF KnowsTxn, Applied, AtOutput, NoTxns
  <2>11. KnowsOut("pend", j)'
    BY <2>3, <2>8 DEF KnowsOut, KnowsPlan, Applied, AtOutput
  <2> QED BY <2>3, <2>4, <2>9, <2>10, <2>11 DEF Knows
<1> QED BY <1>1, <1>2, <1>3 DEF RetireUnplanned

(* What a write inside a transaction leaves. *)
LEMMA TxWritten ==
    ASSUME TxType, NEW x \in Txns, NEW new, WriteTx(x, new)
    PROVE  /\ tx'[x] = new /\ \A y \in Txns : y # x => tx'[y] = tx[y] /\ txOld'[y] = txOld[y]
           /\ txOld'[x].ent = txOld[x].ent \cup {new.ent}
           /\ txOld'[x].pend = txOld[x].pend \cup {new.pend}
           /\ txOld'[x].pay = txOld[x].pay \cup {new.pay}
BY DEF TxType, WriteTx

(* It is safe if every pending.json it may leave is, and if nothing that is *)
(* committed relies on it being restored.                                   *)
LEMMA WriteTxCore ==
    ASSUME CrashInv, NEW p \in Procs, NEW label, Goto(p, label), pc[p] \notin Exceptional,
           UNCHANGED <<stVars, outVars>>, Snaps = {st.snapshot},
           NEW x \in Txns, tx[x].ent, NEW new, WriteTx(x, new),
           \A d \in txOld'[x].pend : d # None => PendSafe(x, d)',
           \A o : ~RestorableBy(x, o, st.snapshot.gen)
    PROVE  Core' /\ (\A y \in Txns : MayExist(y)' <=> MayExist(y)) /\ MayExist(x)
<1>0. /\ StateType /\ TxType /\ Core
      /\ Claims' = Claims /\ Snaps' = Snaps /\ PlansKept' = PlansKept /\ Resets' = Resets
      /\ st' = st /\ UNCHANGED outVars
  BY StateKept DEF CrashInv, TypeInv, TypeOK, stVars
<1>1. /\ \A y \in Txns : y # x => tx'[y] = tx[y] /\ txOld'[y] = txOld[y]
      /\ txOld'[x].ent = txOld[x].ent \cup {new.ent}
  BY <1>0, TxWritten
<1>2. MayExist(x)
  BY <1>0, NotThere
<1>3. \A y \in Txns : MayExist(y)' <=> MayExist(y)
  BY <1>1, <1>2 DEF MayExist
<1>4. \A l \in Exceptional : Here(l) => Here(l)'
  <2>1. \A q \in Procs : q # p => pc'[q] = pc[q]
    BY DEF CrashInv, TypeInv, TypeOK, ControlType, Goto
  <2> QED BY <2>1, HereStays
<1>5. OneTxn' /\ TxnClaimed' /\ OneClaim' /\ Backed'
  BY <1>0, <1>3 DEF Core, OneTxn, TxnClaimed, OneClaim, Backed
<1>6. Unclaimed' /\ SnapsOK' /\ ResetsOK' /\ ResetSettled'
  BY <1>0, <1>4 DEF Core, Unclaimed, SnapsOK, ResetsOK, ResetSettled, Exceptional
<1>7. PendOK'
  BY <1>0, <1>2, <1>3 DEF Core, OneTxn, PendOK
<1>8. OutputsOK'
  <2>1. \A o : OutputSafe(st.snapshot, o) => \/ Durable(o, st.snapshot.entries[o].hash)
                                             \/ \E y \in Txns : y # x /\
                                                   RestorableBy(y, o, st.snapshot.gen)
    BY DEF OutputSafe
  <2>2. PICK n : n = st.snapshot
    OBVIOUS
  <2>3. \A o : OutputSafe(n, o) => OutputSafe(n, o)'
    <3>1. \A o, b : Durable(o, b) => Durable(o, b)'
      BY <1>0 DEF Durable, outVars
    <3>2. \A y \in Txns : y # x => \A o, gen : RestorableBy(y, o, gen) => RestorableBy(y, o, gen)'
      BY <1>1 DEF RestorableBy
    <3> QED BY <2>1, <2>2, <3>1, <3>2 DEF OutputSafe
  <2> QED BY <1>0, <2>2, <2>3 DEF Core, OutputsOK, outVars
<1>9. LinksOK'
  BY <1>0 DEF Core, LinksOK, outVars
<1> QED BY <1>2, <1>3, <1>5, <1>6, <1>7, <1>8, <1>9 DEF Core

(* Removing a transaction that is committed, or was never pending. *)
LEMMA DropKeeps ==
    ASSUME CrashInv, TypeInv', NEW p \in Procs, Drop(p)
    PROVE  Core' /\ Knows(p)'
<1>p. PICK x, j : x = job[p].txn /\ j = job[p]
  OBVIOUS
<1>0. /\ StateType /\ TxType /\ Core /\ pc[p] = "drop" /\ x \in Txns
      /\ Snaps = {st.snapshot} /\ tx[x].ent /\ x = j.txn /\ job'[p] = j
      /\ tx[x].pend # None => tx[x].pend.snap = st.snapshot
      /\ UNCHANGED stVars /\ UNCHANGED outVars /\ st' = st
      /\ Snaps' = Snaps /\ Claims' = Claims /\ Resets' = Resets /\ PlansKept' = PlansKept
      /\ KnowsState("drop", j) /\ KnowsOut("drop", j)
  <2>1. pc[p] = "drop" /\ UNCHANGED stVars /\ UNCHANGED outVars /\ job' = job
    BY DEF Drop, Goto
  <2>2. /\ StateType /\ TxType /\ Core /\ x \in Txns /\ x = j.txn
        /\ KnowsState("drop", j) /\ KnowsTxn("drop", j) /\ KnowsOut("drop", j)
    BY <1>p, <2>1 DEF CrashInv, TypeInv, TypeOK, Shape, LocalOK, WithTxn, Committing, Knows
  <2>3. tx[x].ent /\ (tx[x].pend # None => tx[x].pend.snap = st.snapshot)
    BY <2>2 DEF KnowsTxn
  <2>4. Snaps = {st.snapshot}
    BY <2>2 DEF KnowsState, SnapSure
  <2> QED BY <1>p, <2>1, <2>2, <2>3, <2>4, StateKept DEF stVars
<1>1. MayExist(x)
  BY <1>0, NotThere
<1>2. \A d \in txOld[x].pend : d # None =>
          /\ PendSafe(x, d) /\ st.snapshot = d.snap /\ d.snap.gen # d.base
  <2> TAKE d \in txOld[x].pend
  <2> HAVE d # None
  <2>1. PendSafe(x, d)
    BY <1>0, <1>1 DEF Core, PendOK
  <2>2. st.snapshot = d.snap
    BY <1>0, <2>1 DEF PendSafe
  <2>3. d.base \in Nat
    BY <1>0 DEF TxType, TxOldRecords, PendingRecords, OrNone
  <2> QED BY <2>1, <2>2, <2>3 DEF PendSafe, Wellformed
<1>3. tx[x].pend \in txOld[x].pend
  BY <1>0 DEF TxType
<1>4. \A o : ~RestorableBy(x, o, st.snapshot.gen)
  BY <1>2, <1>3 DEF RestorableBy
<1>5. ASSUME NEW new, WriteTx(x, new), new.pend \in {tx[x].pend, None}, NEW label, Goto(p, label)
      PROVE  Core' /\ MayExist(x)' /\ tx'[x] = new
  <2>1. txOld'[x].pend = txOld[x].pend \cup {new.pend} /\ tx'[x] = new
    BY <1>0, <1>5, TxWritten
  <2>2. ASSUME NEW d \in txOld'[x].pend, d # None  PROVE PendSafe(x, d)'
    <3>1. PendSafe(x, d) /\ st.snapshot = d.snap
      BY <1>2, <1>3, <1>5, <2>1, <2>2
    <3> QED BY <1>0, <3>1 DEF PendSafe, Follows, Authorized, Wellformed, Publishes
  <2> QED BY <1>0, <1>1, <1>4, <1>5, <2>1, <2>2, WriteTxCore DEF Exceptional
<1>6. ASSUME NEW new, WriteTx(x, new), new.pend \in {tx[x].pend, None}, Goto(p, "drop"), new.ent
      PROVE  Core' /\ Knows(p)'
  <2>1. Core' /\ tx'[x] = new
    BY <1>5, <1>6
  <2>2. pc'[p] = "drop"
    BY <1>6 DEF Goto, CrashInv, TypeInv, TypeOK, ControlType
  <2>3. KnowsState("drop", j)'
    BY <1>0 DEF KnowsState
  <2>4. KnowsTxn("drop", j)'
    BY <1>0, <1>6, <2>1 DEF KnowsTxn, Applied, AtOutput, NoTxns
  <2>5. KnowsOut("drop", j)'
    BY <1>0 DEF KnowsOut, KnowsPlan, Applied, AtOutput, Within, outVars
  <2> QED BY <1>0, <2>1, <2>2, <2>3, <2>4, <2>5 DEF Knows
<1>7. CASE WriteTx(x, NoTx) /\ Goto(p, "drop_sync")
  <2>0. NoTx.pend = None
    BY DEF NoTx
  <2>1. Core' /\ tx'[x] = NoTx /\ MayExist(x)'
    BY <1>5, <1>7, <2>0
  <2>2. pc'[p] = "drop_sync"
    BY <1>7 DEF Goto, CrashInv, TypeInv, TypeOK, ControlType
  <2>3. KnowsState("drop_sync", j)'
    BY <1>0 DEF KnowsState, Purging, AtOutput, Committing, Unpublished, SnapSure, InReset
  <2>4. KnowsTxn("drop_sync", j)'
    BY <1>0, <2>1 DEF KnowsTxn, Applied, AtOutput, NoTxns
  <2>5. KnowsOut("drop_sync", j)'
    BY <1>0 DEF KnowsOut, KnowsPlan, Applied, AtOutput, Within, outVars
  <2> QED BY <1>0, <2>1, <2>2, <2>3, <2>4, <2>5 DEF Knows
<1>8. /\ [tx[x] EXCEPT !.pay = NoMap].ent /\ [tx[x] EXCEPT !.pend = None].ent
      /\ [tx[x] EXCEPT !.pay = NoMap].pend = tx[x].pend /\ [tx[x] EXCEPT !.pend = None].pend = None
  <2>1. PICK r : r = tx[x]
    OBVIOUS
  <2>2. r \in TxRecords /\ r.ent = TRUE
    BY <1>0, <2>1 DEF TxType, TxRecords
  <2>3. [r EXCEPT !.pay = NoMap].ent = r.ent /\ [r EXCEPT !.pend = None].ent = r.ent
    BY <2>2 DEF TxRecords
  <2>4. [r EXCEPT !.pay = NoMap].pend = r.pend /\ [r EXCEPT !.pend = None].pend = None
    BY <2>2 DEF TxRecords
  <2> QED BY <2>1, <2>2, <2>3, <2>4
<1> QED BY <1>p, <1>6, <1>7, <1>8 DEF Drop

(* A payload is copied into the transaction, or the publication is given up. *)
LEMMA CopyPayloadKeeps ==
    ASSUME CrashInv, TypeInv', NEW p \in Procs, CopyPayload(p)
    PROVE  Core' /\ Knows(p)'
<1>p. PICK x, j : x = job[p].txn /\ j = job[p]
  OBVIOUS
<1>0. /\ StateType /\ TxType /\ Core /\ pc[p] = "payload" /\ x \in Txns /\ x = j.txn
      /\ j \in JobRecords /\ UNCHANGED stVars /\ UNCHANGED outVars
      /\ KnowsState("payload", j) /\ KnowsTxn("payload", j)
  <2>1. pc[p] = "payload" /\ UNCHANGED stVars /\ UNCHANGED outVars
    BY DEF CopyPayload
  <2> QED BY <1>p, <2>1 DEF CrashInv, TypeInv, TypeOK, ControlType, Shape, LocalOK, WithTxn,
       Committing, Knows
<1>1. /\ Snaps = {st.snapshot} /\ tx[x].ent /\ txOld[x].ent = {TRUE} /\ txOld[x].pend = {None}
      /\ tx[x].pend = None
  BY <1>0 DEF KnowsState, KnowsTxn, SnapSure, TxType
<1>2. ASSUME NEW y, WriteTx(x, [tx[x] EXCEPT !.pay = y]), Goto(p, "payload")
      PROVE  Core' /\ Knows(p)'
  <2>1. PICK new : new = [tx[x] EXCEPT !.pay = y]
    OBVIOUS
  <2>2. new.ent = tx[x].ent /\ new.pend = None /\ tx[x].ent = TRUE
    <3>1. PICK r : r = tx[x]
      OBVIOUS
    <3>2. r \in TxRecords
      BY <1>0, <3>1 DEF TxType
    <3>3. new.ent = r.ent
      BY <2>1, <3>1, <3>2 DEF TxRecords
    <3>4. new.pend = r.pend
      BY <2>1, <3>1, <3>2 DEF TxRecords
    <3>5. r.ent = TRUE
      BY <1>1, <3>1, <3>2 DEF TxRecords
    <3> QED BY <1>1, <3>1, <3>3, <3>4, <3>5
  <2>3. /\ tx'[x] = new /\ txOld'[x].ent = {TRUE} \cup {new.ent} /\ txOld'[x].pend = {None}
    <3>1. WriteTx(x, new)
      BY <1>2, <2>1
    <3>2. /\ tx'[x] = new /\ txOld'[x].ent = txOld[x].ent \cup {new.ent}
          /\ txOld'[x].pend = txOld[x].pend \cup {new.pend}
      BY <1>0, <3>1, TxWritten
    <3> QED BY <1>1, <2>2, <3>2
  <2>4. \A d \in txOld'[x].pend : d # None => PendSafe(x, d)'
    BY <2>3
  <2>5. \A o : ~RestorableBy(x, o, st.snapshot.gen)
    BY <1>1 DEF RestorableBy
  <2>6. Core'
    BY <1>0, <1>1, <1>2, <2>1, <2>4, <2>5, WriteTxCore DEF Exceptional
  <2>7. pc'[p] = "payload" /\ job'[p] = j
    BY <1>p, <1>2 DEF Goto, CrashInv, TypeInv, TypeOK, ControlType
  <2>8. tx'[x].ent /\ txOld'[x].ent = {TRUE}
    BY <1>1, <2>2, <2>3
  <2>9. KnowsState("payload", j)'
    BY <1>0, StateKept DEF KnowsState, stVars
  <2>10. KnowsTxn("payload", j)'
    BY <1>0, <2>3, <2>8 DEF KnowsTxn, Applied, AtOutput, NoTxns
  <2>11. KnowsOut("payload", j)'
    BY DEF KnowsOut, KnowsPlan, Applied, AtOutput
  <2> QED BY <2>6, <2>7, <2>9, <2>10, <2>11 DEF Knows
<1>3. ASSUME UNCHANGED txVars, GotoWith(p, "drop", [job[p] EXCEPT !.ret = "fail"])
      PROVE  Core' /\ Knows(p)'
  <2>1. PICK k : k = [job[p] EXCEPT !.ret = "fail"]
    OBVIOUS
  <2>2. k.txn = x /\ k.ret = "fail"
    BY <1>0, <1>p, <2>1 DEF JobRecords
  <2>3. KnowsState("drop", k)
    BY <1>1, <2>2 DEF KnowsState, Purging, AtOutput, Committing, Unpublished, SnapSure, InReset
  <2>4. KnowsTxn("drop", k)
    BY <1>1, <2>2 DEF KnowsTxn, Applied, AtOutput, NoTxns
  <2>5. KnowsOut("drop", k)
    BY <2>2 DEF KnowsOut, KnowsPlan, Applied, AtOutput
  <2> QED BY <1>0, <1>3, <2>1, <2>3, <2>4, <2>5, QuietMove DEF Exceptional
<1> QED BY <1>p, <1>2, <1>3 DEF CopyPayload

(* pending.json is written: from here a loss may keep it. *)
LEMMA WritePendingKeeps ==
    ASSUME CrashInv, TypeInv', NEW p \in Procs, WritePending(p)
    PROVE  Core' /\ Knows(p)'
<1>p. PICK x, j, d, new : /\ x = job[p].txn /\ j = job[p] /\ d = job[p].draft
                          /\ new = [tx[x] EXCEPT !.pend = d]
  OBVIOUS
<1>0. /\ StateType /\ TxType /\ Core /\ pc[p] = "pend" /\ x \in Txns /\ x = j.txn /\ d = j.draft
      /\ d \in PendingRecords /\ d # None /\ st.claim # None
      /\ UNCHANGED stVars /\ UNCHANGED outVars /\ pc'[p] = "pend_sync" /\ job'[p] = j
      /\ Goto(p, "pend_sync") /\ WriteTx(x, new)
      /\ KnowsState("pend", j) /\ KnowsTxn("pend", j) /\ KnowsOut("pend", j)
  <2>1. /\ pc[p] = "pend" /\ UNCHANGED stVars /\ UNCHANGED outVars /\ Goto(p, "pend_sync")
        /\ WriteTx(x, new)
    BY <1>p DEF WritePending
  <2>2. pc'[p] = "pend_sync" /\ job'[p] = j
    BY <1>p, <2>1 DEF Goto, CrashInv, TypeInv, TypeOK, ControlType
  <2>3. st.claim # None
    BY <2>1, NoneIsNoRecord DEF CrashInv, TypeInv, Shape, DiskOK, Claimed
  <2>4. x \in Txns /\ d \in PendingRecords /\ d # None
    BY <1>p, <2>1, NoneIsNoRecord DEF CrashInv, TypeInv, Shape, LocalOK, WithTxn
  <2> QED BY <1>p, <2>1, <2>2, <2>3, <2>4 DEF CrashInv, TypeInv, TypeOK, Knows
<1>1. /\ Snaps = {st.snapshot} /\ tx[x].ent /\ txOld[x].ent = {TRUE} /\ txOld[x].pend = {None}
      /\ DraftOK(x, d) /\ j.cmd # "reset"
  BY <1>0 DEF KnowsState, KnowsTxn, SnapSure
<1>2. new.ent = TRUE /\ new.pend = d /\ new.pay = tx[x].pay
  <2>1. PICK r : r = tx[x]
    OBVIOUS
  <2>2. r \in TxRecords /\ r.ent = TRUE
    BY <1>0, <1>1, <2>1 DEF TxType, TxRecords
  <2>3. new.ent = r.ent
    BY <1>p, <2>1, <2>2 DEF TxRecords
  <2>4. new.pend = d /\ new.pay = r.pay
    BY <1>p, <2>1, <2>2 DEF TxRecords
  <2> QED BY <2>1, <2>2, <2>3, <2>4
<1>3. /\ tx'[x] = new /\ txOld'[x].ent = {TRUE} /\ txOld'[x].pend = {None, d}
      /\ txOld'[x].pay = txOld[x].pay
  <2>1. tx[x].pay \in txOld[x].pay
    BY <1>0 DEF TxType
  <2>2. /\ tx'[x] = new /\ txOld'[x].ent = txOld[x].ent \cup {new.ent}
        /\ txOld'[x].pend = txOld[x].pend \cup {new.pend}
        /\ txOld'[x].pay = txOld[x].pay \cup {new.pay}
    BY <1>0, TxWritten
  <2>3. txOld'[x].ent = {TRUE}
    <3>1. new.ent \in {TRUE}
      BY <1>2
    <3>2. txOld[x].ent \cup {new.ent} = txOld[x].ent
      BY <1>1, <3>1
    <3> QED BY <1>1, <2>2, <3>2
  <2>4. txOld'[x].pend = {None, d}
    <3>1. {None} \cup {d} = {None, d}
      OBVIOUS
    <3> QED BY <1>1, <1>2, <2>2, <3>1
  <2>5. txOld'[x].pay = txOld[x].pay
    <3>1. txOld[x].pay \cup {tx[x].pay} = txOld[x].pay
      BY <2>1
    <3> QED BY <1>2, <2>2, <3>1
  <2> QED BY <2>2, <2>3, <2>4, <2>5
<1>4. /\ Claims' = Claims /\ Snaps' = Snaps /\ PlansKept' = PlansKept /\ Resets' = Resets
      /\ st' = st
  BY <1>0, StateKept DEF stVars
<1>5. PendSafe(x, d)'
  <2>1. \A c \in Claims : c # None => d.snap.token = c.token
    BY <1>0, <1>1, StateSets DEF Core, OneClaim, DraftOK
  <2>2. \A n \in Snaps : Follows(d, n, txOld'[x].pay)
    BY <1>1, <1>3 DEF DraftOK, Follows
  <2>3. Authorized(d)
    BY <1>1 DEF DraftOK, Authorized
  <2> QED BY <1>1, <1>2, <1>3, <1>4, <2>1, <2>2, <2>3 DEF PendSafe, DraftOK, Wellformed,
       Publishes, Authorized
<1>6. Core'
  <2>1. \A e \in txOld'[x].pend : e # None => PendSafe(x, e)'
    BY <1>3, <1>5
  <2>2. \A o : ~RestorableBy(x, o, st.snapshot.gen)
    BY <1>1 DEF RestorableBy
  <2> QED BY <1>0, <1>1, <2>1, <2>2, WriteTxCore DEF Exceptional
<1>7. KnowsState("pend_sync", j)'
  BY <1>0, <1>1, <1>4 DEF KnowsState, Purging, AtOutput, Committing, Unpublished, SnapSure,
     InReset
<1>8. KnowsTxn("pend_sync", j)'
  BY <1>0, <1>2, <1>3 DEF KnowsTxn, Applied, AtOutput, NoTxns
<1>9. KnowsOut("pend_sync", j)'
  BY <1>0, <1>2, <1>3, <1>4 DEF KnowsOut, KnowsPlan, Applied, AtOutput, Leads, Within, outVars
<1> QED BY <1>0, <1>6, <1>7, <1>8, <1>9 DEF Knows

(* A reset removes the transactions before it lets the claim go. *)
LEMMA RemoveDisposableKeeps ==
    ASSUME CrashInv, TypeInv', NEW p \in Procs, RemoveDisposable(p)
    PROVE  Core' /\ Knows(p)'
<1>0. /\ StateType /\ Core /\ pc[p] = "disposable" /\ UNCHANGED stVars /\ UNCHANGED outVars
      /\ Goto(p, "unclaim") /\ pc'[p] = "unclaim" /\ job'[p] = job[p]
      /\ \A x \in Txns : tx'[x] = NoTx /\ txOld'[x] = NoTxOld
      /\ KnowsState(pc[p], job[p])
  <2>1. /\ pc[p] = "disposable" /\ UNCHANGED stVars /\ UNCHANGED outVars /\ Goto(p, "unclaim")
        /\ \A x \in Txns : tx'[x] = NoTx /\ txOld'[x] = NoTxOld
    BY DEF RemoveDisposable
  <2> QED BY <2>1 DEF CrashInv, TypeInv, TypeOK, ControlType, Knows, Goto
<1>1. /\ Snaps = {st.snapshot} /\ None \notin Resets /\ job[p].cmd = "reset"
      /\ Claims' = Claims /\ Snaps' = Snaps /\ PlansKept' = PlansKept /\ Resets' = Resets
      /\ st' = st
  BY <1>0, StateKept DEF KnowsState, SnapSure, Purging, InReset, stVars
<1>2. \A x \in Txns : ~MayExist(x)' /\ ~tx'[x].ent
  <2> TAKE x \in Txns
  <2>1. txOld'[x] = NoTxOld /\ tx'[x] = NoTx
    BY <1>0
  <2>2. txOld'[x].ent = {FALSE}
    BY <2>1 DEF NoTxOld
  <2>3. ~NoTx.ent
    BY DEF NoTx
  <2> QED BY <2>1, <2>2, <2>3 DEF MayExist
<1>3. \A l \in Exceptional : Here(l) => Here(l)'
  <2>1. \A q \in Procs : q # p => pc'[q] = pc[q]
    BY <1>0 DEF CrashInv, TypeInv, TypeOK, ControlType, Goto
  <2>2. pc[p] \notin Exceptional
    BY <1>0 DEF Exceptional
  <2> QED BY <2>1, <2>2, HereStays
<1>4. OneTxn' /\ TxnClaimed' /\ PendOK'
  BY <1>2 DEF OneTxn, TxnClaimed, PendOK
<1>5. OneClaim' /\ Backed' /\ Unclaimed' /\ SnapsOK' /\ ResetsOK' /\ ResetSettled'
  BY <1>0, <1>1, <1>3 DEF Core, OneClaim, Backed, Unclaimed, SnapsOK, ResetsOK, ResetSettled,
     Exceptional
<1>6. OutputsOK' /\ LinksOK'
  BY <1>0, <1>1 DEF Core, OutputsOK, LinksOK, outVars
<1>7. Core'
  BY <1>4, <1>5, <1>6 DEF Core
<1> QED BY <1>0, <1>1, <1>2, <1>7 DEF Knows, KnowsState, KnowsTxn, KnowsOut, KnowsPlan, Applied,
     Purging, AtOutput, Committing, Unpublished, SnapSure, NoTxns, InReset

---------------------------------------------------------------------------
(* Applying the transaction *)

(* What a valid transaction says of the outputs it passes on. *)
LEMMA ValidFacts ==
    ASSUME StateType, TxType, NEW x \in Txns, NEW d \in PendingRecords, d = tx[x].pend,
           ValidPending(x), Wellformed(d)
    PROVE  /\ ValidNow(d)
           /\ \A o \in DOMAIN d.entries : d.entries[o].transfer # None =>
                 LET h == d.entries[o].transfer.path IN
                 /\ h \in Paths /\ out[h] # None /\ out[h].inode = Shared
                 /\ out[h].bytes = d.entries[o].before
<1>0. d.entries \in Operations
  BY DEF PendingRecords
<1>1. ASSUME NEW o \in DOMAIN d.entries
      PROVE  /\ ValidOp(o, d.entries[o], d, tx[x].pay)
             /\ d.entries[o] \in OpRecords
             /\ d.entries[o].transfer # None => d.entries[o].after = None
  <2>1. ValidOp(o, d.entries[o], d, tx[x].pay)
    BY DEF ValidPending
  <2>2. d.entries[o] \in OpRecords
    BY <1>0, MapElim DEF Operations
  <2> QED BY <2>1, <2>2 DEF OpRecords
<1>2. ASSUME NEW o \in DOMAIN d.entries, d.entries[o].transfer # None
      PROVE  LET h == d.entries[o].transfer.path IN
             /\ h \in Paths /\ out[h] # None /\ out[h].inode = Shared
             /\ out[h].bytes = d.entries[o].before
             /\ h \notin DOMAIN st.snapshot.entries /\ h \in DOMAIN d.plan.outs
             /\ ~Publishes(d)
  <2>1. d.entries[o].transfer.path \in Paths
    BY <1>1, <1>2 DEF OpRecords, OrNone
  <2>2. d.entries[o].transfer.inode = Shared /\ ~Publishes(d)
    BY <1>2 DEF Wellformed
  <2>3. d.entries[o].after = None
    BY <1>1, <1>2
  <2>4. TransferHolds(d.entries[o]) /\ ValidOp(o, d.entries[o], d, tx[x].pay)
    BY <1>1, <2>3 DEF ValidOp
  <2>5. LET h == d.entries[o].transfer.path IN
        h \notin DOMAIN st.snapshot.entries /\ h \in DOMAIN d.plan.outs
    BY <1>2, <2>3, <2>4 DEF ValidOp, OutputsOf
  <2> QED BY <1>2, <2>1, <2>2, <2>4, <2>5 DEF TransferHolds
<1>3. ASSUME NEW o \in DOMAIN d.entries
      PROVE  /\ d.entries[o].after # None => o \in DOMAIN d.plan.outs
             /\ d.entries[o].after = None => o \in DOMAIN st.snapshot.entries
  BY <1>1 DEF ValidOp
<1>4. Heirs(d.entries) \cap (DOMAIN d.entries \cup DOMAIN st.snapshot.entries) = {}
  <2> SUFFICES ASSUME NEW o \in DOMAIN d.entries, d.entries[o].transfer # None
               PROVE  d.entries[o].transfer.path \notin DOMAIN d.entries \cup DOMAIN st.snapshot.entries
    BY DEF Heirs
  <2>1. PICK h : h = d.entries[o].transfer.path
    OBVIOUS
  <2>2. h \notin DOMAIN st.snapshot.entries /\ ~Publishes(d)
    BY <1>2, <2>1
  <2>3. h \notin DOMAIN d.entries
    BY <1>3, <2>2 DEF Publishes
  <2> QED BY <2>1, <2>2, <2>3
<1>5. Heirs(d.entries) \subseteq DOMAIN d.plan.outs
  BY <1>2 DEF Heirs
<1>6. d.base = st.snapshot.gen /\ d.snap.entries = NextEntries(st.snapshot.entries, d.entries)
  BY DEF ValidPending
<1> QED BY <1>2, <1>3, <1>4, <1>5, <1>6 DEF ValidNow

(* Outputs that nothing records may leave the user's hands. *)
LEMMA TouchedCore ==
    ASSUME CrashInv, UNCHANGED <<stVars, txVars>>, UNCHANGED <<out, outOld>>,
           \A label \in Exceptional : Here(label) => Here(label)',
           \A n \in Snaps : \A o \in DOMAIN n.entries : o \in touched => o \in touched'
    PROVE  Core'
<1> USE DEF stVars, txVars
<1>1. /\ Claims' = Claims /\ Snaps' = Snaps /\ PlansKept' = PlansKept /\ Resets' = Resets /\ Core
  BY StateKept DEF CrashInv
<1>2. OneTxn' /\ TxnClaimed' /\ OneClaim' /\ Backed'
  BY <1>1 DEF Core, OneTxn, TxnClaimed, OneClaim, Backed, MayExist
<1>3. Unclaimed' /\ ResetsOK' /\ ResetSettled'
  BY <1>1 DEF Core, Unclaimed, ResetsOK, ResetSettled, Exceptional
<1>4. SnapsOK' /\ PendOK'
  BY <1>1 DEF Core, SnapsOK, Behind, DurablePend, PendOK, PendSafe, Authorized, MayExist
<1>5. \A n, o : OutputSafe(n, o) => OutputSafe(n, o)'
  BY DEF OutputSafe, Durable, RestorableBy
<1>6. OutputsOK'
  BY <1>1, <1>5 DEF Core, OutputsOK
<1>7. LinksOK'
  BY <1>1 DEF Core, LinksOK
<1> QED BY <1>2, <1>3, <1>4, <1>6, <1>7 DEF Core

(* The transaction is found valid, or committed already. *)
LEMMA ApplyKeeps ==
    ASSUME CrashInv, TypeInv', NEW p \in Procs, ApplyPending(p)
    PROVE  Core' /\ Knows(p)'
<1>p. PICK x, d, j : x = job[p].txn /\ d = tx[x].pend /\ j = job[p]
  OBVIOUS
<1>0. /\ StateType /\ TxType /\ OutType /\ Core /\ pc[p] = "apply" /\ j \in JobRecords
      /\ UNCHANGED <<stVars, txVars>> /\ UNCHANGED <<out, outOld>>
      /\ x = j.txn /\ x \in Txns /\ d \in PendingRecords /\ x # None
      /\ KnowsState("apply", j) /\ KnowsTxn("apply", j) /\ KnowsOut("apply", j)
  <2>1. pc[p] = "apply" /\ UNCHANGED <<stVars, txVars>> /\ UNCHANGED <<out, outOld>>
    BY DEF ApplyPending
  <2>2. x \in Txns /\ d \in PendingRecords
    BY <1>p, <2>1 DEF CrashInv, TypeInv, Shape, LocalOK, DiskOK, WithTxn, Committing, Replaying
  <2> QED BY <1>p, <2>1, <2>2, NoneAssumption DEF CrashInv, TypeInv, TypeOK, ControlType, Knows
<1>1. Snaps = {st.snapshot} /\ DurablePend(x)
  BY <1>0 DEF KnowsState, KnowsTxn, SnapSure
<1>2. PendSafe(x, d)
  <2>1. MayExist(x) /\ d \in txOld[x].pend
    BY <1>p, <1>1 DEF DurablePend, MayExist
  <2>2. d # None
    BY <1>0, NoneIsNoRecord
  <2> QED BY <1>0, <2>1, <2>2 DEF Core, PendOK
<1>3. CASE Leave(p) /\ UNCHANGED touched
  BY <1>0, <1>3, QuietLeave DEF Exceptional, outVars
<1>4. CASE st.snapshot = d.snap /\ Goto(p, "commit_sync") /\ UNCHANGED touched
  <2>1. KnowsState("commit_sync", j)
    BY <1>0 DEF KnowsState, Purging, AtOutput, Committing, Unpublished, SnapSure, InReset
  <2>2. KnowsTxn("commit_sync", j)
    BY <1>0, <1>1, <1>4, <1>p DEF KnowsTxn, Applied, AtOutput, NoTxns
  <2>3. KnowsOut("commit_sync", j)
    BY <1>0, <1>4, <1>p DEF KnowsOut, KnowsPlan, Applied, AtOutput, Leads
  <2> QED BY <1>0, <1>4, <1>p, <2>1, <2>2, <2>3, QuietGoto DEF Exceptional, outVars
<1>5. ASSUME ValidPending(x), GotoWith(p, "output", [j EXCEPT !.ops = d.entries]),
             touched' = touched \ Heirs(d.entries)
      PROVE  Core' /\ Knows(p)'
  <2>1. PICK k : k = [j EXCEPT !.ops = d.entries]
    OBVIOUS
  <2>2. /\ k.txn = x /\ k.ops = d.entries /\ k.cmd = j.cmd /\ k.ret = j.ret /\ k.plan = j.plan
        /\ pc'[p] = "output" /\ job'[p] = k /\ \A q \in Procs : q # p => pc'[q] = pc[q]
    BY <1>0, <1>5, <2>1 DEF GotoWith, CrashInv, TypeInv, TypeOK, ControlType, JobRecords
  <2>3. ValidNow(d)
    BY <1>0, <1>2, <1>5, <1>p, ValidFacts DEF PendSafe
  <2>4. Core'
    <3>1. \A n \in Snaps : \A o \in DOMAIN n.entries : o \in touched => o \in touched'
      BY <1>1, <1>5, <2>3 DEF ValidNow
    <3>2. \A label \in Exceptional : Here(label) => Here(label)'
      BY <1>0, <2>2, HereStays DEF Exceptional
    <3> QED BY <1>0, <3>1, <3>2, TouchedCore
  <2>5. st' = st /\ tx' = tx /\ txOld' = txOld /\ Snaps' = Snaps
    BY <1>0, StateKept DEF stVars, txVars
  <2>6. KnowsState("output", k)'
    BY <1>0, <1>1, <2>2, <2>5 DEF KnowsState, Purging, AtOutput, Committing, Unpublished,
       SnapSure, InReset
  <2>7. KnowsTxn("output", k)'
    <3>1. DurablePend(x)'
      BY <1>1, <2>5 DEF DurablePend
    <3>2. ValidNow(tx[x].pend)'
      BY <1>p, <2>3, <2>5 DEF ValidNow
    <3> QED BY <2>2, <3>1, <3>2 DEF KnowsTxn, Applied, AtOutput, NoTxns
  <2>8. Done(d, k)'
    <3>1. ASSUME NEW o \in DOMAIN d.entries, d.entries[o].transfer # None
          PROVE  Durable(d.entries[o].transfer.path, d.entries[o].before)'
      <4> PICK h : h = d.entries[o].transfer.path
        OBVIOUS
      <4>1. h \in Paths /\ out[h] # None /\ out[h].inode = Shared
            /\ out[h].bytes = d.entries[o].before
        BY <1>0, <1>2, <1>5, <1>p, <3>1, ValidFacts DEF PendSafe
      <4>2. outOld[h] = {out[h]}
        BY <1>0, <4>1 DEF Core, LinksOK
      <4> QED BY <1>0, <4>1, <4>2 DEF Durable, Bytes
    <3> QED BY <2>2, <3>1 DEF Done
  <2>9. st'.reset = None /\ k.ret = "unstage" => Leads(d, k)'
    <3>1. st.reset = None /\ j.ret = "unstage" => Leads(d, j)
      BY <1>0, <1>p DEF KnowsOut, KnowsPlan
    <3>2. Heirs(d.entries) \subseteq DOMAIN d.plan.outs
      BY <2>3 DEF ValidNow
    <3> QED BY <1>5, <2>2, <2>5, <3>1, <3>2 DEF Leads, Within
  <2>10. KnowsOut("output", k)'
    BY <1>p, <2>2, <2>5, <2>8, <2>9 DEF KnowsOut, KnowsPlan, Applied, AtOutput
  <2> QED BY <2>2, <2>4, <2>6, <2>7, <2>10 DEF Knows
<1> QED BY <1>p, <1>3, <1>4, <1>5 DEF ApplyPending, Require

(* An output is replaced or deleted: whatever recorded it can restore it. *)
LEMMA ActKeeps ==
    ASSUME CrashInv, TypeInv', NEW p \in Procs, ActOnOutput(p)
    PROVE  Core' /\ Knows(p)'
<1>p. PICK x, d, j, o, cell :
          /\ x = job[p].txn /\ d = tx[x].pend /\ j = job[p] /\ o = j.cur
          /\ cell = IF j.ops[o].after = None THEN None ELSE Cell(j.ops[o].after, o)
  OBVIOUS
<1>0. /\ StateType /\ TxType /\ OutType /\ Core /\ pc[p] = "act" /\ j \in JobRecords
      /\ UNCHANGED <<stVars, txVars>> /\ x = j.txn /\ o \in DOMAIN j.ops /\ o \in Paths
      /\ j.ops[o] \in OpRecords /\ pc'[p] = "out_sync" /\ job'[p] = j
      /\ \A q \in Procs : q # p => pc'[q] = pc[q]
      /\ KnowsState("act", j) /\ KnowsTxn("act", j) /\ KnowsOut("act", j)
  <2>1. pc[p] = "act" /\ UNCHANGED <<stVars, txVars>> /\ Goto(p, "out_sync")
    BY DEF ActOnOutput
  <2>2. /\ o \in DOMAIN j.ops /\ j \in JobRecords /\ pc'[p] = "out_sync" /\ job'[p] = j
        /\ \A q \in Procs : q # p => pc'[q] = pc[q]
    BY <1>p, <2>1 DEF CrashInv, TypeInv, TypeOK, ControlType, Shape, LocalOK, Goto
  <2>3. o \in Paths /\ j.ops[o] \in OpRecords
    BY <2>2, MapElim DEF JobRecords, Operations
  <2> QED BY <1>p, <2>1, <2>2, <2>3 DEF CrashInv, TypeInv, TypeOK, Knows
<1>1. /\ out' = [out EXCEPT ![o] = cell] /\ outOld' = [outOld EXCEPT ![o] = @ \cup {cell}]
      /\ touched' = touched \ {o}
  BY <1>p DEF ActOnOutput, WriteOut
<1>2. /\ out'[o] = cell /\ outOld'[o] = outOld[o] \cup {cell}
      /\ \A q \in Paths : q # o => out'[q] = out[q] /\ outOld'[q] = outOld[q]
  BY <1>0, <1>1 DEF OutType
<1>3. /\ Bytes(cell) = j.ops[o].after /\ (cell # None => cell.inode = o)
  <2>1. CASE j.ops[o].after = None
    BY <1>p, <2>1 DEF Bytes
  <2>2. CASE j.ops[o].after # None
    <3>1. j.ops[o].after \in Contents /\ cell = [bytes |-> j.ops[o].after, inode |-> o]
      BY <1>0, <1>p, <2>2 DEF OpRecords, Cell
    <3>2. cell # None
      BY <1>0, <3>1, NoneIsNoRecord DEF Inodes
    <3> QED BY <3>1, <3>2 DEF Bytes
  <2> QED BY <2>1, <2>2
<1>4. /\ Snaps = {st.snapshot}
      /\ Claims' = Claims /\ Snaps' = Snaps /\ PlansKept' = PlansKept /\ Resets' = Resets
      /\ st' = st /\ tx' = tx /\ txOld' = txOld
  BY <1>0, StateKept DEF KnowsState, SnapSure, stVars, txVars
<1>5. ASSUME x # None
      PROVE  DurablePend(x) /\ ValidNow(d) /\ Done(d, j) /\ x \in Txns
  <2>1. x \in Txns
    BY <1>0, <1>5 DEF JobRecords, OrNone
  <2> QED BY <1>0, <1>5, <1>p, <2>1 DEF KnowsTxn, KnowsOut, Applied, AtOutput
<1>6. x = None => None \notin Resets
  BY <1>0 DEF KnowsState, Purging, AtOutput
<1>7. OutputsOK'
  <2> SUFFICES ASSUME None \in Resets', NEW c \in Claims', NEW n \in Snaps', c # None,
                      NEW q \in DOMAIN n.entries
               PROVE  q \in touched' \/ OutputSafe(n, q)'
    BY DEF OutputsOK
  <2>1. DurablePend(x) /\ ValidNow(d) /\ Done(d, j) /\ x \in Txns
    BY <1>4, <1>5, <1>6
  <2>2. CASE q = o
    <3>1. d # None /\ txOld[x].ent = {TRUE} /\ txOld[x].pend = {d}
      BY <1>p, <2>1 DEF DurablePend
    <3>2. d.base = n.gen /\ o \in DOMAIN d.entries
      BY <1>0, <1>4, <2>1 DEF ValidNow, Done
    <3>3. RestorableBy(x, o, n.gen)'
      BY <1>4, <3>1, <3>2 DEF RestorableBy
    <3> QED BY <2>1, <2>2, <3>3 DEF OutputSafe
  <2>3. CASE q # o
    <3>1. q \in touched \/ OutputSafe(n, q)
      BY <1>0, <1>4 DEF Core, OutputsOK
    <3>2. q \in Paths
      <4>1. n \in Snapshots
        BY <1>0, <1>4, StateSets DEF Core, Backed, OrNone
      <4> QED BY <4>1, EntriesElim DEF Snapshots
    <3> QED BY <1>1, <1>2, <1>4, <2>3, <3>1, <3>2 DEF OutputSafe, Durable, RestorableBy
  <2> QED BY <2>2, <2>3
<1>8. LinksOK'
  BY <1>0, <1>2, <1>3, NoneAssumption DEF Core, LinksOK
<1>9. Core'
  <2>1. \A label \in Exceptional : Here(label) => Here(label)'
    BY <1>0, HereStays DEF Exceptional
  <2>2. OneTxn' /\ TxnClaimed' /\ OneClaim' /\ Backed'
    BY <1>0, <1>4 DEF Core, OneTxn, TxnClaimed, OneClaim, Backed, MayExist
  <2>3. Unclaimed' /\ ResetsOK' /\ ResetSettled'
    BY <1>0, <1>4, <2>1 DEF Core, Unclaimed, ResetsOK, ResetSettled, Exceptional
  <2>4. SnapsOK' /\ PendOK'
    BY <1>0, <1>4 DEF Core, SnapsOK, PendOK, PendSafe, Authorized, MayExist
  <2> QED BY <1>7, <1>8, <2>2, <2>3, <2>4 DEF Core
<1>10. ASSUME x # None  PROVE Done(d, j)'
  <2>1. /\ DOMAIN d.entries \cap Heirs(d.entries) = {} /\ o \in DOMAIN d.entries
    BY <1>0, <1>5, <1>10 DEF ValidNow, Done
  <2>2. d.entries \in Operations
    <3>1. d \in PendingRecords
      BY <1>0, <1>p, <1>5, <1>10 DEF CrashInv, TypeInv, Shape, DiskOK, Replaying, AtOutput
    <3> QED BY <3>1 DEF PendingRecords
  <2>3. ASSUME NEW q \in DOMAIN d.entries
        PROVE  /\ q \in Paths
               /\ d.entries[q].transfer # None => /\ d.entries[q].transfer.path \in Paths
                                                  /\ d.entries[q].transfer.path # o
    <3>1. q \in Paths /\ d.entries[q] \in OpRecords
      BY <2>2, MapElim DEF Operations
    <3> QED BY <2>1, <3>1 DEF OpRecords, OrNone, Heirs
  <2>4. \A q \in Paths : \A b : q # o /\ Durable(q, b) => Durable(q, b)'
    BY <1>2 DEF Durable
  <2>5. \A q : q # o /\ q \in touched => q \in touched'
    BY <1>1
  <2>6. \A q \in DOMAIN d.entries \ DOMAIN j.ops : q # o
    BY <1>0
  <2> QED BY <1>5, <1>10, <2>3, <2>4, <2>5, <2>6 DEF Done
<1>11. KnowsState("out_sync", j)'
  BY <1>0, <1>4 DEF KnowsState, Purging, AtOutput, Committing, Unpublished, SnapSure, InReset
<1>12. KnowsTxn("out_sync", j)'
  BY <1>0, <1>4 DEF KnowsTxn, Applied, AtOutput, NoTxns, DurablePend, ValidNow
<1>13. st'.reset = None /\ x # None /\ j.ret = "unstage" => Leads(d, j)'
  <2> SUFFICES ASSUME st.reset = None, x # None, j.ret = "unstage"
               PROVE  Leads(d, j)'
    BY <1>4
  <2>1. Leads(d, j)
    BY <1>0, <1>p DEF KnowsOut, KnowsPlan, Applied, AtOutput
  <2>2. o \notin DOMAIN d.snap.entries \ DOMAIN j.plan.outs
    <3> SUFFICES ASSUME o \in DOMAIN d.snap.entries  PROVE o \in DOMAIN j.plan.outs
      OBVIOUS
    <3>1. /\ o \in DOMAIN NextEntries(st.snapshot.entries, d.entries) /\ o \in DOMAIN d.entries
          /\ o \notin Heirs(d.entries)
      BY <1>0, <1>5 DEF ValidNow, Done
    <3>2. d.entries[o].after # None
      BY <3>1, NextEntryFrom DEF Heirs
    <3> QED BY <1>5, <2>1, <3>1, <3>2 DEF ValidNow, Leads
  <2> QED BY <1>1, <2>1, <2>2 DEF Leads, Within
<1>14. KnowsOut("out_sync", j)'
  BY <1>0, <1>2, <1>3, <1>4, <1>10, <1>13, <1>p DEF KnowsOut, KnowsPlan, Applied, AtOutput
<1> QED BY <1>0, <1>9, <1>11, <1>12, <1>14 DEF Knows

---------------------------------------------------------------------------
(* Program steps *)

(* Every step of the program keeps what may survive in order, and the       *)
(* process that takes it knows what it must at its next label.              *)
LEMMA StepKeepsCore ==
    ASSUME CrashInv, NEW p \in Procs, Step(p)
    PROVE  Core' /\ Knows(p)'
<1>0. TypeInv'
  BY StepKeepsTypeInv DEF CrashInv
<1>1. CASE Locking(p)
  BY <1>1, OutsideKeeps, AcquireKeeps DEF Locking
<1>2. CASE Claiming(p)
  BY <1>0, <1>2, LookKeeps, UnclaimedWriteKeeps, RemovedKeeps, OutsideKeeps, InitClaimKeeps,
     SyncStateKeeps DEF Claiming
<1>3. CASE Recovering(p)
  BY <1>0, <1>3, RecoverKeeps, DropKeeps, DropSyncKeeps, SweepKeeps DEF Recovering
<1>4. CASE Applying(p)
  BY <1>0, <1>4, WritePendingKeeps, SyncPendingKeeps, ApplyKeeps, CheckOutputKeeps, ActKeeps,
     SyncOutputKeeps, CommitKeeps DEF Applying
<1>5. CASE Generating(p)
  BY <1>0, <1>5, OutsideKeeps, PrepareKeeps, CopyPayloadKeeps, SyncPayloadsKeeps DEF Generating
<1>6. CASE Configuring(p)
  BY <1>0, <1>6, RetireKeeps, StagingKeeps, WritePlanKeeps, OutsideKeeps DEF Configuring
<1>7. CASE Resetting(p)
  BY <1>0, <1>7, ResetWriteKeeps, LookKeeps, StagingKeeps, RemoveDisposableKeeps,
     UnclaimedWriteKeeps, RemovedKeeps DEF Resetting
<1> QED BY <1>1, <1>2, <1>3, <1>4, <1>5, <1>6, <1>7 DEF Step

(* Outside the publication section nothing of the state, the transactions   *)
(* or the outputs is written.                                               *)
LEMMA OutsideQuiet ==
    ASSUME NEW p \in Procs, pc[p] \notin PubSection, Step(p)
    PROVE  UNCHANGED <<stVars, txVars, outVars>>
<1> USE DEF PubSection, disk, stVars, txVars, outVars
<1>1. CASE Locking(p)
  BY <1>1 DEF Locking, AcquireRegistry, AcquireGeneration, SpawnChild, AcquirePublication
<1>2. CASE Claiming(p)
  BY <1>2 DEF Claiming, ValidateRegistry, WipeFile, WipeSync, LoadClaim, Released,
     InitSnapshot, InitClaim, SyncState, AfterSync
<1>3. CASE Recovering(p)
  BY <1>3 DEF Recovering, Recover, Drop, DropSync, Sweep, Recovered
<1>4. CASE Applying(p)
  BY <1>4 DEF Applying, WritePending, SyncPending, ApplyPending, CheckOutput,
     ActOnOutput, SyncOutput, OutputsDone, CommitSnapshot
<1>5. CASE Generating(p)
  BY <1>5 DEF Generating, Validated, RebuildStaging, Protoc, Prepare,
     CopyPayload, SyncPayloads, Verify, CheckPublished, DiscardStaging
<1>6. CASE Configuring(p)
  BY <1>6 DEF Configuring, RetireUnplanned, RemoveStaging, SyncStaging, WritePlan,
     ReturnToken, StoreToken
<1>7. CASE Resetting(p)
  BY <1>7 DEF Resetting, WriteResetIntent, ResumeReset, Purge, RemoveDisposable,
     Unclaim, Scrub, RemoveState
<1> QED BY <1>1, <1>2, <1>3, <1>4, <1>5, <1>6, <1>7 DEF Step

(* So what the others know stays true. *)
LEMMA OthersKnow ==
    ASSUME TypeInv, NEW p \in Procs, Step(p), NEW q \in Procs, q # p, Knows(q)
    PROVE  Knows(q)'
<1>1. pc'[q] = pc[q] /\ job'[q] = job[q]
  BY StepFrame DEF TypeInv, TypeOK, Frame
<1>2. CASE pc[q] \notin PubSection
  BY <1>1, <1>2, KnowsNothing
<1>3. CASE pc[q] \in PubSection
  <2>1. pc[p] \notin PubSection
    BY <1>3 DEF TypeInv, PubInv
  <2>2. UNCHANGED <<stVars, txVars, outVars>>
    BY <2>1, OutsideQuiet
  <2> QED BY <1>1, <2>2, QuietKnows DEF Knows
<1> QED BY <1>2, <1>3

(* A command keeps its kind and its build to its end, and the plan it works *)
(* with is the one it began with or the one its build has on file.          *)
SameCommand(p) ==
    \/ pc'[p] = "idle"
    \/ /\ job'[p].cmd = job[p].cmd /\ job'[p].build = job[p].build
       /\ job'[p].plan \in {job[p].plan, planFile[job[p].build]}
(* Every step of a command keeps it in this sense.                          *)
LEMMA StepKeepsCommand ==
    ASSUME ControlType, NEW p \in Procs, Step(p)
    PROVE  pc[p] # "idle" /\ SameCommand(p)
<1>0. pc \in [Procs -> Labels] /\ job \in [Procs -> JobRecords] /\ job[p] \in JobRecords
  BY DEF ControlType
<1> DEFINE Same(j) == /\ j.cmd = job[p].cmd /\ j.build = job[p].build
                      /\ j.plan \in {job[p].plan, planFile[job[p].build]}
<1>a. \A label : Goto(p, label) => SameCommand(p)
  BY <1>0 DEF Goto, SameCommand
<1>b. Leave(p) => SameCommand(p)
  BY <1>0 DEF Leave, SameCommand
<1>c. \A label, j : GotoWith(p, label, j) /\ Same(j) => SameCommand(p)
  BY <1>0 DEF GotoWith, SameCommand
<1>d. \A token : Answer(p, token) => SameCommand(p)
  BY <1>0 DEF Answer, SameCommand, JobRecords
<1>e. \A condition, label : Require(p, condition, label) => SameCommand(p)
  BY <1>a, <1>b DEF Require
<1>f. job'[p] = job[p] => SameCommand(p)
  BY DEF SameCommand
<1>j. /\ \A v : Same([job[p] EXCEPT !.plan = planFile[job[p].build]])
      /\ \A v : Same([job[p] EXCEPT !.token = v])
      /\ \A v, w : Same([job[p] EXCEPT !.txn = v, !.ret = w])
      /\ \A v : Same([job[p] EXCEPT !.txn = v])
      /\ \A v, w : Same([job[p] EXCEPT !.txn = v, !.draft = w])
      /\ \A v : Same([job[p] EXCEPT !.ret = v])
      /\ \A v : Same([job[p] EXCEPT !.draft = v])
      /\ \A v, w : Same([job[p] EXCEPT !.draft = v, !.ret = w])
      /\ \A v : Same([job[p] EXCEPT !.ops = v])
      /\ \A v, w : Same([job[p] EXCEPT !.cur = v, !.obs = w])
      /\ \A u, v, w : Same([job[p] EXCEPT !.ops = u, !.cur = v, !.obs = w])
      /\ \A v : Same([job[p] EXCEPT !.declared = v])
      /\ \A v : Same([job[p] EXCEPT !.publishing = v])
  BY <1>0 DEF JobRecords
<1> HIDE DEF Same
<1>1. CASE Locking(p)
  BY <1>1, <1>a, <1>b, <1>c, <1>f, <1>j DEF Locking, AcquireRegistry, AcquireGeneration, SpawnChild, AcquirePublication
<1>2. CASE Claiming(p)
  BY <1>2, <1>a, <1>b, <1>c, <1>d, <1>e, <1>f, <1>j DEF Claiming, ValidateRegistry, WipeFile, WipeSync, LoadClaim, Released,
     InitSnapshot, InitClaim, SyncState, AfterSync
<1>3. CASE Recovering(p)
  <2>1. CASE Recover(p) \/ Drop(p) \/ Sweep(p)
    BY <2>1, <1>a, <1>b, <1>c, <1>j DEF Recover, Drop, Sweep
  <2>2. CASE DropSync(p)
    BY <2>2, <1>b, <1>c, <1>j DEF DropSync
  <2>3. CASE Recovered(p)
    BY <2>3, <1>e DEF Recovered, Proceed
  <2> QED BY <1>3, <2>1, <2>2, <2>3 DEF Recovering
<1>4. CASE Applying(p)
  <2>1. CASE WritePending(p) \/ ActOnOutput(p) \/ OutputsDone(p) \/ CommitSnapshot(p)
    BY <2>1, <1>a DEF WritePending, ActOnOutput, OutputsDone, CommitSnapshot
  <2>2. CASE SyncPending(p) \/ SyncOutput(p)
    BY <2>2, <1>c, <1>j DEF SyncPending, SyncOutput
  <2>3. CASE ApplyPending(p)
    BY <2>3, <1>b, <1>c, <1>e, <1>j DEF ApplyPending
  <2>4. CASE CheckOutput(p)
    BY <2>4, <1>b, <1>c, <1>j DEF CheckOutput
  <2> QED BY <1>4, <2>1, <2>2, <2>3, <2>4 DEF Applying
<1>5. CASE Generating(p)
  <2>1. CASE Validated(p) \/ Verify(p) \/ CheckPublished(p) \/ DiscardStaging(p)
    BY <2>1, <1>b, <1>e, <1>f DEF Validated, Verify, CheckPublished, DiscardStaging
  <2>2. CASE RebuildStaging(p) \/ Protoc(p)
    BY <2>2, <1>a, <1>b, <1>c, <1>j DEF RebuildStaging, Protoc
  <2>3. CASE Prepare(p) \/ CopyPayload(p) \/ SyncPayloads(p)
    BY <2>3, <1>a, <1>b, <1>c, <1>j DEF Prepare, CopyPayload, SyncPayloads
  <2> QED BY <1>5, <2>1, <2>2, <2>3 DEF Generating
<1>6. CASE Configuring(p)
  BY <1>6, <1>a, <1>b, <1>c, <1>d, <1>j DEF Configuring, RetireUnplanned, RemoveStaging, SyncStaging, WritePlan,
     ReturnToken, StoreToken
<1>7. CASE Resetting(p)
  BY <1>7, <1>a, <1>b, <1>c, <1>e, <1>j DEF Resetting, WriteResetIntent, ResumeReset, Purge, RemoveDisposable,
     Unclaim, Scrub, RemoveState
<1> QED BY <1>1, <1>2, <1>3, <1>4, <1>5, <1>6, <1>7 DEF Step

(* So the plan of every command, and every plan on file, stay those of      *)
(* their build.                                                             *)
LEMMA StepKeepsPlans ==
    ASSUME TypeInv, PlansOwn, NEW p \in Procs, Step(p)
    PROVE  PlansOwn'
<1>0. /\ EnvType /\ ControlType /\ pc[p] # "idle" /\ SameCommand(p)
      /\ job[p].build \in Builds /\ job[p] \in JobRecords
  BY StepKeepsCommand DEF TypeInv, TypeOK, ControlType, Shape, LocalOK
<1>1. \/ planFile' = planFile
      \/ \E v \in {None, job[p].plan} : planFile' = [planFile EXCEPT ![job[p].build] = v]
  <2> USE DEF env
  <2>1. CASE Locking(p)
    BY <2>1 DEF Locking, AcquireRegistry, AcquireGeneration, SpawnChild, AcquirePublication
  <2>2. CASE Claiming(p)
    BY <2>2 DEF Claiming, ValidateRegistry, WipeFile, WipeSync, LoadClaim,
       Released, InitSnapshot, InitClaim, SyncState
  <2>3. CASE Recovering(p)
    BY <2>3 DEF Recovering, Recover, Drop, DropSync, Sweep, Recovered
  <2>4. CASE Applying(p)
    BY <2>4 DEF Applying, WritePending, SyncPending, ApplyPending, CheckOutput,
       ActOnOutput, SyncOutput, OutputsDone, CommitSnapshot
  <2>5. CASE Generating(p)
    BY <2>5 DEF Generating, Validated, RebuildStaging, Protoc, Prepare,
       CopyPayload, SyncPayloads, Verify, CheckPublished, DiscardStaging
  <2>6. CASE Configuring(p)
    BY <2>6 DEF Configuring, RetireUnplanned, RemoveStaging, SyncStaging, WritePlan,
       ReturnToken, StoreToken
  <2>7. CASE Resetting(p)
    BY <2>7 DEF Resetting, WriteResetIntent, ResumeReset, Purge, RemoveDisposable,
       Unclaim, Scrub, RemoveState
  <2> QED BY <2>1, <2>2, <2>3, <2>4, <2>5, <2>6, <2>7 DEF Step
<1>2. \A b \in Builds : planFile'[b] # None => planFile'[b].build = b
  BY <1>0, <1>1 DEF PlansOwn, EnvType
<1>3. ASSUME NEW q \in Procs, pc'[q] # "idle", job'[q].plan # None
      PROVE  job'[q].plan.build = job'[q].build
  <2>1. CASE q = p
    BY <1>0, <1>3, <2>1 DEF PlansOwn, SameCommand
  <2>2. CASE q # p
    <3>1. pc'[q] = pc[q] /\ job'[q] = job[q]
      BY <1>0, <2>2, StepFrame DEF Frame
    <3> QED BY <1>3, <3>1 DEF PlansOwn
  <2> QED BY <2>1, <2>2
<1> QED BY <1>2, <1>3 DEF PlansOwn

(* What a step may do to the state directory. *)
StateStep(p) ==
    \/ st' = st /\ (stOld' = stOld \/ stOld' = {st})
    \/ \E v : pc[p] \in {"init", "snap", "scrub"} /\ WriteState("snapshot", v)
    \/ \E file \in {"plan", "reset"} : pc[p] = "scrub" /\ WriteState(file, None)
    \/ \E file \in DOMAIN EmptyState : WipeFile(p, file)
    \/ InitClaim(p) \/ Unclaim(p) \/ WritePlan(p) \/ WriteResetIntent(p)
(* These are all the ways a step changes the state directory.               *)
LEMMA StepOnState ==
    ASSUME NEW p \in Procs, Step(p)
    PROVE  StateStep(p)
<1> USE DEF StateStep, disk, stVars
<1>1. CASE Locking(p)
  BY <1>1 DEF Locking, AcquireRegistry, AcquireGeneration, SpawnChild, AcquirePublication
<1>2. CASE Claiming(p)
  <2>1. CASE InitSnapshot(p)
    BY <2>1 DEF InitSnapshot
  <2> QED BY <1>2, <2>1 DEF Claiming, ValidateRegistry, WipeSync, LoadClaim, Released, SyncState
<1>3. CASE Recovering(p)
  BY <1>3 DEF Recovering, Recover, Drop, DropSync, Sweep, Recovered
<1>4. CASE Applying(p)
  <2>1. CASE CommitSnapshot(p)
    BY <2>1 DEF CommitSnapshot
  <2> QED BY <1>4, <2>1 DEF Applying, WritePending, SyncPending, ApplyPending, CheckOutput,
       ActOnOutput, SyncOutput, OutputsDone
<1>5. CASE Generating(p)
  <2>1. CASE Prepare(p)
    BY <2>1 DEF Prepare, MakeTransaction
  <2> QED BY <1>5, <2>1 DEF Generating, Validated, RebuildStaging, Protoc,
       CopyPayload, SyncPayloads, Verify, CheckPublished, DiscardStaging
<1>6. CASE Configuring(p)
  <2>1. CASE RetireUnplanned(p)
    BY <2>1 DEF RetireUnplanned, MakeTransaction
  <2> QED BY <1>6, <2>1 DEF Configuring, RemoveStaging, SyncStaging, ReturnToken, StoreToken
<1>7. CASE Resetting(p)
  <2>1. CASE Scrub(p)
    <3>1. PICK i \in 1..3 : WriteState(ScrubOrder[i], None)
      BY <2>1 DEF Scrub
    <3>2. ScrubOrder[i] \in {"plan", "snapshot", "reset"}
      BY DEF ScrubOrder
    <3> QED BY <2>1, <3>1, <3>2 DEF Scrub
  <2> QED BY <1>7, <2>1 DEF Resetting, ResumeReset, Purge, RemoveDisposable, RemoveState
<1> QED BY <1>1, <1>2, <1>3, <1>4, <1>5, <1>6, <1>7 DEF Step

(* Where nobody resets, no intent is ever written.                          *)
LEMMA StepKeepsNoCutReset ==
    ASSUME CrashInv, NEW p \in Procs, Step(p)
    PROVE  NoCutReset'
<1>0. StateType /\ ControlType /\ budget' = budget /\ pc[p] # "idle" /\ SameCommand(p)
  BY StepKeepsBudget, StepKeepsCommand DEF CrashInv, TypeInv, TypeOK
<1>1. CASE budget["kills"] = 0
  BY <1>0, <1>1 DEF NoCutReset
<1>2. CASE budget["kills"] # 0
  <2>1. /\ budget["resets"] = 0 /\ Resets = {None}
        /\ \A q \in Procs : pc[q] # "idle" => job[q].cmd # "reset"
    BY <1>2 DEF CrashInv, NoCutReset
  <2>2. st.reset = None /\ st.reset \in Resets
    BY <1>0, <2>1, StateSets
  <2>3. Resets' = {None}
    <3>1. CASE st' = st /\ (stOld' = stOld \/ stOld' = {st})
      BY <2>1, <2>2, <3>1, StateKept, StateSynced
    <3>2. ASSUME NEW v, WriteState("snapshot", v) \/ WriteState("claim", v)
                        \/ WriteState("plan", v)
          PROVE  Resets' = {None}
      BY <1>0, <2>1, <3>2, SnapshotWritten, ClaimWritten, PlanWritten
    <3>3. CASE WriteState("reset", None)
      BY <1>0, <2>1, <3>3, ResetWritten
    <3>4. CASE \E file \in DOMAIN EmptyState : WipeFile(p, file)
      BY <3>2, <3>3, <3>4 DEF WipeFile, EmptyState
    <3>5. CASE InitClaim(p) \/ Unclaim(p) \/ WritePlan(p)
      BY <3>2, <3>5 DEF InitClaim, Unclaim, WritePlan
    <3>6. CASE WriteResetIntent(p)
      <4>1. job[p].cmd = "reset"
        BY <3>6 DEF WriteResetIntent, CrashInv, Knows, KnowsState, InReset
      <4> QED BY <1>0, <2>1, <4>1
    <3> QED BY <3>1, <3>2, <3>3, <3>4, <3>5, <3>6, StepOnState DEF StateStep
  <2>4. ASSUME NEW q \in Procs, pc'[q] # "idle"  PROVE job'[q].cmd # "reset"
    <3>1. CASE q = p
      BY <1>0, <2>1, <2>4, <3>1 DEF SameCommand
    <3>2. CASE q # p
      BY <1>0, <2>1, <2>4, <3>2, StepFrame DEF Frame
    <3> QED BY <3>1, <3>2
  <2> QED BY <1>0, <2>1, <2>3, <2>4 DEF NoCutReset
<1> QED BY <1>1, <1>2

(* Every program step keeps the crash invariant. *)
LEMMA StepKeepsCrashInv ==
    ASSUME CrashInv, NEW p \in Procs, Step(p)
    PROVE  CrashInv'
<1>1. TypeInv' /\ PlansOwn' /\ NoCutReset'
  BY StepKeepsTypeInv, StepKeepsPlans, StepKeepsNoCutReset DEF CrashInv
<1>2. Core' /\ Knows(p)'
  BY StepKeepsCore
<1>3. \A q \in Procs : q # p => Knows(q)'
  BY OthersKnow DEF CrashInv
<1> QED BY <1>1, <1>2, <1>3 DEF CrashInv

---------------------------------------------------------------------------
(* Starts, deaths, losses of power and edits *)

(* Moving processes outside the section leaves the disk and the rest alone. *)
LEMMA StartKeepsCrashInv ==
    ASSUME CrashInv, TypeInv', NEW p \in Procs, NEW event \in Events \ {"kills"},
           NEW label \in {"reg", "gen"}, NEW j, Start(p, event, label, j),
           j.cmd = "reset" => event = "resets", j.plan # None => j.plan.build = j.build,
           \A b \in Builds : planFile'[b] # None => planFile'[b].build = b
    PROVE  CrashInv'
<1>0. ControlType /\ EnvType
  BY DEF CrashInv, TypeInv, TypeOK
<1>1. /\ UNCHANGED <<stVars, txVars, outVars>> /\ pc[p] = "idle"
      /\ pc'[p] = label /\ job'[p] = j
      /\ \A q \in Procs : q # p => pc'[q] = pc[q] /\ job'[q] = job[q]
  BY <1>0 DEF Start, GotoWith, ControlType, disk, stVars, txVars, outVars
<1>2. Core' /\ Knows(p)'
  BY <1>1, QuietExit DEF PubSection, Exceptional
<1>3. \A q \in Procs : q # p => Knows(q)'
  BY <1>1, QuietKnows DEF CrashInv, Knows
<1>4. PlansOwn'
  BY <1>1 DEF CrashInv, PlansOwn
<1>5. NoCutReset'
  <2>1. /\ budget'["kills"] = budget["kills"]
        /\ budget["resets"] = 0 => event # "resets" /\ budget'["resets"] = 0
    BY <1>0 DEF Start, Spend, EnvType, Events
  <2>2. Resets' = Resets
    BY <1>1, StateKept DEF stVars
  <2> QED BY <1>1, <2>1, <2>2 DEF CrashInv, NoCutReset
<1> QED BY <1>2, <1>3, <1>4, <1>5 DEF CrashInv

(* The start of any command keeps the crash invariant.                      *)
LEMMA StartingKeepsCrashInv ==
    ASSUME CrashInv, NEW p \in Procs, Starting(p)
    PROVE  CrashInv'
<1>0. EnvType /\ TypeInv'
  BY StartingKeepsTypeInv DEF CrashInv, TypeInv, TypeOK
<1>1. {"configures", "generates", "resets"} \subseteq Events \ {"kills"}
  BY DEF Events
<1>2. ASSUME NEW b \in Builds, NEW outs \in Plans, StartConfigure(p, b, outs)
      PROVE  CrashInv'
  <2> DEFINE j == [NoJob EXCEPT !.cmd = "configure", !.build = b, !.plan = Plan(b, outs)]
  <2>1. j.cmd = "configure" /\ j.build = b /\ j.plan.build = b
    BY DEF NoJob, Plan
  <2>2. \A c \in Builds : planFile'[c] # None => planFile'[c].build = c
    BY <1>0, <1>2 DEF StartConfigure, EnvType, CrashInv, PlansOwn, Plan
  <2> HIDE DEF j
  <2> QED BY <1>0, <1>1, <1>2, <2>1, <2>2, StartKeepsCrashInv DEF StartConfigure, j
<1>3. ASSUME NEW b \in Builds, StartRetire(p, b)
      PROVE  CrashInv'
  <2> DEFINE j == [NoJob EXCEPT !.cmd = "retire", !.build = b, !.plan = Plan(b, NoMap)]
  <2>1. j.cmd = "retire" /\ j.build = b /\ j.plan.build = b
    BY DEF NoJob, Plan
  <2>2. \A c \in Builds : planFile'[c] # None => planFile'[c].build = c
    BY <1>3 DEF StartRetire, CrashInv, PlansOwn
  <2> HIDE DEF j
  <2> QED BY <1>0, <1>1, <1>3, <2>1, <2>2, StartKeepsCrashInv DEF StartRetire, j
<1>4. ASSUME NEW b \in Builds, StartReset(p, b)
      PROVE  CrashInv'
  <2> DEFINE j == [NoJob EXCEPT !.cmd = "reset", !.build = st.claim.build, !.token = held[b]]
  <2>1. j.cmd = "reset" /\ j.plan = None
    BY DEF NoJob
  <2>2. \A c \in Builds : planFile'[c] # None => planFile'[c].build = c
    BY <1>4 DEF StartReset, CrashInv, PlansOwn
  <2> HIDE DEF j
  <2> QED BY <1>0, <1>1, <1>4, <2>1, <2>2, StartKeepsCrashInv DEF StartReset, j
<1>5. ASSUME NEW b \in Builds, NEW t \in Targets, StartGenerate(p, b, t)
      PROVE  CrashInv'
  <2> DEFINE j == [NoJob EXCEPT !.cmd = "generate", !.build = b, !.target = t]
  <2>1. j.cmd = "generate" /\ j.plan = None
    BY DEF NoJob
  <2>2. \A c \in Builds : planFile'[c] # None => planFile'[c].build = c
    BY <1>5 DEF StartGenerate, CrashInv, PlansOwn
  <2> HIDE DEF j
  <2> QED BY <1>0, <1>1, <1>5, <2>1, <2>2, StartKeepsCrashInv DEF StartGenerate, j
<1> QED BY <1>2, <1>3, <1>4, <1>5 DEF Starting

(* A command killed between two steps leaves what it wrote, synced or not:  *)
(* every label but those of a reset is one it may stop at, and there are no *)
(* resets where commands are killed.                                        *)
LEMMA KillKeepsCrashInv ==
    ASSUME CrashInv, TypeInv', NEW p \in Procs, Kill(p)
    PROVE  CrashInv'
<1>0. ControlType /\ EnvType /\ StateType
  BY DEF CrashInv, TypeInv, TypeOK
<1>1. /\ UNCHANGED <<stVars, txVars, outVars>> /\ pc'[p] = "idle" /\ Leave(p)
      /\ planFile' = planFile
      /\ \A q \in Procs : q # p => pc'[q] = pc[q] /\ job'[q] = job[q]
  BY <1>0 DEF Kill, Leave, ControlType, disk, stVars, txVars, outVars
<1>2. /\ budget["resets"] = 0 /\ Resets = {None} /\ budget'["resets"] = 0
      /\ \A q \in Procs : pc[q] # "idle" => job[q].cmd # "reset"
  BY <1>0 DEF Kill, Spend, CrashInv, NoCutReset, EnvType, Events
<1>3. Claims' = Claims /\ Snaps' = Snaps /\ PlansKept' = PlansKept /\ Resets' = Resets
  BY <1>1, StateKept DEF stVars
<1>4. st.reset = None
  BY <1>0, <1>2, StateSets
<1>5. pc[p] \notin {"unclaim_sync", "intent_sync", "scrub_sync"}
  BY <1>2, <1>4 DEF CrashInv, Knows, KnowsState, InReset
<1>6. Core'
  <2> USE DEF stVars, txVars, outVars
  <2>1. OneTxn' /\ TxnClaimed' /\ OneClaim' /\ Backed'
    BY <1>1, <1>3 DEF CrashInv, Core, OneTxn, TxnClaimed, OneClaim, Backed, MayExist
  <2>2. Unclaimed'
    BY <1>1, <1>3, <1>5 DEF CrashInv, Core, Unclaimed, Here
  <2>3. ResetsOK' /\ ResetSettled'
    BY <1>1, <1>2, <1>3, <1>4 DEF ResetsOK, ResetSettled
  <2>4. SnapsOK' /\ PendOK'
    BY <1>1, <1>3 DEF CrashInv, Core, SnapsOK, Behind, DurablePend, PendOK, PendSafe,
       Authorized, MayExist
  <2>5. \A n, o : OutputSafe(n, o) => OutputSafe(n, o)'
    BY <1>1 DEF OutputSafe, Durable, RestorableBy
  <2>6. OutputsOK' /\ LinksOK'
    BY <1>1, <1>3, <2>5 DEF CrashInv, Core, OutputsOK, LinksOK
  <2> QED BY <2>1, <2>2, <2>3, <2>4, <2>6 DEF Core
<1>7. Knows(p)'
  BY <1>1, KnowsNothing DEF PubSection
<1>8. \A q \in Procs : q # p => Knows(q)'
  BY <1>1, QuietKnows DEF CrashInv, Knows
<1>9. PlansOwn' /\ NoCutReset'
  BY <1>1, <1>2, <1>3 DEF CrashInv, PlansOwn, NoCutReset
<1> QED BY <1>6, <1>7, <1>8, <1>9 DEF CrashInv

(* The death of a parent alone changes no file, and nobody's place.         *)
LEMMA StillKeepsCrashInv ==
    ASSUME CrashInv, TypeInv', UNCHANGED <<pc, job, stVars, txVars, outVars, planFile>>,
           budget'["kills"] = budget["kills"], budget'["resets"] = budget["resets"]
    PROVE  CrashInv'
<1>1. Core'
  BY QuietCore DEF CrashInv, Here
<1>2. \A q \in Procs : Knows(q)'
  BY QuietKnows DEF CrashInv, Knows
<1>3. PlansOwn' /\ NoCutReset'
  BY StateKept DEF CrashInv, PlansOwn, NoCutReset, stVars
<1> QED BY <1>1, <1>2, <1>3 DEF CrashInv

(* Of each transaction a loss of power leaves one of its versions.          *)
LEMMA PowerLossNarrows ==
    ASSUME TxType, PowerLoss
    PROVE  Narrowing /\ \A x \in Txns : txOld'[x].pend = {tx'[x].pend}
<1>1. PICK r \in [Txns -> UNION {TxSurvivors(x) : x \in Txns}] :
         /\ \A x \in Txns : r[x] \in TxSurvivors(x)
         /\ tx' = r /\ txOld' = [x \in Txns |-> Survived(r[x])]
  BY DEF PowerLoss
<1>2. ASSUME NEW x \in Txns
      PROVE  /\ txOld'[x].pend = {tx'[x].pend}
             /\ MayExist(x)' \/ FALSE \notin txOld[x].ent => Narrowed(x)
  <2>1. txOld'[x] = Survived(r[x]) /\ tx'[x] = r[x] /\ txOld[x] \in TxOldRecords
    BY <1>1 DEF TxType
  <2>2. txOld'[x].pend = {tx'[x].pend}
    BY <2>1 DEF Survived
  <2>3. ASSUME MayExist(x)' \/ FALSE \notin txOld[x].ent
        PROVE  Narrowed(x)
    <3>1. PICK e \in txOld[x].ent, d \in txOld[x].pend, y \in txOld[x].pay :
             r[x] = IF e THEN [ent |-> TRUE, pend |-> d, pay |-> y] ELSE NoTx
      BY <1>1 DEF TxSurvivors
    <3>2. e \in BOOLEAN
      BY <2>1 DEF TxOldRecords
    <3>3. CASE e = TRUE
      <4>1. r[x] = [ent |-> TRUE, pend |-> d, pay |-> y]
        BY <3>1, <3>3
      <4>2. txOld'[x].ent = {TRUE} /\ txOld'[x].pend = {d} /\ txOld'[x].pay = {y}
        BY <2>1, <4>1 DEF Survived
      <4>3. txOld'[x].ent \subseteq txOld[x].ent
        BY <3>3, <4>2
      <4> QED BY <4>2, <4>3 DEF Narrowed
    <3>4. CASE e = FALSE
      <4>1. r[x] = NoTx
        BY <3>1, <3>4
      <4>2. txOld'[x].ent = {FALSE}
        BY <2>1, <4>1 DEF Survived, NoTx
      <4> QED BY <2>3, <3>1, <3>4, <4>2 DEF MayExist
    <3> QED BY <3>2, <3>3, <3>4
  <2> QED BY <2>2, <2>3
<1> QED BY <1>2 DEF Narrowing

(* A loss of power takes versions away and stops everybody.                 *)
LEMMA PowerLossKeepsCrashInv ==
    ASSUME CrashInv, PowerLoss
    PROVE  CrashInv'
<1>0. StateType /\ TxType /\ OutType /\ EnvType /\ TypeInv'
  BY PowerLossKeepsTypeInv DEF CrashInv, TypeInv, TypeOK
<1>1. /\ stOld' = {st'} /\ st'.claim \in Claims /\ st'.snapshot \in Snaps
      /\ st'.plan \in PlansKept /\ st'.reset \in Resets
  <2>1. PICK s \in StateSurvivors : st' = s /\ stOld' = {s}
    BY DEF PowerLoss
  <2> QED BY <1>0, <2>1, SurvivorSets
<1>3. Narrowing /\ \A x \in Txns : txOld'[x].pend = {tx'[x].pend}
  BY <1>0, PowerLossNarrows
<1>4. /\ \A o \in Paths : outOld'[o] \subseteq outOld[o]
      /\ \A o \in Paths : outOld'[o] = {out'[o]}
  BY DEF PowerLoss
<1>5. Core'
  BY <1>0, <1>1, <1>3, <1>4, NarrowCore DEF PowerLoss, TypeInv, TypeOK, Narrowing
<1>6. \A p \in Procs : pc'[p] = "idle" /\ job'[p] = NoJob
  BY DEF PowerLoss
<1>7. \A p \in Procs : Knows(p)'
  BY <1>6, KnowsNothing DEF PubSection
<1>8. PlansOwn'
  BY <1>6 DEF PowerLoss, CrashInv, PlansOwn
<1>9. NoCutReset'
  <2>1. budget'["kills"] = budget["kills"] /\ budget'["resets"] = budget["resets"]
    BY <1>0 DEF PowerLoss, Spend, EnvType, Events
  <2>2. Resets = {None} => Resets' = {None}
    BY <1>1, StateSynced
  <2> QED BY <1>6, <2>1, <2>2 DEF CrashInv, NoCutReset
<1> QED BY <1>0, <1>5, <1>7, <1>8, <1>9 DEF CrashInv

(* What the user does to an output is durable at once: it changes nothing   *)
(* anyone relies on but of outputs that are the user's from then on.        *)
LEMMA EditKeepsCrashInv ==
    ASSUME CrashInv, TypeInv', NEW changes, UserSets(changes), touched \subseteq touched',
           \A q \in Paths : q \notin touched' =>
              /\ Bytes(out'[q]) = Bytes(out[q])
              /\ \A bytes : Durable(q, bytes) => Durable(q, bytes)',
           LinksOK'
    PROVE  CrashInv'
<1>0. StateType /\ EnvType /\ Core
  BY DEF CrashInv, TypeInv, TypeOK
<1>1. UNCHANGED <<pc, job, st, stOld, tx, txOld, planFile>>
  BY DEF UserSets, stVars, txVars
<1>2. Claims' = Claims /\ Snaps' = Snaps /\ PlansKept' = PlansKept /\ Resets' = Resets
  BY <1>1, StateKept
<1>3. Core'
  <2>1. OneTxn' /\ TxnClaimed' /\ OneClaim' /\ Backed'
    BY <1>0, <1>1, <1>2 DEF Core, OneTxn, TxnClaimed, OneClaim, Backed, MayExist
  <2>2. Unclaimed' /\ ResetsOK' /\ ResetSettled'
    BY <1>0, <1>1, <1>2 DEF Core, Unclaimed, ResetsOK, ResetSettled, Here
  <2>3. SnapsOK' /\ PendOK'
    <3>1. SnapsOK'
      BY <1>0, <1>1, <1>2 DEF Core, SnapsOK, Behind, DurablePend
    <3>2. PendOK'
      BY <1>0, <1>1, <1>2 DEF Core, PendOK, PendSafe, Authorized, MayExist
    <3> QED BY <3>1, <3>2
  <2>4. OutputsOK'
    <3> SUFFICES ASSUME None \in Resets, NEW c \in Claims, NEW n \in Snaps, c # None,
                        NEW o \in DOMAIN n.entries, o \notin touched'
                 PROVE  OutputSafe(n, o)'
      BY <1>2 DEF OutputsOK
    <3>1. n \in Snapshots
      BY <1>0, StateSets DEF Core, Backed, OrNone
    <3>2. o \in Paths
      BY <3>1, EntriesElim DEF Snapshots
    <3>3. OutputSafe(n, o)
      BY <1>0 DEF Core, OutputsOK
    <3>4. \A x \in Txns : RestorableBy(x, o, n.gen) => RestorableBy(x, o, n.gen)'
      BY <1>1 DEF RestorableBy
    <3> QED BY <3>2, <3>3, <3>4 DEF OutputSafe
  <2> QED BY <2>1, <2>2, <2>3, <2>4 DEF Core
<1>4. ASSUME NEW p \in Procs  PROVE Knows(p)'
  <2>p. PICK label, j, pd : label = pc[p] /\ j = job[p] /\ pd = tx[j.txn].pend
    OBVIOUS
  <2>0. /\ KnowsState(label, j) /\ KnowsTxn(label, j) /\ KnowsOut(label, j)
        /\ LocalOK(label, j) /\ DiskOK(label, j, st, tx) /\ j \in JobRecords
    BY <2>p DEF CrashInv, Knows, TypeInv, TypeOK, ControlType, Shape
  <2>1. KnowsState(label, j)'
    BY <1>1, <1>2, <2>0 DEF KnowsState
  <2>2. KnowsTxn(label, j)'
    BY <1>1, <1>2, <2>0 DEF KnowsTxn, Pendings, MayExist, DurablePend, DraftOK, ValidNow
  <2>3. Applied(label, j) => Done(pd, j)'
    <3> SUFFICES ASSUME Applied(label, j)  PROVE Done(pd, j)'
      OBVIOUS
    <3>1. j.txn \in Txns /\ pd \in PendingRecords
      BY <2>p, <2>0 DEF Applied, LocalOK, DiskOK, WithTxn, Committing, Replaying
    <3>2. pd.entries \in Operations
      BY <3>1 DEF PendingRecords
    <3>3. \A o \in DOMAIN pd.entries : o \in Paths /\ pd.entries[o] \in OpRecords
      BY <3>2, MapElim DEF Operations
    <3>4. \A o \in DOMAIN pd.entries : pd.entries[o].transfer # None =>
             pd.entries[o].transfer.path \in Paths
      BY <3>3 DEF OpRecords, OrNone
    <3>5. Done(pd, j)
      BY <2>p, <2>0 DEF KnowsOut
    <3> QED BY <3>3, <3>4, <3>5 DEF Done
  <2>4. label = "out_sync" /\ j.txn # None =>
           j.cur \in touched' \/ Bytes(out'[j.cur]) = j.ops[j.cur].after
    <3> SUFFICES ASSUME label = "out_sync", j.txn # None, j.cur \notin touched'
                 PROVE  Bytes(out'[j.cur]) = j.ops[j.cur].after
      OBVIOUS
    <3>1. j.cur \in DOMAIN j.ops /\ j.ops \in Operations
      BY <2>0 DEF LocalOK, JobRecords
    <3>2. j.cur \in Paths
      BY <3>1, MapElim DEF Operations
    <3> QED BY <2>0, <3>2 DEF KnowsOut
  <2>5. (label = "snap" => DOMAIN j.ops = {}) /\ (st'.reset = None => KnowsPlan(label, j)')
    BY <1>1, <2>0 DEF KnowsOut, KnowsPlan, Within, Leads
  <2>6. KnowsOut(label, j)'
    BY <1>1, <2>p, <2>3, <2>4, <2>5 DEF KnowsOut
  <2> QED BY <1>1, <2>p, <2>1, <2>2, <2>6 DEF Knows
<1>5. PlansOwn'
  BY <1>1 DEF CrashInv, PlansOwn
<1>6. NoCutReset'
  <2>1. budget'["kills"] = budget["kills"] /\ budget'["resets"] = budget["resets"]
    BY <1>0 DEF UserSets, Spend, EnvType, Events
  <2> QED BY <1>1, <1>2, <2>1 DEF CrashInv, NoCutReset
<1> QED BY <1>3, <1>4, <1>5, <1>6 DEF CrashInv

(* Whatever the user does keeps the crash invariant.                        *)
LEMMA UserStepKeepsCrashInv ==
    ASSUME CrashInv, UserStep
    PROVE  CrashInv'
<1>0. OutType /\ LinksOK /\ TypeInv'
  BY UserStepKeepsTypeInv DEF CrashInv, TypeInv, TypeOK, Core
<1>1. ASSUME NEW o \in Paths, NEW cell, UserSets([q \in {o} |-> cell]),
             touched' = touched \cup {o}, cell # None => cell.inode = o
      PROVE  CrashInv'
  <2>1. /\ out' = [q \in Paths |-> IF q = o THEN cell ELSE out[q]]
        /\ outOld' = [q \in Paths |-> IF q = o THEN {cell} ELSE outOld[q]]
    BY <1>1 DEF UserSets
  <2>2. LinksOK'
    BY <1>0, <1>1, <2>1 DEF LinksOK
  <2>3. \A q \in Paths : q \notin touched' =>
              /\ Bytes(out'[q]) = Bytes(out[q])
              /\ \A bytes : Durable(q, bytes) => Durable(q, bytes)'
    BY <1>1, <2>1 DEF Durable
  <2> QED BY <1>0, <1>1, <2>2, <2>3, EditKeepsCrashInv
<1>2. ASSUME NEW o \in Paths, UserWrites(o)  PROVE CrashInv'
  BY <1>1, <1>2 DEF UserWrites, Cell
<1>3. ASSUME NEW o \in Paths, UserDeletes(o)  PROVE CrashInv'
  BY <1>1, <1>3 DEF UserDeletes
<1>4. ASSUME NEW o \in Paths, NEW d \in Paths, UserLinks(o, d)  PROVE CrashInv'
  <2>p. PICK cell : cell = Cell(out[o].bytes, Shared)
    OBVIOUS
  <2>0. out[o] \in outOld[o] /\ out[o] # None /\ touched' = touched \cup {d}
    BY <1>0, <1>4 DEF UserLinks, OutType
  <2>1. /\ out' = [q \in Paths |-> IF q \in {o, d} THEN cell ELSE out[q]]
        /\ outOld' = [q \in Paths |-> IF q \in {o, d} THEN {cell} ELSE outOld[q]]
    BY <1>4, <2>p DEF UserLinks, UserSets
  <2>2. cell.inode = Shared /\ cell.bytes = out[o].bytes /\ cell # None
    <3>1. cell \in [bytes : Contents \cup {Foreign}, inode : Inodes]
      BY <1>0, <2>0, <2>p DEF OutType, Cells, OrNone, Cell, Inodes
    <3> QED BY <2>p, <3>1, NoneIsNoRecord DEF Cell
  <2>3. LinksOK'
    BY <1>0, <2>1, <2>2 DEF LinksOK
  <2>4. \A q \in Paths : q \notin touched' =>
              /\ Bytes(out'[q]) = Bytes(out[q])
              /\ \A bytes : Durable(q, bytes) => Durable(q, bytes)'
    BY <2>0, <2>1, <2>2 DEF Durable, Bytes
  <2>5. UserSets([q \in {o, d} |-> cell]) /\ touched \subseteq touched'
    BY <1>4, <2>p, <2>0 DEF UserLinks
  <2> QED BY <1>0, <2>3, <2>4, <2>5, EditKeepsCrashInv
<1> QED BY <1>2, <1>3, <1>4 DEF UserStep

(* The crash invariant holds at the start, *)
LEMMA CrashInvInit ==
    ASSUME NoKilledReset, Init
    PROVE  CrashInv
<1>1. TypeInv
  BY TypeInvInit
<1>2. /\ st = EmptyState /\ stOld = {EmptyState} /\ \A p \in Procs : pc[p] = "idle"
      /\ budget \in Budgets
  BY DEF Init
<1>3. /\ Claims = {None} /\ Snaps = {None} /\ PlansKept = {None} /\ Resets = {None}
      /\ st.claim = None /\ st.snapshot = None /\ st.reset = None
  BY <1>2 DEF Claims, Snaps, PlansKept, Resets, EmptyState
<1>4. \A x \in Txns : ~MayExist(x)
  BY DEF Init, MayExist, NoTxOld
<1>5. Core
  <2>1. OneTxn /\ TxnClaimed /\ OneClaim /\ Backed /\ Unclaimed
    BY <1>3, <1>4 DEF OneTxn, TxnClaimed, OneClaim, Backed, Unclaimed
  <2>2. SnapsOK /\ ResetsOK /\ ResetSettled /\ PendOK /\ OutputsOK
    BY <1>3, <1>4 DEF SnapsOK, ResetsOK, ResetSettled, PendOK, OutputsOK
  <2>3. LinksOK
    BY DEF Init, LinksOK
  <2> QED BY <2>1, <2>2, <2>3 DEF Core
<1>6. ASSUME NEW p \in Procs  PROVE Knows(p)
  BY <1>2 DEF Knows, KnowsState, KnowsTxn, KnowsOut, KnowsPlan, Applied, Purging, AtOutput, Committing,
   PubSection, Unpublished, SnapSure, NoTxns, InReset
<1>7. PlansOwn
  BY <1>2 DEF Init, PlansOwn
<1>8. NoCutReset
  BY <1>2, <1>3 DEF NoCutReset, NoKilledReset
<1> QED BY <1>1, <1>5, <1>6, <1>7, <1>8 DEF CrashInv

(* and every step keeps it.                                                 *)
LEMMA CrashInvNext ==
    ASSUME CrashInv, [Next]_vars
    PROVE  CrashInv'
<1>0. EnvType /\ TypeInv'
  BY TypeInvNext DEF CrashInv, TypeInv, TypeOK
<1>1. ASSUME NEW p \in Procs, ParentDies(p)  PROVE CrashInv'
  <2>1. budget'["kills"] = budget["kills"] /\ budget'["resets"] = budget["resets"]
    BY <1>0, <1>1 DEF ParentDies, Spend, EnvType, Events
  <2> QED BY <1>0, <1>1, <2>1, StillKeepsCrashInv DEF ParentDies, disk, stVars, txVars, outVars
<1>2. CASE UNCHANGED vars
  BY <1>0, <1>2, StillKeepsCrashInv DEF vars, disk, env, stVars, txVars, outVars
<1>3. ASSUME NEW p \in Procs, Kill(p)  PROVE CrashInv'
  BY <1>0, <1>3, KillKeepsCrashInv
<1> QED BY <1>1, <1>2, <1>3, StartingKeepsCrashInv, StepKeepsCrashInv, PowerLossKeepsCrashInv,
       UserStepKeepsCrashInv DEF Next, AtRest

---------------------------------------------------------------------------
(* The theorems *)

(* The crash invariant holds in every behaviour. *)
THEOREM CrashInvariant ==
    ASSUME NoKilledReset
    PROVE  Spec => []CrashInv
<1>1. Init => CrashInv
  BY CrashInvInit
<1>2. CrashInv /\ [Next]_vars => CrashInv'
  BY CrashInvNext
<1> QED BY <1>1, <1>2, PTL DEF Spec

(* A transaction that a loss may leave with a pending.json.                 *)
LEMMA MayBePendingSets ==
    ASSUME TxType, NEW x \in Txns, NEW r \in MayBePending(x)
    PROVE  MayExist(x) /\ r.pend \in txOld[x].pend /\ r.pay \in txOld[x].pay /\ r.pend # None
<1>1. r \in TxSurvivors(x) /\ r.pend # None
  BY DEF MayBePending
<1>2. PICK e \in txOld[x].ent, d \in txOld[x].pend, y \in txOld[x].pay :
         r = IF e THEN [ent |-> TRUE, pend |-> d, pay |-> y] ELSE NoTx
  BY <1>1 DEF TxSurvivors
<1>3. e \in BOOLEAN
  BY DEF TxType, TxOldRecords
<1>4. CASE e = TRUE
  BY <1>1, <1>2, <1>4 DEF MayExist
<1>5. CASE e = FALSE
  BY <1>1, <1>2, <1>5 DEF NoTx
<1> QED BY <1>3, <1>4, <1>5

(* The claim that survives a loss of power has its committed snapshot, with *)
(* its token: _initialize_claim_locked and _release_claim write and unlink  *)
(* in an order that never leaves a claim no command could load.             *)
THEOREM ClaimIsBacked ==
    ASSUME NoKilledReset
    PROVE  Spec => []ClaimBacked
<1>1. CrashInv => ClaimBacked
  BY SurvivorSets DEF CrashInv, TypeInv, TypeOK, Core, Backed, ClaimBacked
<1> QED BY <1>1, CrashInvariant, PTL

(* A committed output the user left alone survives a loss of power with its *)
(* committed bytes, or with the pending transaction that restores it: the   *)
(* fsync order of publish, recovery and reset is enough on every file       *)
(* system, reordering or not.                                               *)
THEOREM CommittedSurvives ==
    ASSUME NoKilledReset
    PROVE  Spec => []CommittedIsDurable
<1>1. ASSUME CrashInv  PROVE CommittedIsDurable
  <2>0. StateType /\ TxType /\ OutputsOK
    BY <1>1 DEF CrashInv, TypeInv, TypeOK, Core
  <2>1. ASSUME NEW x \in Txns, NEW o, NEW gen, RestorableBy(x, o, gen)
        PROVE  Restorable(o, gen)
    <3>1. \A r \in TxSurvivors(x) : r.pend \in txOld[x].pend
      <4> TAKE r \in TxSurvivors(x)
      <4>1. PICK e \in txOld[x].ent, d \in txOld[x].pend, y \in txOld[x].pay :
               r = IF e THEN [ent |-> TRUE, pend |-> d, pay |-> y] ELSE NoTx
        BY DEF TxSurvivors
      <4>2. e = TRUE
        BY <2>0, <2>1 DEF RestorableBy, TxType, TxOldRecords
      <4> QED BY <4>1, <4>2
    <3> QED BY <2>1, <3>1 DEF RestorableBy, Restorable
  <2> SUFFICES ASSUME NEW s \in StateSurvivors, s.claim # None, s.reset = None,
                      NEW o \in DOMAIN s.snapshot.entries \ touched
               PROVE  \/ \A c \in outOld[o] : Bytes(c) = s.snapshot.entries[o].hash
                      \/ Restorable(o, s.snapshot.gen)
    BY DEF CommittedIsDurable
  <2>2. OutputSafe(s.snapshot, o)
    BY <2>0, SurvivorSets DEF OutputsOK
  <2> QED BY <2>1, <2>2 DEF OutputSafe, Durable
<1> QED BY <1>1, CrashInvariant, PTL

(* A reset deletes an output only once a loss of power could no longer hide *)
(* its intent (_release_claim writes and syncs reset.json first).           *)
THEOREM PurgeIsAnnounced ==
    ASSUME NoKilledReset
    PROVE  Spec => []IntentBeforePurge
<1>1. ASSUME CrashInv  PROVE IntentBeforePurge
  <2>1. StateType /\ \A p \in Procs : KnowsState(pc[p], job[p])
    BY <1>1 DEF CrashInv, TypeInv, TypeOK, Knows
  <2> QED BY <2>1, SurvivorSets DEF KnowsState, Purging, AtOutput, IntentBeforePurge
<1> QED BY <1>1, CrashInvariant, PTL

(* What a loss of power leaves of a publication can be rolled forward, with *)
(* its payloads, from the claim and snapshot it leaves; and it leaves only  *)
(* one, which _recover would otherwise refuse for ever.                     *)
THEOREM PendingIsSound ==
    ASSUME NoKilledReset
    PROVE  Spec => []PendingSound
<1>1. ASSUME CrashInv  PROVE PendingReplayable
  <2>0. StateType /\ TxType /\ PendOK
    BY <1>1 DEF CrashInv, TypeInv, TypeOK, Core
  <2> SUFFICES ASSUME NEW x \in Txns, NEW r \in MayBePending(x), NEW s \in StateSurvivors,
                      s.claim # None
               PROVE  /\ r.pend.snap.token = s.claim.token
                      /\ \/ s.snapshot = r.pend.snap
                         \/ /\ s.snapshot.gen = r.pend.base
                            /\ \A o \in DOMAIN r.pend.entries :
                                  LET op == r.pend.entries[o] IN
                                  /\ op.before = HashIn(s.snapshot.entries, o)
                                  /\ op.after # None =>
                                        o \in DOMAIN r.pay /\ r.pay[o] = op.after
    BY DEF PendingReplayable
  <2>1. /\ MayExist(x) /\ r.pend \in txOld[x].pend /\ r.pay \in txOld[x].pay
        /\ r.pend # None
    BY <2>0, MayBePendingSets
  <2>2. PendSafe(x, r.pend)
    BY <2>0, <2>1 DEF PendOK
  <2>3. s.claim \in Claims /\ s.snapshot \in Snaps
    BY <2>0, SurvivorSets
  <2> QED BY <2>1, <2>2, <2>3 DEF PendSafe, Follows
<1>2. ASSUME CrashInv  PROVE OnePending
  BY <1>2, MayBePendingSets DEF CrashInv, TypeInv, TypeOK, Core, OneTxn, OnePending
<1> QED BY <1>1, <1>2, CrashInvariant, PTL DEF PendingSound

(* An uncommitted publication that survives is authorized by the plan that  *)
(* survives with it: a stale build or a reconfiguration never slips one     *)
(* past _require_current_plan, whenever the power goes.                     *)
THEOREM PublicationIsAuthorized ==
    ASSUME NoKilledReset
    PROVE  Spec => []PublicationAuthorized
<1>1. ASSUME CrashInv  PROVE PublicationAuthorized
  <2>0. StateType /\ TxType /\ PendOK
    BY <1>1 DEF CrashInv, TypeInv, TypeOK, Core
  <2> SUFFICES ASSUME NEW x \in Txns, NEW r \in MayBePending(x), NEW s \in StateSurvivors,
                      s.snapshot.gen = r.pend.base,
                      \E o \in DOMAIN r.pend.entries : r.pend.entries[o].after # None
               PROVE  s.plan = r.pend.plan
    BY DEF PublicationAuthorized
  <2>1. MayExist(x) /\ r.pend \in txOld[x].pend /\ r.pend # None
    BY <2>0, MayBePendingSets
  <2>2. PendSafe(x, r.pend)
    BY <2>0, <2>1 DEF PendOK
  <2>3. s.snapshot \in Snaps /\ s.plan \in PlansKept
    BY <2>0, SurvivorSets
  <2> QED BY <2>2, <2>3 DEF PendSafe, Authorized, Publishes
<1> QED BY <1>1, CrashInvariant, PTL

(* So a publication whose parent or process died is still one that its plan *)
(* allows and that the next command can complete.                           *)
THEOREM PublicationIsSafe ==
    ASSUME NoKilledReset
    PROVE  Spec => []PublicationSafe
BY PendingIsSound, PublicationIsAuthorized, PTL DEF PublicationSafe, PendingSound

---------------------------------------------------------------------------
(* The user's bytes *)

(* The coordinator only ever writes generated bytes, so what the user wrote *)
(* has no other version; and it acts on an output only after it saw         *)
(* something else there.                                                    *)
UserInv ==
    /\ \A o \in Paths : Bytes(out[o]) = Foreign => Durable(o, Foreign)
    /\ \A p \in Procs : pc[p] = "act" => job[p].obs # Foreign

(* Only _publish_one and _delete_if_state touch the outputs.                *)
LEMMA StepOnOutputs ==
    ASSUME NEW p \in Procs, Step(p)
    PROVE  ActOnOutput(p) \/ SyncOutput(p) \/ (out' = out /\ outOld' = outOld)
<1> USE DEF disk, outVars
<1>1. CASE Locking(p)
  BY <1>1 DEF Locking, AcquireRegistry, AcquireGeneration, SpawnChild, AcquirePublication
<1>2. CASE Claiming(p)
  BY <1>2 DEF Claiming, ValidateRegistry, WipeFile, WipeSync, LoadClaim, Released,
     InitSnapshot, InitClaim, SyncState
<1>3. CASE Recovering(p)
  BY <1>3 DEF Recovering, Recover, Drop, DropSync, Sweep, Recovered
<1>4. CASE Applying(p)
  BY <1>4 DEF Applying, WritePending, SyncPending, ApplyPending, CheckOutput, OutputsDone,
     CommitSnapshot
<1>5. CASE Generating(p)
  BY <1>5 DEF Generating, Validated, RebuildStaging, Protoc, Prepare,
     CopyPayload, SyncPayloads, Verify, CheckPublished, DiscardStaging
<1>6. CASE Configuring(p)
  BY <1>6 DEF Configuring, RetireUnplanned, RemoveStaging, SyncStaging, WritePlan,
     ReturnToken, StoreToken
<1>7. CASE Resetting(p)
  BY <1>7 DEF Resetting, WriteResetIntent, ResumeReset, Purge, RemoveDisposable,
     Unclaim, Scrub, RemoveState
<1> QED BY <1>1, <1>2, <1>3, <1>4, <1>5, <1>6, <1>7 DEF Step

(* A command gets to act on an output only by looking at it.                *)
LEMMA ActAfterLook ==
    ASSUME TypeInv, NEW p \in Procs, Step(p), pc'[p] = "act"
    PROVE  CheckOutput(p)
<1>0. pc \in [Procs -> Labels] /\ LocalOK(pc[p], job[p])
  BY DEF TypeInv, TypeOK, ControlType, Shape
<1> USE <1>0 DEF Goto, GotoWith, Leave, Answer, Require
<1>1. CASE Locking(p)
  BY <1>1 DEF Locking, AcquireRegistry, AcquireGeneration, SpawnChild, AcquirePublication
<1>2. CASE Claiming(p)
  <2>1. CASE SyncState(p)
    BY <2>1 DEF SyncState, AfterSync
  <2> QED BY <1>2, <2>1 DEF Claiming, ValidateRegistry, WipeFile, WipeSync, LoadClaim, Released,
       InitSnapshot, InitClaim
<1>3. CASE Recovering(p)
  <2>1. CASE DropSync(p)
    BY <2>1 DEF DropSync, LocalOK, Committing, Results
  <2>2. CASE Recovered(p)
    BY <2>2 DEF Recovered, Proceed
  <2> QED BY <1>3, <2>1, <2>2 DEF Recovering, Recover, Drop, Sweep
<1>4. CASE Applying(p)
  BY <1>4 DEF Applying, WritePending, SyncPending, ApplyPending, ActOnOutput, SyncOutput,
     OutputsDone, CommitSnapshot
<1>5. CASE Generating(p)
  BY <1>5 DEF Generating, Validated, RebuildStaging, Protoc, Prepare,
     CopyPayload, SyncPayloads, Verify, CheckPublished, DiscardStaging
<1>6. CASE Configuring(p)
  BY <1>6 DEF Configuring, RetireUnplanned, RemoveStaging, SyncStaging, WritePlan,
     ReturnToken, StoreToken
<1>7. CASE Resetting(p)
  BY <1>7 DEF Resetting, WriteResetIntent, ResumeReset, Purge, RemoveDisposable,
     Unclaim, Scrub, RemoveState
<1> QED BY <1>1, <1>2, <1>3, <1>4, <1>5, <1>6, <1>7 DEF Step

(* The operation at hand is one of the kind the coordinator writes.         *)
LEMMA OpAtHand ==
    ASSUME TypeInv, NEW p \in Procs, NEW o \in DOMAIN job[p].ops
    PROVE  o \in Paths /\ job[p].ops[o] \in OpRecords
BY MapElim DEF TypeInv, TypeOK, ControlType, JobRecords, Operations

(* Every step of a command keeps what protects the user's bytes.            *)
LEMMA StepKeepsUserInv ==
    ASSUME TypeInv, UserInv, NEW p \in Procs, Step(p)
    PROVE  UserInv'
<1>0. /\ ControlType /\ OutType /\ LocalOK(pc[p], job[p]) /\ job[p] \in JobRecords
      /\ Foreign \notin Contents \cup {None}
  BY NoneAssumption DEF TypeInv, TypeOK, ControlType, Shape
<1>1. ASSUME NEW o \in Paths, Bytes(out'[o]) = Foreign
      PROVE  Durable(o, Foreign)'
  <2>1. CASE out' = out /\ outOld' = outOld
    BY <1>1, <2>1 DEF UserInv, Durable
  <2>2. CASE ActOnOutput(p)
    <3>p. PICK c, after : c = job[p].cur /\ after = job[p].ops[c].after
      OBVIOUS
    <3>1. /\ out' = [out EXCEPT ![c] = IF after = None THEN None ELSE Cell(after, c)]
          /\ \A q \in Paths : q # c => outOld'[q] = outOld[q]
      BY <1>0, <2>2, <3>p DEF ActOnOutput, WriteOut, OutType
    <3>2. job[p].ops[c] \in OpRecords
      BY <1>0, <2>2, <3>p, OpAtHand DEF ActOnOutput, LocalOK
    <3>3. after # Foreign
      BY <1>0, <3>2, <3>p DEF OpRecords
    <3>4. o # c
      BY <1>0, <1>1, <3>1, <3>3 DEF OutType, Bytes, Cell
    <3> QED BY <1>0, <1>1, <3>1, <3>4 DEF UserInv, Durable, OutType
  <2>3. CASE SyncOutput(p)
    BY <1>0, <1>1, <2>3 DEF SyncOutput, SyncOut, UserInv, Durable, OutType
  <2> QED BY <2>1, <2>2, <2>3, StepOnOutputs
<1>2. ASSUME NEW q \in Procs, pc'[q] = "act"
      PROVE  job'[q].obs # Foreign
  <2>1. CASE q # p
    BY <1>0, <1>2, <2>1, StepFrame DEF Frame, UserInv
  <2>2. CASE q = p
    <3>1. CheckOutput(p)
      BY <1>2, <2>2, ActAfterLook
    <3>2. PICK o \in DOMAIN job[p].ops :
             /\ Replaceable(job[p].ops[o], out[o])
             /\ GotoWith(p, "act", [job[p] EXCEPT !.cur = o, !.obs = Bytes(out[o])])
      BY <1>0, <1>2, <2>2, <3>1 DEF CheckOutput, GotoWith, Leave, ControlType
    <3>3. job[p].ops[o].before \in Contents \cup {None}
      BY OpAtHand DEF OpRecords, OrNone
    <3>4. job'[p].obs = Bytes(out[o])
      BY <1>0, <3>2 DEF GotoWith, ControlType, JobRecords
    <3> QED BY <1>0, <2>2, <3>2, <3>3, <3>4 DEF Replaceable, Bytes
  <2> QED BY <2>1, <2>2
<1> QED BY <1>1, <1>2 DEF UserInv

(* So does everything else that can happen.                                 *)
LEMMA UserInvNext ==
    ASSUME TypeInv, UserInv, [Next]_vars
    PROVE  UserInv'
<1>0. ControlType /\ OutType
  BY DEF TypeInv, TypeOK
<1>1. ASSUME NEW p \in Procs, Starting(p)  PROVE UserInv'
  <2>1. ASSUME NEW event, NEW label \in {"reg", "gen"}, NEW j, Start(p, event, label, j)
        PROVE  UserInv'
    BY <1>0, <2>1 DEF Start, GotoWith, disk, UserInv, Durable, ControlType
  <2> QED BY <1>1, <2>1 DEF Starting, StartConfigure, StartRetire, StartGenerate, StartReset
<1>2. ASSUME NEW p \in Procs, Step(p)  PROVE UserInv'
  BY <1>2, StepKeepsUserInv
<1>3. ASSUME NEW p \in Procs, Kill(p)  PROVE UserInv'
  BY <1>0, <1>3 DEF Kill, Leave, disk, UserInv, Durable, ControlType
<1>4. ASSUME NEW p \in Procs, ParentDies(p)  PROVE UserInv'
  BY <1>4 DEF ParentDies, disk, UserInv, Durable
<1>5. CASE PowerLoss
  <2>1. \A o \in Paths : outOld'[o] = {out'[o]}
    BY <1>5 DEF PowerLoss
  <2>2. \A p \in Procs : pc'[p] = "idle"
    BY <1>5 DEF PowerLoss
  <2> QED BY <2>1, <2>2 DEF UserInv, Durable
<1>6. CASE UserStep
  <2>1. ASSUME NEW changes, UserSets(changes)
        PROVE  UserInv'
    BY <2>1 DEF UserSets, UserInv, Durable
  <2> QED BY <1>6, <2>1 DEF UserStep, UserWrites, UserDeletes, UserLinks
<1>7. CASE UNCHANGED vars
  BY <1>7 DEF vars, disk, UserInv, Durable
<1> QED BY <1>1, <1>2, <1>3, <1>4, <1>5, <1>6, <1>7 DEF Next, AtRest

(* Bytes the user wrote are replaced or deleted by a command only if they   *)
(* came after that command looked at the file, and never by a loss of power *)
(* (_publish_one and _delete_if_state refuse what they do not know).        *)
THEOREM UserBytesAreKept == Spec => UserBytesKept
<1> DEFINE Inv == TypeInv /\ UserInv
           Kept == \A o \in Paths : Bytes(out[o]) = Foreign /\ Bytes(out'[o]) # Foreign =>
                      \/ budget'.edits < budget.edits
                      \/ \E p \in Procs : /\ pc[p] = "act" /\ job[p].cur = o
                                          /\ job[p].obs # Foreign
<1>1. Init => Inv
  <2> SUFFICES ASSUME Init  PROVE Inv
    OBVIOUS
  <2>1. UserInv
    BY NoneAssumption DEF Init, UserInv, Bytes
  <2> QED BY <2>1, TypeInvInit
<1>2. Inv /\ [Next]_vars => Inv'
  BY TypeInvNext, UserInvNext
<1>3. Inv /\ [Next]_vars => [Kept]_vars
  <2> SUFFICES ASSUME Inv, Next, NEW o \in Paths,
                      Bytes(out[o]) = Foreign, Bytes(out'[o]) # Foreign
               PROVE  \/ budget'.edits < budget.edits
                      \/ \E p \in Procs : /\ pc[p] = "act" /\ job[p].cur = o
                                          /\ job[p].obs # Foreign
    OBVIOUS
  <2>0. OutType /\ EnvType
    BY DEF TypeInv, TypeOK
  <2>1. CASE UserStep
    <3>1. Spend("edits")
      BY <2>1 DEF UserStep, UserWrites, UserDeletes, UserLinks, UserSets
    <3> QED BY <2>0, <3>1 DEF Spend, EnvType, Events
  <2>2. CASE PowerLoss
    <3>1. out'[o] \in outOld[o]
      BY <2>2 DEF PowerLoss
    <3> QED BY <3>1 DEF UserInv, Durable
  <2>3. ASSUME NEW p \in Procs, Step(p)
        PROVE  \E q \in Procs : pc[q] = "act" /\ job[q].cur = o /\ job[q].obs # Foreign
    <3>1. ActOnOutput(p)
      BY <2>3, StepOnOutputs DEF SyncOutput, SyncOut
    <3>2. job[p].cur = o
      BY <2>0, <3>1 DEF ActOnOutput, WriteOut, OutType
    <3> QED BY <3>1, <3>2 DEF ActOnOutput, UserInv
  <2>4. ASSUME NEW p \in Procs, Starting(p) \/ Kill(p) \/ ParentDies(p)
        PROVE  FALSE
    BY <2>4 DEF Starting, StartConfigure, StartRetire, StartGenerate, StartReset, Start, Kill,
       ParentDies, disk
  <2>5. CASE AtRest
    BY <2>5 DEF AtRest, vars, disk
  <2> QED BY <2>1, <2>2, <2>3, <2>4, <2>5 DEF Next
<1> QED BY <1>1, <1>2, <1>3, PTL DEF Spec, UserBytesKept

---------------------------------------------------------------------------
(* The claim *)

(* A token has been given out once a build holds it or is about to.         *)
Given(token) ==
    \/ \E b \in Builds : held[b] = token
    \/ \E p \in Procs : pc[p] = "store" /\ job[p].token = token
(* Where the claim has been compared with the build and token presented.    *)
Owned == Claimed \ {"claim_sync"}
ResetOnly == {"resume", "intent", "intent_sync", "purge", "disposable", "unclaim"}
KnowsClaim(label, j) ==
    /\ label \in {"wipe", "init", "init_sync", "claim"} => st.claim = None
    /\ label = "claim" => Claims = {None}
    /\ label \in {"init_sync", "claim"} => j.token < nextToken /\ ~Given(j.token)
    /\ label \in {"init", "init_sync", "claim", "claim_sync"} => j.cmd = "configure"
    /\ label \in Owned /\ j.cmd = "reset" => j.token = st.claim.token
    /\ label = "return" => Claims = {st.claim}
    /\ label \in ResetOnly => j.cmd = "reset"
(* One claim at a time; its token is new until the claim is durable, and    *)
(* given out only then.                                                     *)
ClaimTokens ==
    /\ st.claim # None => Claims \subseteq {None, st.claim}
    /\ \A c \in Claims : c # None => c.token < nextToken
    /\ \A token \in Nat : Given(token) => token < nextToken
    /\ st.claim # None /\ Given(st.claim.token) => Claims = {st.claim}
ClaimInv == ClaimTokens /\ \A p \in Procs : KnowsClaim(pc[p], job[p])

(* What most steps do to claims and tokens: nothing, or a sync. *)
ClaimStays ==
    /\ st'.claim = st.claim /\ nextToken' = nextToken
    /\ Claims' = Claims \/ Claims' = {st.claim}
    /\ \A token \in Nat : Given(token)' => Given(token)
(* Such a step keeps the tokens fresh.                                      *)
LEMMA ClaimStaysTokens ==
    ASSUME StateType, ClaimTokens, ClaimStays
    PROVE  ClaimTokens'
<1>1. st.claim \in Claims /\ Claims \subseteq OrNone(ClaimRecords)
  BY StateSets
<1>2. st.claim # None => st.claim.token \in Nat
  BY <1>1 DEF OrNone, ClaimRecords
<1> QED BY <1>1, <1>2 DEF ClaimTokens, ClaimStays

(* Where a step takes the process that takes it. *)
Elsewhere(p) ==
    pc'[p] \notin Owned \cup {"wipe", "init", "init_sync", "claim", "claim_sync", "store"}
OwnedMove(p) ==
    /\ pc[p] \in Owned /\ pc'[p] \in Owned \ {"return"}
    /\ job'[p].cmd = job[p].cmd /\ job'[p].token = job[p].token
    /\ pc'[p] \in ResetOnly => job[p].cmd = "reset"
Claiming0(p) ==
    \/ ValidateRegistry(p) \/ (\E file \in DOMAIN EmptyState : WipeFile(p, file)) \/ LoadClaim(p)
    \/ Released(p) \/ InitSnapshot(p) \/ InitClaim(p) \/ SyncState(p) \/ ReturnToken(p)

(* Every step of a command is one of these three kinds.                     *)
LEMMA StepMoves ==
    ASSUME TypeInv, NEW p \in Procs, Step(p), KnowsClaim(pc[p], job[p])
    PROVE  Elsewhere(p) \/ OwnedMove(p) \/ Claiming0(p)
<1>0. /\ pc \in [Procs -> Labels] /\ job \in [Procs -> JobRecords] /\ job[p] \in JobRecords
      /\ LocalOK(pc[p], job[p])
  BY DEF TypeInv, TypeOK, ControlType, Shape
<1> DEFINE Same(j) == j.cmd = job[p].cmd /\ j.token = job[p].token
           To(label) == /\ label \in Owned \ {"return"}
                        /\ label \in ResetOnly => job[p].cmd = "reset"
           Out(label) == label \notin
               Owned \cup {"wipe", "init", "init_sync", "claim", "claim_sync", "store"}
           Moves == Elsewhere(p) \/ OwnedMove(p)
<1>a. \A label : Goto(p, label) /\ Out(label) => Moves
  BY <1>0 DEF Goto, Elsewhere
<1>b. Leave(p) => Moves
  BY <1>0 DEF Leave, Elsewhere, Owned, Claimed
<1>c. \A label, j : GotoWith(p, label, j) /\ Out(label) => Moves
  BY <1>0 DEF GotoWith, Elsewhere
<1>d. \A label : pc[p] \in Owned /\ Goto(p, label) /\ To(label) => Moves
  BY <1>0 DEF Goto, OwnedMove
<1>e. \A label, j : pc[p] \in Owned /\ GotoWith(p, label, j) /\ To(label) /\ Same(j) => Moves
  BY <1>0 DEF GotoWith, OwnedMove
<1>f. \A condition, label :
         pc[p] \in Owned /\ Require(p, condition, label) /\ To(label) => Moves
  BY <1>b, <1>d DEF Require
<1>g. Elsewhere(p) => Moves
  OBVIOUS
<1>j1. \A v, w : Same([job[p] EXCEPT !.txn = v, !.ret = w])
  BY <1>0 DEF JobRecords
<1>j2. \A v : Same([job[p] EXCEPT !.txn = v])
  BY <1>0 DEF JobRecords
<1>j3. \A v, w : Same([job[p] EXCEPT !.txn = v, !.draft = w])
  BY <1>0 DEF JobRecords
<1>j4. \A v : Same([job[p] EXCEPT !.ret = v])
  BY <1>0 DEF JobRecords
<1>j5. \A v : Same([job[p] EXCEPT !.draft = v])
  BY <1>0 DEF JobRecords
<1>j6. \A v, w : Same([job[p] EXCEPT !.draft = v, !.ret = w])
  BY <1>0 DEF JobRecords
<1>j7. \A v : Same([job[p] EXCEPT !.ops = v])
  BY <1>0 DEF JobRecords
<1>j8. \A v, w : Same([job[p] EXCEPT !.cur = v, !.obs = w])
  BY <1>0 DEF JobRecords
<1>j9. \A u, v, w : Same([job[p] EXCEPT !.ops = u, !.cur = v, !.obs = w])
  BY <1>0 DEF JobRecords
<1>o. \A label \in {"spawn", "pub", "gen", "registry", "load", "stage", "protoc", "cleanup",
                    "published", "unclaim_sync", "scrub", "scrub_sync", "idle"} : Out(label)
  BY DEF Owned, Claimed
<1>t. \A label \in {"recover", "sweep", "drop", "drop_sync", "apply", "output", "act",
                    "out_sync", "snap", "commit_sync", "validated", "prepare", "payload",
                    "pend", "pend_sync", "verify", "retire", "unstage", "unstage_sync",
                    "plan", "plan_sync"} : To(label)
  BY DEF Owned, Claimed, ResetOnly
<1>u. \A label \in ResetOnly : job[p].cmd = "reset" => To(label)
  BY DEF Owned, Claimed, ResetOnly
<1>v. pc[p] \in ResetOnly => job[p].cmd = "reset"
  BY DEF KnowsClaim
<1> HIDE DEF Same, To, Out, Moves
<1>1. CASE Locking(p)
  <2>1. CASE AcquireRegistry(p) \/ AcquireGeneration(p) \/ AcquirePublication(p)
    <3>1. pc'[p] \in {"gen", "spawn", "pub", "registry", "load"}
      BY <1>0, <2>1 DEF AcquireRegistry, AcquireGeneration, AcquirePublication
    <3>2. Elsewhere(p)
      BY <3>1 DEF Elsewhere, Owned, Claimed
    <3> QED BY <1>g, <3>2 DEF Moves
  <2>2. CASE SpawnChild(p)
    BY <2>2, <1>b, <1>c, <1>o DEF SpawnChild, Moves
  <2> QED BY <1>1, <2>1, <2>2 DEF Locking
<1>2. CASE Claiming(p)
  <2>1. CASE WipeSync(p)
    BY <2>1, <1>a, <1>o DEF WipeSync, Moves
  <2> QED BY <1>2, <2>1 DEF Claiming, Claiming0
<1>3. CASE Recovering(p)
  <2> SUFFICES Moves
    BY DEF Moves
  <2>0. {"recover", "drop", "sweep", "drop_sync"} \subseteq Owned
    BY DEF Owned, Claimed
  <2>r. CASE Recover(p)
    <3>1. CASE Pendings = {}
      BY <2>0, <2>r, <3>1, <1>d, <1>t DEF Recover
    <3>2. CASE Pendings # {} /\ Leave(p)
      BY <3>2, <1>b
    <3>3. ASSUME NEW x \in Pendings, GotoWith(p, "apply", [job[p] EXCEPT !.txn = x, !.ret = "sweep"])
          PROVE  Moves
      BY <2>0, <2>r, <3>3, <1>e, <1>j1, <1>t, ZenonT(60) DEF Recover
    <3> QED BY <2>r, <3>1, <3>2, <3>3 DEF Recover
  <2>d. CASE Drop(p)
    BY <2>0, <2>d, <1>d, <1>t DEF Drop
  <2>s. CASE Sweep(p)
    BY <2>0, <2>s, <1>e, <1>j1, <1>t DEF Sweep
  <2>2. CASE DropSync(p)
    <3>1. job[p].ret \in Results
      BY <1>0, <2>2 DEF DropSync, LocalOK, Committing
    <3>2. To(job[p].ret) \/ job[p].ret = "fail"
      BY <3>1, <1>t DEF Results
    <3> QED BY <2>0, <2>2, <3>2, <1>b, <1>e, <1>j1 DEF DropSync
  <2>3. CASE Recovered(p)
    <3>1. CASE job[p].cmd \in {"configure", "retire"}
      BY <2>0, <2>3, <3>1, <1>f, <1>t DEF Recovered, Proceed
    <3>2. CASE job[p].cmd = "reset"
      BY <2>0, <2>3, <3>2, <1>f, <1>u DEF Recovered, Proceed, ResetOnly
    <3>3. CASE job[p].cmd \notin {"configure", "retire", "reset"}
      <4>1. Require(p, CurrentPlan(p) /\ (job[p].publishing => SnapshotLoads),
                    IF job[p].publishing THEN "prepare" ELSE "validated")
        BY <2>3, <3>3 DEF Recovered, Proceed
      <4> QED BY <2>0, <2>3, <4>1, <1>f, <1>t DEF Recovered
    <3> QED BY <3>1, <3>2, <3>3
  <2> QED BY <1>3, <2>r, <2>d, <2>s, <2>2, <2>3 DEF Recovering
<1>4. CASE Applying(p)
  <2> SUFFICES Moves
    BY DEF Moves
  <2>0. Replaying \subseteq Owned /\ "pend" \in Owned
    BY DEF Owned, Claimed, Replaying, AtOutput
  <2> USE DEF Replaying, AtOutput
  <2>1. CASE WritePending(p) \/ ActOnOutput(p) \/ CommitSnapshot(p)
    BY <2>0, <2>1, <1>d, <1>t DEF WritePending, ActOnOutput, CommitSnapshot
  <2>2. CASE OutputsDone(p)
    BY <2>0, <2>2, <1>d, <1>t DEF OutputsDone
  <2>3. CASE SyncPending(p)
    BY <2>0, <2>3, <1>e, <1>j6, <1>t DEF SyncPending
  <2>6. CASE SyncOutput(p)
    BY <2>0, <2>6, <1>e, <1>j9, <1>t DEF SyncOutput
  <2>4. CASE ApplyPending(p)
    BY <2>0, <2>4, <1>b, <1>e, <1>f, <1>j7, <1>t DEF ApplyPending
  <2>5. CASE CheckOutput(p)
    BY <2>0, <2>5, <1>b, <1>e, <1>j8, <1>t DEF CheckOutput
  <2> QED BY <1>4, <2>1, <2>2, <2>3, <2>4, <2>5, <2>6 DEF Applying
<1>5. CASE Generating(p)
  <2> SUFFICES Moves
    BY DEF Moves
  <2>0. {"prepare", "payload"} \subseteq Owned
    BY DEF Owned, Claimed
  <2>1. CASE Validated(p) \/ Verify(p)
    <3>1. Leave(p) \/ pc'[p] \in {"stage", "published"}
      BY <1>0, <2>1 DEF Validated, Verify
    <3>2. pc'[p] \in {"stage", "published"} => Elsewhere(p)
      BY DEF Elsewhere, Owned, Claimed
    <3> QED BY <1>b, <1>g, <3>1, <3>2
  <2>2. CASE CheckPublished(p) \/ DiscardStaging(p)
    BY <2>2, <1>a, <1>b, <1>o DEF CheckPublished, DiscardStaging, Require
  <2>3. CASE RebuildStaging(p) \/ Protoc(p)
    BY <2>3, <1>a, <1>b, <1>c, <1>o DEF RebuildStaging, Protoc
  <2>4. CASE Prepare(p)
    BY <2>0, <2>4, <1>b, <1>e, <1>j2, <1>t DEF Prepare
  <2>5. CASE CopyPayload(p)
    BY <2>0, <2>5, <1>d, <1>e, <1>j4, <1>t DEF CopyPayload
  <2>6. CASE SyncPayloads(p)
    BY <2>0, <2>6, <1>e, <1>j5, <1>t DEF SyncPayloads
  <2> QED BY <1>5, <2>1, <2>2, <2>3, <2>4, <2>5, <2>6 DEF Generating
<1>6. CASE Configuring(p)
  <2>0. {"retire", "unstage", "unstage_sync", "plan"} \subseteq Owned
    BY DEF Owned, Claimed
  <2>1. CASE RetireUnplanned(p)
    BY <2>0, <2>1, <1>b, <1>d, <1>e, <1>j3, <1>t DEF RetireUnplanned, Moves
  <2>4. CASE RemoveStaging(p) \/ WritePlan(p)
    BY <2>0, <2>4, <1>d, <1>t DEF RemoveStaging, WritePlan, Moves
  <2>2. CASE SyncStaging(p)
    BY <2>0, <2>2, <1>d, <1>t, <1>u DEF SyncStaging, Moves, ResetOnly
  <2>3. CASE StoreToken(p)
    BY <2>3, <1>b DEF StoreToken, Moves
  <2> QED BY <1>6, <2>1, <2>2, <2>3, <2>4 DEF Configuring, Claiming0
<1>7. CASE Resetting(p)
  <2> SUFFICES Moves
    BY DEF Moves
  <2>0. ResetOnly \subseteq Owned
    BY DEF Owned, Claimed, ResetOnly
  <2>1. CASE WriteResetIntent(p) \/ RemoveDisposable(p)
    BY <2>0, <2>1, <1>b, <1>d, <1>u, <1>v DEF WriteResetIntent, RemoveDisposable, ResetOnly
  <2>2. CASE ResumeReset(p)
    BY <2>0, <2>2, <1>f, <1>u, <1>v DEF ResumeReset, ResetOnly
  <2>3. CASE Purge(p)
    BY <2>0, <2>3, <1>e, <1>j7, <1>t DEF Purge, ResetOnly
  <2>4. CASE Unclaim(p) \/ Scrub(p) \/ RemoveState(p)
    BY <2>4, <1>a, <1>b, <1>o DEF Unclaim, Scrub, RemoveState
  <2> QED BY <1>7, <2>1, <2>2, <2>3, <2>4 DEF Resetting
<1> QED BY <1>1, <1>2, <1>3, <1>4, <1>5, <1>6, <1>7 DEF Step

(* Only a new claim draws a token, and only StoreToken stores one.          *)
LEMMA StepOnTokens ==
    ASSUME NEW p \in Procs, Step(p)
    PROVE  /\ nextToken' = nextToken \/ InitSnapshot(p)
           /\ held' = held \/ StoreToken(p)
<1> USE DEF env
<1>1. CASE Locking(p)
  BY <1>1 DEF Locking, AcquireRegistry, AcquireGeneration, SpawnChild, AcquirePublication
<1>2. CASE Claiming(p)
  BY <1>2 DEF Claiming, ValidateRegistry, WipeFile, WipeSync, LoadClaim, Released,
     InitSnapshot, InitClaim, SyncState
<1>3. CASE Recovering(p)
  BY <1>3 DEF Recovering, Recover, Drop, DropSync, Sweep, Recovered
<1>4. CASE Applying(p)
  BY <1>4 DEF Applying, WritePending, SyncPending, ApplyPending, CheckOutput,
     ActOnOutput, SyncOutput, OutputsDone, CommitSnapshot
<1>5. CASE Generating(p)
  BY <1>5 DEF Generating, Validated, RebuildStaging, Protoc, Prepare,
     CopyPayload, SyncPayloads, Verify, CheckPublished, DiscardStaging
<1>6. CASE Configuring(p)
  BY <1>6 DEF Configuring, RetireUnplanned, RemoveStaging, SyncStaging, WritePlan,
     ReturnToken, StoreToken
<1>7. CASE Resetting(p)
  BY <1>7 DEF Resetting, WriteResetIntent, ResumeReset, Purge, RemoveDisposable,
     Unclaim, Scrub, RemoveState
<1> QED BY <1>1, <1>2, <1>3, <1>4, <1>5, <1>6, <1>7 DEF Step

(* A token is given out by ReturnToken and by nothing else.                 *)
LEMMA StepOnGiven ==
    ASSUME TypeInv, NEW p \in Procs, Step(p), KnowsClaim(pc[p], job[p]), ~ReturnToken(p)
    PROVE  \A token \in Nat : Given(token)' => Given(token)
<1>0. ControlType /\ EnvType /\ job[p] \in JobRecords /\ None \notin Nat
  BY NoneIsNoRecord DEF TypeInv, TypeOK, ControlType
<1>1. ASSUME pc'[p] = "store"  PROVE job'[p].token = None
  <2>1. Claiming0(p)
    BY <1>1, StepMoves DEF Elsewhere, OwnedMove, Owned, Claimed
  <2>2. CASE Released(p)
    BY <1>0, <2>2 DEF Released, Answer, ControlType, JobRecords
  <2>3. CASE ValidateRegistry(p) \/ LoadClaim(p)
    BY <1>0, <1>1, <2>3 DEF ValidateRegistry, LoadClaim, Require, Goto, Leave, ControlType
  <2>4. CASE \E file \in DOMAIN EmptyState : WipeFile(p, file)
    BY <1>0, <1>1, <2>4 DEF WipeFile
  <2>5. CASE InitSnapshot(p) \/ InitClaim(p)
    BY <1>0, <1>1, <2>5 DEF InitSnapshot, InitClaim, Goto, GotoWith, ControlType
  <2>6. CASE SyncState(p)
    BY <1>0, <1>1, <2>6 DEF SyncState, AfterSync, Goto, ControlType
  <2> QED BY <2>1, <2>2, <2>3, <2>4, <2>5, <2>6 DEF Claiming0
<1>2. \A q \in Procs : q # p => pc'[q] = pc[q] /\ job'[q] = job[q]
  BY <1>0, StepFrame DEF Frame
<1>3. CASE held' = held
  BY <1>0, <1>1, <1>2, <1>3 DEF Given
<1>4. CASE StoreToken(p)
  BY <1>0, <1>1, <1>2, <1>4 DEF Given, StoreToken, EnvType
<1> QED BY <1>3, <1>4, StepOnTokens

(* What a step does to the claim, if it does anything but sync it.          *)
LEMMA StepOnClaim ==
    ASSUME StateType, NEW p \in Procs, Step(p), KnowsClaim(pc[p], job[p])
    PROVE  \/ st'.claim = st.claim /\ (Claims' = Claims \/ Claims' = {st.claim})
           \/ InitClaim(p) \/ Unclaim(p)
<1>1. CASE st' = st /\ (stOld' = stOld \/ stOld' = {st})
  BY <1>1, StateKept, StateSynced
<1>2. ASSUME NEW v, WriteState("snapshot", v) \/ WriteState("plan", v) \/ WriteState("reset", v)
      PROVE  st'.claim = st.claim /\ Claims' = Claims
  BY <1>2, SnapshotWritten, PlanWritten, ResetWritten
<1>3. ASSUME NEW file \in DOMAIN EmptyState, WipeFile(p, file)
      PROVE  st'.claim = st.claim /\ Claims' = Claims
  <2>1. file # "claim"
    BY <1>3 DEF WipeFile, KnowsClaim
  <2>2. file \in {"snapshot", "plan", "reset"}
    BY <2>1 DEF EmptyState
  <2> QED BY <1>2, <1>3, <2>2 DEF WipeFile
<1>4. CASE WritePlan(p)
  BY <1>2, <1>4 DEF WritePlan
<1>5. CASE WriteResetIntent(p)
  BY <1>2, <1>5, StateKept DEF WriteResetIntent, stVars
<1> QED BY <1>1, <1>2, <1>3, <1>4, <1>5, StepOnState DEF StateStep

(* Every step of a command keeps the tokens fresh.                          *)
LEMMA StepKeepsTokens ==
    ASSUME TypeInv, ClaimInv, NEW p \in Procs, Step(p)
    PROVE  ClaimTokens'
<1>0. /\ StateType /\ ControlType /\ EnvType /\ ClaimTokens /\ KnowsClaim(pc[p], job[p])
      /\ LocalOK(pc[p], job[p]) /\ DiskOK(pc[p], job[p], st, tx) /\ nextToken \in Nat
  BY DEF TypeInv, TypeOK, ClaimInv, Shape, EnvType
<1>1. st.claim \in Claims /\ \A c \in Claims : c # None => c.token \in Nat
  BY <1>0, StateSets DEF OrNone, ClaimRecords
<1>2. CASE InitSnapshot(p)
  <2>1. /\ st'.claim = st.claim /\ (Claims' = Claims \/ Claims' = {st.claim})
        /\ nextToken' = nextToken + 1
    BY <1>0, <1>2, StepOnClaim DEF InitSnapshot, InitClaim, Unclaim
  <2>2. \A token \in Nat : Given(token)' => Given(token)
    BY <1>0, <1>2, StepOnGiven DEF InitSnapshot, ReturnToken
  <2> QED BY <1>0, <1>1, <2>1, <2>2 DEF ClaimTokens
<1>3. CASE InitClaim(p)
  <2>p. PICK c : c = [build |-> job[p].build, token |-> job[p].token]
    OBVIOUS
  <2>1. st'.claim = c /\ Claims' = Claims \cup {c} /\ nextToken' = nextToken
    BY <1>0, <1>3, <2>p, ClaimWritten DEF InitClaim, env
  <2>2. \A token \in Nat : Given(token)' => Given(token)
    BY <1>0, <1>3, StepOnGiven DEF InitClaim, ReturnToken
  <2>3. Claims = {None} /\ c.token \in Nat /\ c.token < nextToken /\ ~Given(c.token)
    BY <1>0, <1>3, <2>p DEF InitClaim, KnowsClaim, LocalOK
  <2> QED BY <1>0, <2>1, <2>2, <2>3 DEF ClaimTokens
<1>4. CASE Unclaim(p)
  <2>1. st'.claim = None /\ Claims' = Claims \cup {None} /\ nextToken' = nextToken
    BY <1>0, <1>4, ClaimWritten DEF Unclaim, env
  <2>2. \A token \in Nat : Given(token)' => Given(token)
    BY <1>0, <1>4, StepOnGiven DEF Unclaim, ReturnToken
  <2> QED BY <1>0, <2>1, <2>2 DEF ClaimTokens
<1>5. CASE ReturnToken(p)
  <2>1. /\ st' = st /\ stOld' = stOld /\ nextToken' = nextToken /\ held' = held
        /\ pc[p] = "return" /\ job'[p].token = st.claim.token
        /\ \A q \in Procs : q # p => pc'[q] = pc[q] /\ job'[q] = job[q]
    BY <1>0, <1>5, MoveFrame DEF ReturnToken, Answer, disk, env, ControlType, JobRecords
  <2>2. Claims' = Claims /\ Claims = {st.claim} /\ st.claim # None
    BY <1>0, <2>1, StateKept, NoneIsNoRecord DEF KnowsClaim, DiskOK, Claimed
  <2>3. \A token \in Nat : Given(token)' => Given(token) \/ token = st.claim.token
    BY <2>1 DEF Given
  <2> QED BY <1>0, <1>1, <2>1, <2>2, <2>3 DEF ClaimTokens
<1>6. CASE ~InitSnapshot(p) /\ ~InitClaim(p) /\ ~Unclaim(p) /\ ~ReturnToken(p)
  <2>1. ClaimStays
    BY <1>0, <1>6, StepOnClaim, StepOnGiven, StepOnTokens DEF ClaimStays
  <2> QED BY <1>0, <2>1, ClaimStaysTokens
<1> QED BY <1>2, <1>3, <1>4, <1>5, <1>6

(* The process that takes the step,                                         *)
LEMMA StepKeepsKnowsClaim ==
    ASSUME TypeInv, ClaimInv, NEW p \in Procs, Step(p)
    PROVE  KnowsClaim(pc[p], job[p])'
<1>0. /\ StateType /\ ControlType /\ EnvType /\ ClaimTokens /\ KnowsClaim(pc[p], job[p])
      /\ LocalOK(pc[p], job[p]) /\ nextToken \in Nat /\ job[p] \in JobRecords
      /\ pc \in [Procs -> Labels] /\ job \in [Procs -> JobRecords]
  BY DEF TypeInv, TypeOK, ClaimInv, Shape, EnvType, ControlType
<1>1. CASE Elsewhere(p)
  BY <1>1 DEF Elsewhere, KnowsClaim, ResetOnly, Owned, Claimed
<1>2. CASE OwnedMove(p)
  <2>1. st'.claim = st.claim
    <3>1. ~InitClaim(p)
      BY <1>2 DEF OwnedMove, InitClaim, Owned, Claimed
    <3>2. ~Unclaim(p)
      BY <1>0, <1>2 DEF OwnedMove, Unclaim, Goto, Owned, Claimed
    <3> QED BY <1>0, <3>1, <3>2, StepOnClaim
  <2>2. pc'[p] \notin {"wipe", "init", "init_sync", "claim", "claim_sync", "return"}
    BY <1>2 DEF OwnedMove, Owned, Claimed
  <2> QED BY <1>0, <1>2, <2>1, <2>2 DEF OwnedMove, KnowsClaim
<1>3. CASE Claiming0(p)
  <2> USE DEF Owned, Claimed, ResetOnly
  <2>1. CASE ValidateRegistry(p)
    <3>1. /\ pc'[p] \in {"idle", "load", "wipe"} /\ (pc'[p] = "wipe" => st.claim = None)
          /\ st' = st
      BY <1>0, <2>1 DEF ValidateRegistry, Require, Goto, Leave, disk
    <3> QED BY <3>1 DEF KnowsClaim
  <2>2. ASSUME NEW file \in DOMAIN EmptyState, WipeFile(p, file)
        PROVE  KnowsClaim(pc[p], job[p])'
    <3>1. st'.claim = st.claim /\ pc'[p] = "wipe"
      BY <1>0, <2>2, StepOnClaim DEF WipeFile, InitClaim, Unclaim
    <3> QED BY <1>0, <2>2, <3>1 DEF KnowsClaim, WipeFile
  <2>3. CASE LoadClaim(p)
    <3>1. /\ st' = st /\ pc'[p] \in {"idle", "init", "resume", "recover"}
          /\ pc'[p] # "idle" => job'[p] = job[p]
          /\ pc'[p] = "init" => job[p].cmd = "configure" /\ st.claim = None
          /\ pc'[p] \in {"resume", "recover"} /\ job[p].cmd = "reset" =>
                job[p].token = st.claim.token
          /\ pc'[p] = "resume" => job[p].cmd = "reset"
      BY <1>0, <2>3 DEF LoadClaim, Require, Goto, Leave, disk
    <3> QED BY <3>1 DEF KnowsClaim
  <2>4. CASE Released(p) \/ ReturnToken(p)
    <3>1. pc'[p] = "store"
      BY <1>0, <2>4 DEF Released, ReturnToken, Answer
    <3> QED BY <3>1 DEF KnowsClaim
  <2>5. CASE InitSnapshot(p)
    <3>p. PICK t : t = nextToken
      OBVIOUS
    <3>1. /\ pc'[p] = "init_sync" /\ job'[p].token = t /\ job'[p].cmd = job[p].cmd
          /\ nextToken' = t + 1 /\ pc[p] = "init"
      BY <1>0, <2>5, <3>p DEF InitSnapshot, GotoWith, JobRecords
    <3>2. st'.claim = st.claim
      BY <1>0, <2>5, StepOnClaim DEF InitSnapshot, InitClaim, Unclaim
    <3>3. ~Given(t)'
      BY <1>0, <2>5, <3>p, StepOnGiven DEF InitSnapshot, ReturnToken, ClaimTokens
    <3>4. ~Given(job[p].token)'
      BY <3>1, <3>3
    <3> QED BY <1>0, <3>p, <3>1, <3>2, <3>4 DEF KnowsClaim
  <2>6. CASE InitClaim(p)
    <3>1. pc'[p] = "claim_sync" /\ job'[p] = job[p] /\ pc[p] = "claim"
      BY <1>0, <2>6 DEF InitClaim, Goto
    <3> QED BY <1>0, <3>1 DEF KnowsClaim
  <2>7. CASE SyncState(p)
    <3>1. /\ pc[p] \in DOMAIN AfterSync /\ pc'[p] = AfterSync[pc[p]] /\ job'[p] = job[p]
          /\ st' = st /\ Claims' = {st.claim} /\ nextToken' = nextToken
      BY <1>0, <2>7, StateSynced DEF SyncState, Goto, env
    <3>2. \A token \in Nat : Given(token)' => Given(token)
      BY <1>0, <2>7, StepOnGiven DEF SyncState, AfterSync, ReturnToken
    <3>3. CASE pc[p] = "init_sync"
      <4>p. PICK t : t = job[p].token
        OBVIOUS
      <4>1. pc'[p] = "claim" /\ t \in Nat /\ job'[p].token = t
        BY <1>0, <3>1, <3>3, <4>p DEF AfterSync, LocalOK
      <4>2. ~Given(t)'
        BY <1>0, <3>2, <3>3, <4>p, <4>1 DEF KnowsClaim
      <4>3. ~Given(job[p].token)'
        BY <4>1, <4>2
      <4> QED BY <1>0, <3>1, <3>3, <4>1, <4>3 DEF KnowsClaim
    <3>4. CASE pc[p] = "claim_sync"
      <4>1. pc'[p] = "recover"
        BY <3>1, <3>4 DEF AfterSync
      <4> QED BY <1>0, <3>1, <3>4, <4>1 DEF KnowsClaim
    <3>5. CASE pc[p] \in {"commit_sync", "plan_sync", "intent_sync"}
      <4>1. /\ pc'[p] \in {"drop", "return", "purge"}
            /\ pc'[p] = "purge" => pc[p] = "intent_sync"
        BY <3>1, <3>5 DEF AfterSync
      <4> QED BY <1>0, <3>1, <3>5, <4>1 DEF KnowsClaim
    <3>6. CASE pc[p] \in {"unclaim_sync", "scrub_sync"}
      <4>1. pc'[p] = "scrub"
        BY <3>1, <3>6 DEF AfterSync
      <4> QED BY <4>1 DEF KnowsClaim
    <3> QED BY <3>1, <3>3, <3>4, <3>5, <3>6 DEF AfterSync
  <2> QED BY <1>3, <2>1, <2>2, <2>3, <2>4, <2>5, <2>6, <2>7 DEF Claiming0
<1> QED BY <1>0, <1>1, <1>2, <1>3, StepMoves

(* and the others, who are outside the section or alone in it.              *)
LEMMA OthersKeepKnowsClaim ==
    ASSUME TypeInv, ClaimInv, NEW p \in Procs, Step(p), NEW q \in Procs, q # p
    PROVE  KnowsClaim(pc[q], job[q])'
<1>0. /\ pc'[q] = pc[q] /\ job'[q] = job[q] /\ KnowsClaim(pc[q], job[q])
      /\ KnowsClaim(pc[p], job[p]) /\ LocalOK(pc[q], job[q])
  BY StepFrame DEF TypeInv, TypeOK, Frame, ClaimInv, Shape
<1>1. CASE pc[q] \notin PubSection
  BY <1>0, <1>1 DEF KnowsClaim, PubSection, Owned, Claimed, ResetOnly
<1>2. CASE pc[q] \in PubSection
  <2>1. pc[p] \notin PubSection
    BY <1>2 DEF TypeInv, PubInv
  <2>2. st' = st /\ Claims' = Claims
    BY <2>1, OutsideQuiet, StateKept DEF stVars
  <2>3. ~InitSnapshot(p) /\ ~ReturnToken(p)
    BY <2>1 DEF InitSnapshot, ReturnToken, PubSection
  <2>4. nextToken' = nextToken /\ \A token \in Nat : Given(token)' => Given(token)
    BY <1>0, <2>3, StepOnTokens, StepOnGiven
  <2>p. PICK t : t = job[q].token
    OBVIOUS
  <2>5. pc[q] \in {"init_sync", "claim"} => ~Given(job[q].token)'
    <3>1. pc[q] \in {"init_sync", "claim"} => ~Given(t)'
      BY <1>0, <2>p, <2>4 DEF KnowsClaim, LocalOK
    <3>2. job'[q].token = t
      BY <1>0, <2>p
    <3> QED BY <3>1, <3>2
  <2> QED BY <1>0, <2>2, <2>4, <2>5 DEF KnowsClaim
<1> QED BY <1>1, <1>2

(* Moving a process outside the section and losing power give out nothing.  *)
LEMMA MovedKeepsClaimInv ==
    ASSUME TypeInv, ClaimInv, UNCHANGED <<stVars, held, nextToken>>, NEW p \in Procs,
           pc'[p] \notin PubSection \cup {"store"},
           \A q \in Procs : q # p => pc'[q] = pc[q] /\ job'[q] = job[q]
    PROVE  ClaimInv'
<1>0. StateType /\ Claims' = Claims /\ st' = st
  BY StateKept DEF stVars, TypeInv, TypeOK
<1>1. \A token : Given(token)' => Given(token)
  BY DEF Given
<1>2. ClaimTokens'
  BY <1>0, <1>1, ClaimStaysTokens DEF ClaimStays, ClaimInv
<1>3. KnowsClaim(pc[p], job[p])'
  BY DEF KnowsClaim, PubSection, Owned, Claimed, ResetOnly
<1>4. ASSUME NEW q \in Procs, q # p  PROVE KnowsClaim(pc[q], job[q])'
  <2>p. PICK t : t = job[q].token
    OBVIOUS
  <2>1. Given(job[q].token)' => Given(t)
    BY <1>1, <1>4, <2>p
  <2> QED BY <1>0, <1>4, <2>p, <2>1 DEF ClaimInv, KnowsClaim
<1> QED BY <1>2, <1>3, <1>4 DEF ClaimInv

(* What leaves processes, state directory and tokens alone keeps the claim  *)
(* invariant.                                                               *)
LEMMA StillKeepsClaimInv ==
    ASSUME ClaimInv, UNCHANGED <<pc, job, stVars, held, nextToken>>
    PROVE  ClaimInv'
<1>0. Claims' = Claims /\ st' = st
  BY StateKept DEF stVars
<1> QED BY <1>0 DEF ClaimInv, ClaimTokens, KnowsClaim, Given

(* A loss of power keeps the claim invariant: all its versions do.          *)
LEMMA PowerLossKeepsClaimInv ==
    ASSUME TypeInv, ClaimInv, PowerLoss
    PROVE  ClaimInv'
<1>0. StateType /\ ClaimTokens /\ held' = held /\ nextToken' = nextToken
  BY DEF TypeInv, TypeOK, ClaimInv, PowerLoss
<1>1. st'.claim \in Claims /\ Claims' = {st'.claim}
  <2>1. PICK s \in StateSurvivors : st' = s /\ stOld' = {s}
    BY DEF PowerLoss
  <2> QED BY <1>0, <2>1, SurvivorSets, StateSynced
<1>2. \A p \in Procs : pc'[p] = "idle"
  BY DEF PowerLoss
<1>3. \A token : Given(token)' => Given(token)
  BY <1>0, <1>2 DEF Given
<1>4. ClaimTokens'
  BY <1>0, <1>1, <1>3 DEF ClaimTokens
<1>5. \A p \in Procs : KnowsClaim(pc[p], job[p])'
  BY <1>2 DEF KnowsClaim, Owned, Claimed, ResetOnly
<1> QED BY <1>4, <1>5 DEF ClaimInv

(* Everything that can happen keeps the claim invariant.                    *)
LEMMA ClaimInvNext ==
    ASSUME TypeInv, ClaimInv, [Next]_vars
    PROVE  ClaimInv'
<1>0. ControlType
  BY DEF TypeInv, TypeOK
<1>1. ASSUME NEW p \in Procs, Starting(p)  PROVE ClaimInv'
  <2>1. ASSUME NEW event, NEW label \in {"reg", "gen"}, NEW j, Start(p, event, label, j)
        PROVE  ClaimInv'
    <3>1. /\ UNCHANGED <<stVars, held, nextToken>> /\ pc'[p] = label
          /\ \A q \in Procs : q # p => pc'[q] = pc[q] /\ job'[q] = job[q]
      BY <1>0, <2>1 DEF Start, GotoWith, disk, stVars, ControlType
    <3> QED BY <3>1, MovedKeepsClaimInv DEF PubSection
  <2> QED BY <1>1, <2>1 DEF Starting, StartConfigure, StartRetire, StartGenerate, StartReset
<1>2. ASSUME NEW p \in Procs, Step(p)  PROVE ClaimInv'
  BY <1>2, StepKeepsTokens, StepKeepsKnowsClaim, OthersKeepKnowsClaim DEF ClaimInv
<1>3. ASSUME NEW p \in Procs, Kill(p)  PROVE ClaimInv'
  <2>1. /\ UNCHANGED <<stVars, held, nextToken>> /\ pc'[p] = "idle"
        /\ \A q \in Procs : q # p => pc'[q] = pc[q] /\ job'[q] = job[q]
    BY <1>0, <1>3 DEF Kill, Leave, disk, stVars, ControlType
  <2> QED BY <2>1, MovedKeepsClaimInv DEF PubSection
<1>4. ASSUME NEW p \in Procs, ParentDies(p)  PROVE ClaimInv'
  BY <1>4, StillKeepsClaimInv DEF ParentDies, disk, stVars
<1>5. CASE PowerLoss
  BY <1>5, PowerLossKeepsClaimInv
<1>6. CASE UserStep
  BY <1>6, StillKeepsClaimInv DEF UserStep, UserWrites, UserDeletes, UserLinks, UserSets
<1>7. CASE UNCHANGED vars
  BY <1>7, StillKeepsClaimInv DEF vars, disk, env, stVars
<1> QED BY <1>1, <1>2, <1>3, <1>4, <1>5, <1>6, <1>7 DEF Next, AtRest

(* The claim is immutable: it goes only by a reset that presents its token, *)
(* or in a loss of power before reconcile returned the token to anyone,     *)
(* whatever is killed, reordered or run at the same time.                   *)
THEOREM ClaimIsImmutable == Spec => ClaimImmutable
<1> DEFINE Inv == TypeInv /\ ClaimInv
           Kept == st.claim # None /\ st'.claim # st.claim =>
                      \/ \E p \in Procs : /\ pc[p] = "unclaim"
                                          /\ job[p].cmd = "reset" /\ job[p].token = st.claim.token
                      \/ /\ budget'.losses < budget.losses
                         /\ \A b \in Builds : held[b] # st.claim.token
<1>1. Init => Inv
  <2> SUFFICES ASSUME Init  PROVE Inv
    OBVIOUS
  <2>1. /\ Claims = {None} /\ st.claim = None /\ \A p \in Procs : pc[p] = "idle"
    BY DEF Init, Claims, EmptyState
  <2>2. \A token \in Nat : ~Given(token)
    BY <2>1, NoneIsNoRecord DEF Init, Given
  <2>3. ClaimInv
    BY <2>1, <2>2 DEF ClaimInv, ClaimTokens, KnowsClaim, Owned, Claimed, ResetOnly
  <2> QED BY <2>3, TypeInvInit
<1>2. Inv /\ [Next]_vars => Inv'
  BY TypeInvNext, ClaimInvNext
<1>3. Inv /\ [Next]_vars => [Kept]_vars
  <2> SUFFICES ASSUME Inv, Next, st.claim # None, st'.claim # st.claim
               PROVE  \/ \E p \in Procs : /\ pc[p] = "unclaim" /\ job[p].cmd = "reset"
                                          /\ job[p].token = st.claim.token
                      \/ /\ budget'.losses < budget.losses
                         /\ \A b \in Builds : held[b] # st.claim.token
    OBVIOUS
  <2>0. StateType /\ EnvType
    BY DEF TypeInv, TypeOK
  <2>1. CASE PowerLoss
    <3>1. budget'.losses < budget.losses
      BY <2>0, <2>1 DEF PowerLoss, Spend, EnvType, Events
    <3>2. PICK s \in StateSurvivors : st' = s
      BY <2>1 DEF PowerLoss
    <3>3. st'.claim \in Claims
      BY <2>0, <3>2, SurvivorSets
    <3> QED BY <3>1, <3>3 DEF ClaimInv, ClaimTokens, Given
  <2>2. ASSUME NEW p \in Procs, Step(p)
        PROVE  pc[p] = "unclaim" /\ job[p].cmd = "reset" /\ job[p].token = st.claim.token
    <3>1. KnowsClaim(pc[p], job[p])
      BY DEF ClaimInv
    <3>2. ~InitClaim(p)
      BY <3>1 DEF InitClaim, KnowsClaim
    <3>3. Unclaim(p)
      BY <2>0, <2>2, <3>1, <3>2, StepOnClaim
    <3> QED BY <3>1, <3>3 DEF Unclaim, KnowsClaim, Owned, Claimed, ResetOnly
  <2>3. ASSUME NEW p \in Procs, Starting(p) \/ Kill(p) \/ ParentDies(p)
        PROVE  FALSE
    BY <2>3 DEF Starting, StartConfigure, StartRetire, StartGenerate, StartReset, Start, Kill,
       ParentDies, disk
  <2>4. CASE UserStep \/ AtRest
    BY <2>4 DEF UserStep, UserWrites, UserDeletes, UserLinks, UserSets, stVars, AtRest, vars, disk
  <2> QED BY <2>1, <2>2, <2>3, <2>4 DEF Next
<1> QED BY <1>1, <1>2, <1>3, PTL DEF Spec, ClaimImmutable

---------------------------------------------------------------------------
(* Committing a plan *)

(* Where the operator stops all builds before a reset, no build finds one   *)
(* under way.                                                               *)
Building(p) == pc[p] # "idle" /\ job[p].cmd # "reset"
Clearing(p) == pc[p] # "idle" /\ job[p].cmd = "reset"
Stopped == \A p \in Procs : Building(p) =>
    (st.claim = None \/ st.reset = None) /\ \A q \in Procs : ~Clearing(q)
(* Neither is a claim made over an intent, nor an intent by a build.         *)
Beside == \A p \in Procs : /\ pc[p] = "claim" => st.reset = None
                           /\ pc[p] = "intent" => job[p].cmd = "reset"

(* No step makes a build run into an unfinished reset.                      *)
LEMMA StepKeepsStopped ==
    ASSUME TypeInv, Beside, Stopped, NEW p \in Procs, Step(p)
    PROVE  Stopped'
<1>0. StateType /\ ControlType /\ pc[p] # "idle" /\ SameCommand(p)
  BY StepKeepsCommand DEF TypeInv, TypeOK
<1>1. \A q \in Procs : (Building(q)' => Building(q)) /\ (Clearing(q)' => Clearing(q))
  <2> TAKE q \in Procs
  <2>1. CASE q = p
    BY <1>0, <2>1 DEF Building, Clearing, SameCommand
  <2>2. CASE q # p
    BY <1>0, <2>2, StepFrame DEF Frame, Building, Clearing
  <2> QED BY <2>1, <2>2
<1>2. ASSUME NEW q \in Procs, Building(q)
      PROVE  st'.claim = None \/ st'.reset = None
  <2>0. st.claim = None \/ st.reset = None
    BY <1>2 DEF Stopped
  <2>1. CASE st' = st
    BY <2>0, <2>1
  <2>2. ASSUME NEW v, WriteState("snapshot", v) \/ WriteState("plan", v)
        PROVE  st'.claim = None \/ st'.reset = None
    BY <1>0, <2>0, <2>2, SnapshotWritten, PlanWritten
  <2>3. CASE WriteState("reset", None) \/ WriteState("claim", None)
    BY <1>0, <2>3, ResetWritten, ClaimWritten
  <2>4. CASE \E file \in DOMAIN EmptyState : WipeFile(p, file)
    BY <2>2, <2>3, <2>4 DEF WipeFile, EmptyState
  <2>5. CASE Unclaim(p) \/ WritePlan(p)
    BY <2>2, <2>3, <2>5 DEF Unclaim, WritePlan
  <2>6. CASE InitClaim(p)
    <3>1. st.reset = None
      BY <2>6 DEF InitClaim, Beside
    <3> QED BY <1>0, <2>6, <3>1, ClaimWritten DEF InitClaim
  <2>7. CASE WriteResetIntent(p)
    <3>1. Clearing(p)
      BY <2>7 DEF WriteResetIntent, Beside, Clearing
    <3> QED BY <1>2, <3>1 DEF Stopped
  <2> QED BY <2>1, <2>2, <2>3, <2>4, <2>5, <2>6, <2>7, StepOnState DEF StateStep
<1> QED BY <1>1, <1>2 DEF Stopped

(* Nor does anything else, when builds are stopped for a reset.             *)
LEMMA StoppedNext ==
    ASSUME BuildsStopped, TypeInv, Beside, Stopped, [Next]_vars
    PROVE  Stopped'
<1>0. ControlType /\ StateType
  BY DEF TypeInv, TypeOK
<1>1. ASSUME NEW p \in Procs, Starting(p)  PROVE Stopped'
  <2>1. ASSUME NEW event, NEW label \in {"reg", "gen"}, NEW j, Start(p, event, label, j),
               j.cmd # "reset", MayBuild
        PROVE  Stopped'
    <3>1. /\ st' = st /\ job'[p] = j
          /\ \A q \in Procs : q # p => pc'[q] = pc[q] /\ job'[q] = job[q]
      BY <1>0, <2>1 DEF Start, GotoWith, disk, ControlType
    <3> QED BY <2>1, <3>1 DEF MayBuild, Stopped, Building, Clearing
  <2>2. ASSUME NEW b \in Builds, StartReset(p, b)
        PROVE  Stopped'
    <3>1. /\ job'[p].cmd = "reset"
          /\ \A q \in Procs : q # p => pc'[q] = pc[q] /\ job'[q] = job[q]
      BY <1>0, <2>2 DEF StartReset, Start, GotoWith, NoJob, ControlType
    <3> QED BY <2>2, <3>1 DEF StartReset, MayReset, Stopped, Building
  <2>3. ASSUME NEW b \in Builds, NEW outs \in Plans, StartConfigure(p, b, outs)
        PROVE  Stopped'
    <3> DEFINE j == [NoJob EXCEPT !.cmd = "configure", !.build = b, !.plan = Plan(b, outs)]
    <3>1. Start(p, "configures", "reg", j) /\ MayBuild
      BY <2>3 DEF StartConfigure
    <3>2. j.cmd # "reset"
      BY DEF NoJob
    <3> HIDE DEF j
    <3> QED BY <2>1, <3>1, <3>2
  <2>4. ASSUME NEW b \in Builds, StartRetire(p, b)
        PROVE  Stopped'
    <3> DEFINE j == [NoJob EXCEPT !.cmd = "retire", !.build = b, !.plan = Plan(b, NoMap)]
    <3>1. Start(p, "configures", "reg", j) /\ MayBuild
      BY <2>4 DEF StartRetire
    <3>2. j.cmd # "reset"
      BY DEF NoJob
    <3> HIDE DEF j
    <3> QED BY <2>1, <3>1, <3>2
  <2>5. ASSUME NEW b \in Builds, NEW t \in Targets, StartGenerate(p, b, t)
        PROVE  Stopped'
    <3> DEFINE j == [NoJob EXCEPT !.cmd = "generate", !.build = b, !.target = t]
    <3>1. Start(p, "generates", "gen", j) /\ MayBuild
      BY <2>5 DEF StartGenerate
    <3>2. j.cmd # "reset"
      BY DEF NoJob
    <3> HIDE DEF j
    <3> QED BY <2>1, <3>1, <3>2
  <2> QED BY <1>1, <2>2, <2>3, <2>4, <2>5 DEF Starting
<1>2. ASSUME NEW p \in Procs, Step(p)  PROVE Stopped'
  BY <1>2, StepKeepsStopped
<1>3. ASSUME NEW p \in Procs, Kill(p)  PROVE Stopped'
  BY <1>0, <1>3 DEF Kill, Leave, disk, Stopped, Building, Clearing, ControlType
<1>4. CASE PowerLoss
  BY <1>4 DEF PowerLoss, Stopped, Building
<1>5. CASE UserStep \/ UNCHANGED vars \/ \E p \in Procs : ParentDies(p)
  BY <1>5 DEF UserStep, UserWrites, UserDeletes, UserLinks, UserSets, stVars, vars, disk,
     ParentDies, Stopped, Building, Clearing
<1> QED BY <1>1, <1>2, <1>3, <1>4, <1>5 DEF Next, AtRest

(* When a plan is committed the root records no output outside it, except   *)
(* one the user changed: reconcile retires what the plan drops before it    *)
(* writes plan.json, and a publication in between is one of the same plan.  *)
THEOREM PlanRetiresUnplanned ==
    ASSUME NoKilledReset, BuildsStopped
    PROVE  Spec => UnplannedIsRetired
<1> DEFINE Inv == CrashInv /\ Stopped
           Kept == st'.plan # None /\ st'.plan # st.plan /\ budget'.losses = budget.losses =>
                      DOMAIN st.snapshot.entries \ DOMAIN st'.plan.outs \subseteq touched
<1>1. Init => Inv
  BY CrashInvInit DEF Init, Stopped, Building
<1>2. Inv /\ [Next]_vars => Inv'
  BY CrashInvNext, StoppedNext DEF CrashInv, Beside, Knows, KnowsState, InReset
<1>3. Inv /\ [Next]_vars => [Kept]_vars
  <2> SUFFICES ASSUME Inv, Next, st'.plan # None, st'.plan # st.plan,
                      budget'.losses = budget.losses
               PROVE  DOMAIN st.snapshot.entries \ DOMAIN st'.plan.outs \subseteq touched
    OBVIOUS
  <2>0. StateType /\ EnvType
    BY DEF CrashInv, TypeInv, TypeOK
  <2>1. ASSUME NEW p \in Procs, Step(p)
        PROVE  DOMAIN st.snapshot.entries \ DOMAIN st'.plan.outs \subseteq touched
    <3>1. WritePlan(p)
      <4>1. ASSUME NEW v, WriteState("snapshot", v) \/ WriteState("claim", v)
                          \/ WriteState("reset", v)
            PROVE  FALSE
        BY <2>0, <4>1, SnapshotWritten, ClaimWritten, ResetWritten
      <4>2. ~WriteState("plan", None)
        BY <2>0, PlanWritten
      <4>3. ~\E file \in DOMAIN EmptyState : WipeFile(p, file)
        BY <4>1, <4>2 DEF WipeFile, EmptyState
      <4>4. ~InitClaim(p) /\ ~Unclaim(p) /\ ~WriteResetIntent(p)
        BY <4>1 DEF InitClaim, Unclaim, WriteResetIntent, stVars
      <4> QED BY <2>1, <4>1, <4>2, <4>3, <4>4, StepOnState DEF StateStep
    <3>2. st'.plan = job[p].plan /\ pc[p] = "plan" /\ job[p].cmd # "reset"
      <4>1. job[p].cmd # "reset"
        BY <3>1 DEF WritePlan, CrashInv, TypeInv, Shape, LocalOK
      <4> QED BY <2>0, <3>1, <4>1, PlanWritten DEF WritePlan
    <3>3. st.reset = None
      <4>1. st.claim # None
        BY <3>2, NoneIsNoRecord DEF CrashInv, TypeInv, Shape, DiskOK, Claimed
      <4> QED BY <3>2, <4>1 DEF Stopped, Building
    <3>4. Within(st.snapshot.entries, job[p])
      BY <3>2, <3>3 DEF CrashInv, Knows, KnowsOut, KnowsPlan
    <3> QED BY <3>2, <3>4 DEF Within
  <2>2. CASE PowerLoss
    BY <2>0, <2>2 DEF PowerLoss, Spend, EnvType, Events
  <2>3. ASSUME NEW p \in Procs, Starting(p) \/ Kill(p) \/ ParentDies(p)
        PROVE  FALSE
    BY <2>3 DEF Starting, StartConfigure, StartRetire, StartGenerate, StartReset, Start, Kill,
       ParentDies, disk
  <2>4. CASE UserStep \/ AtRest
    BY <2>4 DEF UserStep, UserWrites, UserDeletes, UserLinks, UserSets, stVars, AtRest, vars, disk
  <2> QED BY <2>1, <2>2, <2>3, <2>4 DEF Next
<1> QED BY <1>1, <1>2, <1>3, PTL DEF Spec, UnplannedIsRetired
=============================================================================
