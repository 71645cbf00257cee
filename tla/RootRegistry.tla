---------------------------- MODULE RootRegistry ----------------------------
(***************************************************************************)
(* Several output roots: reconcile_set and reset of                        *)
(* ProtocyteOutputCoordinator.py take the locks of all the roots they are  *)
(* about, validate a layout against every claim of the registry, and       *)
(* commit root by root.  Around them are the .plan files of CMake, from    *)
(* which it knows the roots a build no longer uses, and generations, which *)
(* work in a staging directory beside their root.                          *)
(*                                                                         *)
(* A path is a sequence of names; a layout maps roots to their targets.    *)
(* What happens inside one root (snapshot, transactions, outputs, tokens,  *)
(* losses of power, orphans) is left to OutputCoordinator: here a claim    *)
(* with its plan is written in one step, and so is removed.                *)
(***************************************************************************)
EXTENDS Absent, Naturals, SequencesExt, Functions

CONSTANTS
    MostProcs,       \* the most processes that run at a time
    RootTrees,       \* CMake build trees
    Roots,           \* output roots
    Identity,        \* where the portable identity of each root is in their order
    Layouts,         \* the layouts each tree may configure
    RootScenarios    \* how often each command runs and each accident happens

RootProcs == 1 .. MostProcs
ASSUME RootsAssumption ==
    /\ MostProcs \in Nat /\ None \notin RootProcs /\ None \notin RootTrees
    /\ \A r \in Roots : r \in Seq(Range(r))
    /\ Identity \in [Roots -> Nat] /\ IsInjective(Identity)
    /\ \A b \in RootTrees, l \in UNION Range(Layouts) : l \in Layouts[b] => DOMAIN l \subseteq Roots

VARIABLES
    claims,      \* claim.json of each root: the build tree
    recorded,    \* plan.json of each root: the targets
    stagings,    \* the process that made each staging directory
    planned,     \* .plan files of each tree: a layout, retired roots with no target
    rootLock,    \* the holder of each lock
    phase,       \* where each process is
    errand,      \* and its locals
    rootBudget,  \* commands and accidents left
    deleted      \* history: the build trees that were deleted

registry == <<claims, recorded>>
rootVars == <<registry, stagings, planned, rootLock, phase, errand, rootBudget, deleted>>

NoLayout == [r \in {} |-> {}]
(* Either contains the other.                                               *)
Overlap(p, q) == IsPrefix(p, q) \/ IsPrefix(q, p)
(* Beside the root, named after the target.                                 *)
Staging(r, t) == Append(Front(r), t)
StagingsOf(r, targets) == {Staging(r, t) : t \in targets}
TargetNames == UNION {UNION Range(l) : l \in UNION Range(Layouts)}
StagingPaths == UNION {StagingsOf(r, TargetNames) : r \in Roots}

---------------------------------------------------------------------------
(* Locks: the registry, then generation, then publication, by identity *)

LockOf(kind, r) == [kind |-> kind, root |-> r]
RegistryLock == LockOf("registry", None)
RootLocks == {RegistryLock} \cup {LockOf(kind, r) : kind \in {"generation", "publication"}, r \in Roots}
LocksOf(S) == {RegistryLock} \cup {LockOf(kind, r) : kind \in {"generation", "publication"}, r \in S}
Turn == [registry |-> 0, generation |-> 1, publication |-> 2]
Before(k, l) ==
    \/ Turn[k.kind] < Turn[l.kind]
    \/ k.kind = l.kind /\ k # RegistryLock /\ Identity[k.root] < Identity[l.root]

NoErrand == [cmd |-> "none", tree |-> None, layout |-> NoLayout, root |-> None, target |-> None,
             retired |-> {}, wants |-> {}, left |-> {}, kept |-> {}]
Doing(p) == errand[p]
AtPhase(p, label) == phase[p] = label /\ Doing(p).wants = {}
GoesOn(p, label, e) == phase' = [phase EXCEPT ![p] = label] /\ errand' = [errand EXCEPT ![p] = e]
Unlocked(p, S) == [k \in RootLocks |-> IF rootLock[k] = p /\ k \in S THEN None ELSE rootLock[k]]
(* The process ends, and the system releases what it holds.                 *)
ErrandEnds(p) == GoesOn(p, "idle", NoErrand) /\ rootLock' = Unlocked(p, RootLocks)

Spends(event) ==
    /\ rootBudget[event] > 0 /\ rootBudget' = [rootBudget EXCEPT ![event] = @ - 1]
(* The lock a process takes next.                                           *)
Awaits(p, k) == k \in Doing(p).wants /\ \A l \in Doing(p).wants \ {k} : Before(k, l)
TakeLock(p) ==
    /\ \E k \in RootLocks :
          /\ Awaits(p, k) /\ rootLock[k] = None
          /\ rootLock' = [rootLock EXCEPT ![k] = p]
          /\ errand' = [errand EXCEPT ![p].wants = @ \ {k}]
    /\ UNCHANGED <<registry, stagings, planned, phase, rootBudget, deleted>>

---------------------------------------------------------------------------
(* Configure: finalize_output_plans and reconcile_set *)

(* Which process it is does not matter: it is the first that is idle.       *)
Begins(p, event, label, e) ==
    /\ phase[p] = "idle" /\ \A q \in RootProcs : q < p => phase[q] # "idle"
    /\ Spends(event) /\ GoesOn(p, label, e)
    /\ UNCHANGED <<registry, stagings, rootLock, deleted>>
(* Plan files written over those that are there.                            *)
WrittenOver(new, old) ==
    [r \in DOMAIN new \cup DOMAIN old |-> IF r \in DOMAIN new THEN new[r] ELSE old[r]]
(* One CMake at a time runs in a build tree.  It writes the plans of the    *)
(* layout before it reconciles; the other plans it finds are retired.       *)
Configure(p, b, layout) ==
    /\ \A q \in RootProcs : Doing(q).cmd = "configure" => Doing(q).tree # b
    /\ DOMAIN layout \cup DOMAIN planned[b] # {}
    /\ planned' = [planned EXCEPT ![b] = WrittenOver(layout, @)]
    /\ LET retired == DOMAIN planned[b] \ DOMAIN layout
       IN Begins(p, "configures", "validate",
              [NoErrand EXCEPT !.cmd = "configure", !.tree = b, !.layout = layout,
                  !.retired = retired, !.wants = LocksOf(retired \cup DOMAIN layout)])

(* Plan.read: a staging lies beside its root, never in its place.           *)
PlansRead(layout) == \A r \in DOMAIN layout : \A x \in StagingsOf(r, layout[r]) : ~Overlap(r, x)
(* _validate_plan_set: the roots and stagings of a layout keep apart.       *)
PlanSetValid(layout) ==
    \A r, s \in DOMAIN layout : r # s =>
        /\ ~Overlap(r, s)
        /\ \A x \in StagingsOf(r, layout[r]) :
              ~Overlap(x, s) /\ \A y \in StagingsOf(s, layout[s]) : ~Overlap(x, y)
(* A staging may be the one recorded for the same target of the same root,  *)
(* or of a root that the same build is about to retire.                     *)
(* Faulty MayShare: the root need not be retired.                           *)
SharesInBuild(b, retired, r, t, claimed, u) == t = u /\ (claimed = r \/ claims[claimed] = b)
MayShare(b, retired, r, t, claimed, u) ==
    t = u /\ (claimed = r \/ (claimed \in retired /\ claims[claimed] = b))
(* _validate_registry, against one claim.                                   *)
KeepsFrom(b, retired, layout, claimed) ==
    \A r \in DOMAIN layout :
        /\ Overlap(claimed, r) => claimed = r
        /\ \A x \in StagingsOf(claimed, recorded[claimed]) : ~Overlap(x, r)
        /\ \A t \in layout[r] :
              /\ ~Overlap(claimed, Staging(r, t))
              /\ \A u \in recorded[claimed] :
                    Overlap(Staging(claimed, u), Staging(r, t)) =>
                        MayShare(b, retired, r, t, claimed, u)
RegistryValid(b, retired, layout) ==
    \A claimed \in Roots : claims[claimed] # None => KeepsFrom(b, retired, layout, claimed)
(* _load_claim: a current root is not another tree's; a retired one may be, *)
(* and is then left alone.                                                  *)
OwnsCurrent(b, layout) == \A r \in DOMAIN layout : claims[r] \in {None, b}
ActiveRetired(b, retired) == {r \in retired : claims[r] = b}
Accepts(b, retired, layout) ==
    /\ PlansRead(layout) /\ PlanSetValid(layout)
    /\ RegistryValid(b, retired, layout) /\ OwnsCurrent(b, layout)

Validates(p) ==
    LET e == Doing(p)
    IN /\ AtPhase(p, "validate")
       /\ IF Accepts(e.tree, e.retired, e.layout)
          THEN /\ GoesOn(p, "claim", [e EXCEPT !.left = {r \in DOMAIN e.layout : claims[r] = None},
                                            !.kept = ActiveRetired(e.tree, e.retired)])
               /\ UNCHANGED rootLock
          ELSE ErrandEnds(p)
       /\ UNCHANGED <<registry, stagings, planned, rootBudget, deleted>>
(* _initialize_claim_locked, root after root: a claim without a plan.       *)
Claims(p) ==
    LET e == Doing(p)
    IN /\ phase[p] = "claim"
       /\ \/ \E r \in e.left :
                /\ claims' = [claims EXCEPT ![r] = e.tree]
                /\ errand' = [errand EXCEPT ![p].left = @ \ {r}] /\ UNCHANGED phase
          \/ /\ e.left = {} /\ UNCHANGED claims
             /\ GoesOn(p, "retire", [e EXCEPT !.left = e.kept])
       /\ UNCHANGED <<recorded, stagings, planned, rootLock, rootBudget, deleted>>
(* _reconcile_locked: the staging of targets that leave, then the plan.     *)
Reconciles(r, targets) ==
    /\ stagings' = [x \in StagingPaths |->
          IF x \in StagingsOf(r, recorded[r] \ targets) THEN None ELSE stagings[x]]
    /\ recorded' = [recorded EXCEPT ![r] = targets]
(* Retired roots come first, since a current one may take over a staging.   *)
Retires(p) ==
    LET e == Doing(p)
    IN /\ phase[p] = "retire"
       /\ \/ \E r \in e.left :
                Reconciles(r, {}) /\ errand' = [errand EXCEPT ![p].left = @ \ {r}]
                /\ UNCHANGED phase
          \/ /\ e.left = {} /\ UNCHANGED <<recorded, stagings>>
             /\ GoesOn(p, "commit", [e EXCEPT !.left = DOMAIN e.layout])
       /\ UNCHANGED <<claims, planned, rootLock, rootBudget, deleted>>
Commits(p) ==
    LET e == Doing(p)
    IN /\ phase[p] = "commit"
       /\ \/ \E r \in e.left :
                /\ Reconciles(r, e.layout[r])
                /\ errand' = [errand EXCEPT ![p].left = @ \ {r}]
                /\ UNCHANGED <<phase, rootLock>>
          \/ /\ e.left = {} /\ UNCHANGED <<recorded, stagings>>
             /\ GoesOn(p, "store", e) /\ rootLock' = Unlocked(p, RootLocks)
       /\ UNCHANGED <<claims, planned, rootBudget, deleted>>
(* "released" plans are removed, other retired ones keep their root.        *)
StoredPlans(e) == WrittenOver(e.layout, [r \in e.kept |-> {}])
Stores(p) ==
    /\ phase[p] = "store"
    /\ planned' = [planned EXCEPT ![Doing(p).tree] = StoredPlans(Doing(p))]
    /\ ErrandEnds(p) /\ UNCHANGED <<registry, stagings, rootBudget, deleted>>

---------------------------------------------------------------------------
(* Generation: run-generation, and validate and publish inside it *)

Generate(p, b, r, t) ==
    /\ r \in DOMAIN planned[b] /\ t \in planned[b][r]
    /\ UNCHANGED planned
    /\ Begins(p, "generates", "check",
           [NoErrand EXCEPT !.cmd = "generate", !.tree = b, !.root = r, !.target = t,
               !.wants = {LockOf("generation", r), LockOf("publication", r)}])
(* validate and publish: the plan is the one that was committed; then       *)
(* target-outputs and staging_for_target: it still has the target.          *)
PlanCurrent(e) ==
    /\ e.root \in DOMAIN planned[e.tree] /\ claims[e.root] = e.tree
    /\ recorded[e.root] = planned[e.tree][e.root]
    /\ e.target \in recorded[e.root]
(* The staging is made anew; the publication lock is free while protoc runs.*)
StagesAnew(p) ==
    LET e == Doing(p)
    IN /\ AtPhase(p, "check")
       /\ IF PlanCurrent(e)
          THEN /\ stagings' = [stagings EXCEPT ![Staging(e.root, e.target)] = p]
               /\ GoesOn(p, "work", [e EXCEPT !.wants = {LockOf("publication", e.root)}])
               /\ rootLock' = Unlocked(p, {LockOf("publication", e.root)})
          ELSE ErrandEnds(p) /\ UNCHANGED stagings
       /\ UNCHANGED <<registry, planned, rootBudget, deleted>>
Discards(e) == stagings' = [stagings EXCEPT ![Staging(e.root, e.target)] = None]
(* protoc fails or takes too long.                                          *)
ProtocFails(p) ==
    /\ phase[p] = "work" /\ Doing(p).wants # {}
    /\ Discards(Doing(p)) /\ ErrandEnds(p) /\ UNCHANGED <<registry, planned, rootBudget, deleted>>
(* A publication that fails leaves the staging behind.                      *)
Publishes(p) ==
    /\ AtPhase(p, "work")
    /\ IF PlanCurrent(Doing(p)) THEN Discards(Doing(p)) ELSE UNCHANGED stagings
    /\ ErrandEnds(p) /\ UNCHANGED <<registry, planned, rootBudget, deleted>>

---------------------------------------------------------------------------
(* Reset *)

Reset(p, r) ==
    /\ claims[r] # None /\ UNCHANGED planned
    /\ Begins(p, "resets", "purge", [NoErrand EXCEPT !.cmd = "reset", !.tree = claims[r],
                                                     !.root = r, !.wants = LocksOf({r})])
(* The token is that of the claim the reset began with.                     *)
Purges(p) ==
    LET e == Doing(p)
    IN /\ AtPhase(p, "purge")
       /\ IF claims[e.root] = e.tree
          THEN /\ stagings' = [x \in StagingPaths |->
                      IF x \in StagingsOf(e.root, recorded[e.root]) THEN None ELSE stagings[x]]
               /\ GoesOn(p, "release", e) /\ UNCHANGED rootLock
          ELSE ErrandEnds(p) /\ UNCHANGED stagings
       /\ UNCHANGED <<registry, planned, rootBudget, deleted>>
(* Without its claim a plan is rubbish that the next validation removes.    *)
Unclaims(p) ==
    /\ phase[p] = "release"
    /\ claims' = [claims EXCEPT ![Doing(p).root] = None]
    /\ recorded' = [recorded EXCEPT ![Doing(p).root] = {}]
    /\ ErrandEnds(p) /\ UNCHANGED <<stagings, planned, rootBudget, deleted>>

---------------------------------------------------------------------------
(* Accidents *)

KillErrand(p) ==
    /\ phase[p] # "idle" /\ Spends("kills") /\ ErrandEnds(p)
    /\ UNCHANGED <<registry, stagings, planned, deleted>>
(* A build tree is deleted while nothing runs in it; its claims stay.       *)
DeleteTree(b) ==
    /\ \A p \in RootProcs : Doing(p).cmd # "reset" => Doing(p).tree # b
    /\ DOMAIN planned[b] # {}
    /\ Spends("deletions")
    /\ planned' = [planned EXCEPT ![b] = NoLayout] /\ deleted' = deleted \cup {b}
    /\ UNCHANGED <<registry, stagings, rootLock, phase, errand>>

---------------------------------------------------------------------------

RootInit(budgets) ==
    /\ rootBudget \in budgets
    /\ claims = [r \in Roots |-> None] /\ recorded = [r \in Roots |-> {}]
    /\ stagings = [x \in StagingPaths |-> None]
    /\ planned = [b \in RootTrees |-> NoLayout]
    /\ rootLock = [k \in RootLocks |-> None]
    /\ phase = [p \in RootProcs |-> "idle"] /\ errand = [p \in RootProcs |-> NoErrand]
    /\ deleted = {}
RootStep(p) ==
    \/ TakeLock(p)
    \/ Validates(p) \/ Claims(p) \/ Retires(p) \/ Commits(p) \/ Stores(p)
    \/ StagesAnew(p) \/ ProtocFails(p) \/ Publishes(p)
    \/ Purges(p) \/ Unclaims(p)
RootNext ==
    \/ \E p \in RootProcs :
          \/ RootStep(p) \/ KillErrand(p)
          \/ \E b \in RootTrees, layout \in UNION Range(Layouts) :
                layout \in Layouts[b] /\ Configure(p, b, layout)
          \/ \E b \in RootTrees, r \in Roots, t \in TargetNames : Generate(p, b, r, t)
          \/ \E r \in Roots : Reset(p, r)
    \/ \E b \in RootTrees : DeleteTree(b)
============================================================================
