----------------------------- MODULE RootProofs -----------------------------
(***************************************************************************)
(* Proofs about RootRegistry, for any number of processes, build trees and *)
(* roots: configurations, generations and resets of several roots keep     *)
(* roots and stagings apart, can be retried after a kill, and never wait   *)
(* for each other in a circle.                                             *)
(***************************************************************************)
EXTENDS RootSafety, FiniteSetTheorems, WellFoundedInduction, TLAPS

RootSpec == RootInit(RootScenarios) /\ [][RootNext]_rootVars

Configuring == {"validate", "claim", "retire", "commit"}
Generating == {"check", "work"}
Resetting == {"purge", "release"}
(* Phases in which every lock has been taken.                              *)
Writing == {"claim", "retire", "commit", "release"}

Fields == {"cmd", "tree", "layout", "root", "target", "retired", "wants", "left", "kept"}

(* What a process knows of its errand.                                     *)
ErrandOK(p) ==
    /\ DOMAIN errand[p] = Fields
    /\ phase[p] \in {"idle", "store"} \cup Configuring \cup Generating \cup Resetting
    /\ Doing(p).cmd = "configure" <=> phase[p] \in Configuring \cup {"store"}
    /\ Doing(p).cmd = "reset" <=> phase[p] \in Resetting
    /\ phase[p] \in Configuring \cup {"store"} =>
          /\ Doing(p).tree \in RootTrees
          /\ DOMAIN Doing(p).layout \subseteq Roots /\ Doing(p).retired \subseteq Roots
          /\ Doing(p).kept \subseteq Roots
          /\ DOMAIN Doing(p).layout \cap Doing(p).retired = {}
          /\ DOMAIN planned[Doing(p).tree] = DOMAIN Doing(p).layout \cup Doing(p).retired
    /\ phase[p] \in Generating =>
          Doing(p).tree \in RootTrees /\ Doing(p).root \in Roots
    /\ phase[p] \in Resetting => Doing(p).tree \in RootTrees /\ Doing(p).root \in Roots

(* The locks of an errand: those it holds and those it still wants, where  *)
(* it holds none that comes after one that it wants.                       *)
Held(p) == {k \in RootLocks : rootLock[k] = p}
Needs(p) ==
    IF phase[p] \in Configuring THEN LocksOf(Doing(p).retired \cup DOMAIN Doing(p).layout)
    ELSE IF phase[p] \in Generating
         THEN {LockOf("generation", Doing(p).root), LockOf("publication", Doing(p).root)}
    ELSE IF phase[p] \in Resetting THEN LocksOf({Doing(p).root}) ELSE {}
LocksOK(p) ==
    /\ Held(p) \cup Doing(p).wants = Needs(p)
    /\ phase[p] \in Writing => Doing(p).wants = {}
    /\ phase[p] = "work" => LockOf("generation", Doing(p).root) \in Held(p)
    /\ \A k \in Held(p), l \in Doing(p).wants : Before(k, l)

OneConfigure ==
    \A p, q \in RootProcs :
        p # q /\ phase[p] \in Configuring \cup {"store"} /\ phase[q] \in Configuring \cup {"store"}
            => Doing(p).tree # Doing(q).tree
ProcShape ==
    /\ DOMAIN phase = RootProcs /\ DOMAIN errand = RootProcs /\ DOMAIN rootLock = RootLocks
    /\ DOMAIN planned = RootTrees /\ \A b \in RootTrees : DOMAIN planned[b] \subseteq Roots
LockInv ==
    ProcShape /\ OneConfigure /\ \A p \in RootProcs : ErrandOK(p) /\ LocksOK(p)

---------------------------------------------------------------------------
(* Locks *)

(* A step of p leaves the other processes where they are, with their locks. *)
Keeps(p, q) ==
    /\ phase'[q] = phase[q] /\ errand'[q] = errand[q]
    /\ \A k \in RootLocks : rootLock'[k] = q <=> rootLock[k] = q
Alone(p) ==
    /\ DOMAIN phase' = RootProcs /\ DOMAIN errand' = RootProcs /\ DOMAIN rootLock' = RootLocks
    /\ \A q \in RootProcs \ {p} : Keeps(p, q)
(* The plan files of the trees that others configure stay as many.          *)
OthersPlans(p) ==
    /\ DOMAIN planned' = RootTrees /\ \A b \in RootTrees : DOMAIN planned'[b] \subseteq Roots
    /\ \A q \in RootProcs \ {p} : phase[q] \in Configuring \cup {"store"} =>
          DOMAIN planned'[Doing(q).tree] = DOMAIN planned[Doing(q).tree]

(* The errands and locks of the other processes stay as they are.           *)
LEMMA OthersKeepLocks ==
    ASSUME LockInv, NEW p \in RootProcs, NEW q \in RootProcs \ {p}, Alone(p), OthersPlans(p)
    PROVE  ErrandOK(q)' /\ LocksOK(q)'
  <1>1. phase'[q] = phase[q] /\ errand'[q] = errand[q]
    BY DEF Alone, Keeps
  <1>2. Doing(q)' = Doing(q)
    BY <1>1 DEF Doing
  <1>3. Held(q)' = Held(q)
    BY DEF Held, Alone, Keeps
  <1>4. Needs(q)' = Needs(q)
    BY <1>1, <1>2 DEF Needs
  <1>5. ErrandOK(q)'
    BY <1>1, <1>2 DEF ErrandOK, LockInv, OthersPlans
  <1>6. LocksOK(q)'
    BY <1>1, <1>2, <1>3, <1>4 DEF LocksOK, LockInv
  <1> QED
    BY <1>5, <1>6

(* So a step keeps the locks in order if it does so for the process that    *)
(* takes it, unless it starts a configuration in a tree that has one.       *)
LEMMA LockStep ==
    ASSUME LockInv, NEW p \in RootProcs, Alone(p), OthersPlans(p), ErrandOK(p)', LocksOK(p)',
           phase'[p] \in Configuring \cup {"store"} =>
               \A q \in RootProcs \ {p} : phase[q] \in Configuring \cup {"store"} =>
                   Doing(q).tree # errand'[p].tree
    PROVE  LockInv'
  <1>1. \A q \in RootProcs : ErrandOK(q)' /\ LocksOK(q)'
    BY OthersKeepLocks
  <1>2. OneConfigure'
    <2> SUFFICES ASSUME NEW q \in RootProcs, NEW s \in RootProcs, q # s,
                        phase'[q] \in Configuring \cup {"store"}, phase'[s] \in Configuring \cup {"store"}
                 PROVE  errand'[q].tree # errand'[s].tree
      BY DEF OneConfigure, Doing
    <2>1. CASE q = p
      BY <2>1 DEF Alone, Keeps, Doing
    <2>2. CASE s = p
      BY <2>2 DEF Alone, Keeps, Doing
    <2>3. CASE q # p /\ s # p
      BY <2>3 DEF Alone, Keeps, Doing, OneConfigure, LockInv
    <2> QED
      BY <2>1, <2>2, <2>3
  <1>3. ProcShape'
    BY DEF Alone, OthersPlans, ProcShape
  <1> QED
    BY <1>1, <1>2, <1>3 DEF LockInv

(* None is no process, so a lock that is free is nobody's.                  *)
LEMMA UnlockedKeeps ==
    ASSUME LockInv, NEW p \in RootProcs, NEW S, rootLock' = Unlocked(p, S)
    PROVE  /\ DOMAIN rootLock' = RootLocks
           /\ \A q \in RootProcs \ {p}, k \in RootLocks : rootLock'[k] = q <=> rootLock[k] = q
           /\ Held(p)' = Held(p) \ S
  BY RootsAssumption DEF Unlocked, Held

(* The end of an errand, by itself or by a kill.                            *)
LEMMA EndKeepsLocks ==
    ASSUME LockInv, NEW p \in RootProcs, ErrandEnds(p), OthersPlans(p)
    PROVE  LockInv'
  <1>1. phase' = [phase EXCEPT ![p] = "idle"] /\ errand' = [errand EXCEPT ![p] = NoErrand]
        /\ rootLock' = Unlocked(p, RootLocks)
    BY DEF ErrandEnds, GoesOn
  <1>2. phase'[p] = "idle" /\ errand'[p] = NoErrand
    BY <1>1 DEF LockInv, ProcShape
  <1>3. Alone(p)
    BY <1>1, UnlockedKeeps DEF Alone, Keeps, LockInv, ProcShape
  <1>4. ErrandOK(p)'
    <2>1. DOMAIN NoErrand = Fields /\ NoErrand.cmd = "none"
      BY DEF NoErrand, Fields
    <2> QED
      BY <1>2, <2>1 DEF ErrandOK, Doing, Configuring, Generating, Resetting
  <1>5. LocksOK(p)'
    <2>1. Held(p)' = {}
      BY <1>1, UnlockedKeeps DEF Held
    <2>2. Doing(p)'.wants = {}
      BY <1>2 DEF Doing, NoErrand
    <2>3. Needs(p)' = {}
      BY <1>2 DEF Needs, Configuring, Generating, Resetting
    <2> QED
      BY <1>2, <2>1, <2>2, <2>3 DEF LocksOK, Writing
  <1> QED
    BY <1>2, <1>3, <1>4, <1>5, LockStep DEF Configuring

(* A step inside an errand that holds all its locks and keeps them.         *)
Onward(p) ==
    /\ rootLock' = rootLock /\ planned' = planned
    /\ DOMAIN phase' = RootProcs /\ DOMAIN errand' = RootProcs
    /\ \A q \in RootProcs \ {p} : phase'[q] = phase[q] /\ errand'[q] = errand[q]
    /\ \/ phase[p] \in Configuring /\ phase'[p] \in Configuring
       \/ phase[p] \in Resetting /\ phase'[p] \in Resetting
    /\ DOMAIN errand'[p] = Fields /\ Doing(p).wants = {}
    /\ \A f \in Fields \ {"left", "kept"} : errand'[p][f] = errand[p][f]
    /\ phase'[p] \in Configuring => errand'[p].kept \subseteq Roots

(* It leaves all the locks in order.                                        *)
LEMMA OnwardKeepsLocks ==
    ASSUME LockInv, NEW p \in RootProcs, Onward(p)
    PROVE  LockInv'
  <1>1. /\ Doing(p)'.cmd = Doing(p).cmd /\ Doing(p)'.tree = Doing(p).tree
        /\ Doing(p)'.layout = Doing(p).layout /\ Doing(p)'.root = Doing(p).root
        /\ Doing(p)'.retired = Doing(p).retired /\ Doing(p)'.wants = {}
    BY DEF Onward, Fields, Doing
  <1>2. Alone(p)
    BY DEF Onward, Alone, Keeps, LockInv, ProcShape
  <1>3. OthersPlans(p)
    BY DEF Onward, OthersPlans, LockInv, ProcShape
  <1>4. ErrandOK(p)'
    <2>1. ErrandOK(p)
      BY DEF LockInv
    <2>2. CASE phase[p] \in Configuring /\ phase'[p] \in Configuring
      BY <1>1, <2>1, <2>2 DEF ErrandOK, Onward, Configuring, Generating, Resetting, Doing
    <2>3. CASE phase[p] \in Resetting /\ phase'[p] \in Resetting
      BY <1>1, <2>1, <2>3 DEF ErrandOK, Onward, Configuring, Generating, Resetting, Doing
    <2> QED
      BY <2>2, <2>3 DEF Onward
  <1>5. LocksOK(p)'
    <2>1. Held(p)' = Held(p)
      BY DEF Held, Onward
    <2>2. Needs(p)' = Needs(p)
      BY <1>1 DEF Needs, Onward, Configuring, Generating, Resetting
    <2>3. phase'[p] # "work"
      BY DEF Onward, Configuring, Resetting
    <2> QED
      BY <1>1, <2>1, <2>2, <2>3 DEF LocksOK, LockInv, Onward
  <1>6. phase'[p] \in Configuring \cup {"store"} =>
               \A q \in RootProcs \ {p} : phase[q] \in Configuring \cup {"store"} =>
                   Doing(q).tree # errand'[p].tree
    BY <1>1 DEF Onward, LockInv, OneConfigure, Doing, Configuring, Resetting
  <1> QED
    BY <1>2, <1>3, <1>4, <1>5, <1>6, LockStep

(* A process takes its locks in their order.                                *)
LEMMA TakeLockOK ==
    ASSUME LockInv, NEW p \in RootProcs, TakeLock(p)
    PROVE  LockInv'
  <1>1. PICK k \in RootLocks :
            /\ Awaits(p, k) /\ rootLock[k] = None
            /\ rootLock' = [rootLock EXCEPT ![k] = p]
            /\ errand' = [errand EXCEPT ![p].wants = @ \ {k}]
    BY DEF TakeLock
  <1>2. phase' = phase /\ planned' = planned
    BY DEF TakeLock
  <1>3. Alone(p)
    BY <1>1, <1>2, RootsAssumption DEF Alone, Keeps, LockInv, ProcShape
  <1>4. /\ DOMAIN errand'[p] = DOMAIN errand[p] /\ Doing(p)'.wants = Doing(p).wants \ {k}
        /\ Doing(p)'.cmd = Doing(p).cmd /\ Doing(p)'.tree = Doing(p).tree
        /\ Doing(p)'.layout = Doing(p).layout /\ Doing(p)'.root = Doing(p).root
        /\ Doing(p)'.retired = Doing(p).retired /\ Doing(p)'.kept = Doing(p).kept
    <2>1. DOMAIN errand[p] = Fields
      BY DEF LockInv, ErrandOK
    <2> QED
      BY <1>1, <2>1 DEF Doing, LockInv, ProcShape, Fields
  <1>5. Held(p)' = Held(p) \cup {k}
    BY <1>1 DEF Held, LockInv, ProcShape
  <1>6. OthersPlans(p)
    BY <1>2 DEF OthersPlans, LockInv, ProcShape
  <1>7. ErrandOK(p)'
    BY <1>2, <1>4 DEF ErrandOK, LockInv
  <1>8. LocksOK(p)'
    <2>1. Needs(p)' = Needs(p)
      BY <1>2, <1>4 DEF Needs
    <2>2. k \in Doing(p).wants /\ \A l \in Doing(p).wants \ {k} : Before(k, l)
      BY <1>1 DEF Awaits
    <2> QED
      BY <1>2, <1>4, <1>5, <2>1, <2>2 DEF LocksOK, LockInv
  <1>9. phase'[p] \in Configuring \cup {"store"} =>
               \A q \in RootProcs \ {p} : phase[q] \in Configuring \cup {"store"} =>
                   Doing(q).tree # errand'[p].tree
    BY <1>2, <1>4 DEF LockInv, OneConfigure, Doing
  <1> QED
    BY <1>3, <1>6, <1>7, <1>8, <1>9, LockStep

(* A configuration that is accepted holds all the locks of its roots.       *)
LEMMA ValidatesLocks ==
    ASSUME LockInv, NEW p \in RootProcs, Validates(p)
    PROVE  LockInv'
  <1> DEFINE e == Doing(p)
             f == [e EXCEPT !.left = {r \in DOMAIN e.layout : claims[r] = None},
                            !.kept = ActiveRetired(e.tree, e.retired)]
  <1>1. planned' = planned /\ phase[p] = "validate" /\ e.wants = {}
    BY DEF Validates, AtPhase
  <1>2. CASE GoesOn(p, "claim", f) /\ UNCHANGED rootLock
    <2>1. DOMAIN e = Fields /\ e.retired \subseteq Roots
      BY <1>1 DEF LockInv, ErrandOK, Doing, Configuring
    <2>2. DOMAIN f = Fields /\ (\A x \in Fields \ {"left", "kept"} : f[x] = e[x])
          /\ f.kept = ActiveRetired(e.tree, e.retired)
      BY <2>1 DEF Fields
    <2>3. f.kept \subseteq Roots
      BY <2>1, <2>2 DEF ActiveRetired
    <2>4. errand'[p] = f /\ phase'[p] = "claim"
      BY <1>2 DEF GoesOn, LockInv, ProcShape
    <2>5. Onward(p)
      BY <1>1, <1>2, <2>2, <2>3, <2>4 DEF Onward, GoesOn, LockInv, ProcShape, Configuring, Doing
    <2> QED
      BY <2>5, OnwardKeepsLocks
  <1>3. CASE ErrandEnds(p)
    BY <1>1, <1>3, EndKeepsLocks DEF OthersPlans, LockInv, ProcShape
  <1> QED
    BY <1>2, <1>3 DEF Validates

(* One root is done: the errand keeps all but what is left of its roots.    *)
LEMMA RootDone ==
    ASSUME LockInv, NEW p \in RootProcs, NEW r, phase[p] \in Writing \ {"release"},
           errand' = [errand EXCEPT ![p].left = @ \ {r}], UNCHANGED <<phase, rootLock, planned>>
    PROVE  /\ LockInv'
           /\ errand'[p].left = errand[p].left \ {r}
           /\ \A f \in Fields \ {"left"} : errand'[p][f] = errand[p][f]
  <1>1. Doing(p).wants = {} /\ DOMAIN errand[p] = Fields /\ Doing(p).kept \subseteq Roots
    BY DEF LockInv, LocksOK, Writing, ErrandOK, Configuring
  <1>2. errand'[p] = [errand[p] EXCEPT !.left = @ \ {r}]
    BY DEF LockInv, ProcShape
  <1>3. /\ DOMAIN errand'[p] = Fields
        /\ errand'[p].left = errand[p].left \ {r}
        /\ \A f \in Fields \ {"left"} : errand'[p][f] = errand[p][f]
    BY <1>1, <1>2 DEF Fields
  <1>4. \A q \in RootProcs \ {p} : errand'[q] = errand[q]
    BY DEF LockInv, ProcShape
  <1>5. errand'[p].kept = errand[p].kept
    BY <1>3 DEF Fields
  <1>6. Onward(p)
    BY <1>1, <1>3, <1>4, <1>5 DEF Onward, LockInv, ProcShape, Configuring, Writing, Doing
  <1> QED
    BY <1>3, <1>4, <1>6, OnwardKeepsLocks

(* The next round of roots begins, with the same errand.                    *)
LEMMA NextRound ==
    ASSUME LockInv, NEW p \in RootProcs, NEW label \in {"retire", "commit"}, NEW roots,
           phase[p] \in {"claim", "retire"},
           GoesOn(p, label, [Doing(p) EXCEPT !.left = roots]), UNCHANGED <<rootLock, planned>>
    PROVE  /\ LockInv'
           /\ phase'[p] = label /\ errand'[p].left = roots
           /\ \A f \in Fields \ {"left"} : errand'[p][f] = errand[p][f]
  <1>1. Doing(p).wants = {} /\ DOMAIN errand[p] = Fields /\ Doing(p).kept \subseteq Roots
    BY DEF LockInv, LocksOK, Writing, ErrandOK, Configuring
  <1>2. errand'[p] = [errand[p] EXCEPT !.left = roots] /\ phase'[p] = label
    BY DEF GoesOn, LockInv, ProcShape, Doing
  <1>3. /\ DOMAIN errand'[p] = Fields
        /\ errand'[p].left = roots
        /\ \A f \in Fields \ {"left"} : errand'[p][f] = errand[p][f]
    BY <1>1, <1>2 DEF Fields
  <1>4. \A q \in RootProcs \ {p} : errand'[q] = errand[q] /\ phase'[q] = phase[q]
    BY DEF LockInv, ProcShape, GoesOn
  <1>5. errand'[p].kept = errand[p].kept
    BY <1>3 DEF Fields
  <1>6. Onward(p)
    BY <1>1, <1>2, <1>3, <1>4, <1>5 DEF Onward, LockInv, ProcShape, Configuring, GoesOn, Doing
  <1> QED
    BY <1>2, <1>3, <1>4, <1>6, OnwardKeepsLocks

(* Claiming a root, or going on to those that are retired.                  *)
LEMMA ClaimsLocks ==
    ASSUME LockInv, NEW p \in RootProcs, Claims(p)
    PROVE  LockInv'
  <1> DEFINE e == Doing(p)
  <1>1. planned' = planned /\ phase[p] = "claim" /\ rootLock' = rootLock
    BY DEF Claims
  <1>2. CASE \E r \in e.left : errand' = [errand EXCEPT ![p].left = @ \ {r}] /\ UNCHANGED phase
    BY <1>1, <1>2, RootDone DEF Writing
  <1>3. CASE GoesOn(p, "retire", [e EXCEPT !.left = e.kept])
    BY <1>1, <1>3, NextRound
  <1> QED
    BY <1>2, <1>3 DEF Claims

(* Retiring a root, or going on to those of the layout.                     *)
LEMMA RetiresLocks ==
    ASSUME LockInv, NEW p \in RootProcs, Retires(p)
    PROVE  LockInv'
  <1> DEFINE e == Doing(p)
  <1>1. planned' = planned /\ phase[p] = "retire" /\ rootLock' = rootLock
    BY DEF Retires
  <1>2. CASE \E r \in e.left : errand' = [errand EXCEPT ![p].left = @ \ {r}] /\ UNCHANGED phase
    BY <1>1, <1>2, RootDone DEF Writing
  <1>3. CASE GoesOn(p, "commit", [e EXCEPT !.left = DOMAIN e.layout])
    BY <1>1, <1>3, NextRound
  <1> QED
    BY <1>2, <1>3 DEF Retires

(* Committing a root, or releasing the locks when all are committed.        *)
LEMMA CommitsLocks ==
    ASSUME LockInv, NEW p \in RootProcs, Commits(p)
    PROVE  LockInv'
  <1> DEFINE e == Doing(p)
  <1>1. planned' = planned /\ phase[p] = "commit"
    BY DEF Commits
  <1>2. Doing(p).wants = {} /\ DOMAIN errand[p] = Fields
    BY <1>1 DEF LockInv, LocksOK, Writing, ErrandOK
  <1>3. CASE \E r \in e.left : errand' = [errand EXCEPT ![p].left = @ \ {r}]
                               /\ UNCHANGED <<phase, rootLock>>
    BY <1>1, <1>3, RootDone DEF Writing
  <1>4. CASE GoesOn(p, "store", e) /\ rootLock' = Unlocked(p, RootLocks)
    <2>1. phase'[p] = "store" /\ errand' = [errand EXCEPT ![p] = errand[p]] /\ Doing(p)' = Doing(p)
      BY <1>4 DEF GoesOn, Doing, LockInv, ProcShape
    <2>2. Alone(p)
      BY <1>4, UnlockedKeeps DEF Alone, Keeps, GoesOn, LockInv, ProcShape
    <2>3. OthersPlans(p)
      BY <1>1 DEF OthersPlans, LockInv, ProcShape
    <2>4. ErrandOK(p)'
      BY <1>1, <2>1 DEF ErrandOK, LockInv, Configuring, Generating, Resetting
    <2>5. LocksOK(p)'
      <3>1. Held(p)' = {}
        BY <1>4, UnlockedKeeps DEF Held
      <3>2. Needs(p)' = {}
        BY <2>1 DEF Needs, Configuring, Generating, Resetting
      <3> QED
        BY <1>2, <2>1, <3>1, <3>2 DEF LocksOK, Writing
    <2>6. \A q \in RootProcs \ {p} : phase[q] \in Configuring \cup {"store"} =>
              Doing(q).tree # errand'[p].tree
      BY <1>1, <2>1 DEF LockInv, OneConfigure, Doing, Configuring
    <2> QED
      BY <2>2, <2>3, <2>4, <2>5, <2>6, LockStep
  <1> QED
    BY <1>3, <1>4 DEF Commits

(* What CMake stores is about the roots of the layout and those it kept.    *)
LEMMA StoredRoots ==
    ASSUME NEW e
    PROVE  DOMAIN StoredPlans(e) = DOMAIN e.layout \cup e.kept
  BY DEF StoredPlans, WrittenOver

(* Storing the plan files of the tree ends a configuration.                 *)
LEMMA StoresLocks ==
    ASSUME LockInv, NEW p \in RootProcs, Stores(p)
    PROVE  LockInv'
  <1>1. ErrandEnds(p) /\ phase[p] = "store"
        /\ planned' = [planned EXCEPT ![Doing(p).tree] = StoredPlans(Doing(p))]
    BY DEF Stores
  <1>2. DOMAIN StoredPlans(Doing(p)) \subseteq Roots
    BY <1>1, StoredRoots DEF LockInv, ErrandOK
  <1>3. OthersPlans(p)
    BY <1>1, <1>2 DEF OthersPlans, LockInv, ProcShape, OneConfigure, ErrandOK
  <1> QED
    BY <1>1, <1>3, EndKeepsLocks

(* A generation goes to work without its publication lock, the later one.   *)
LEMMA StagesLocks ==
    ASSUME LockInv, NEW p \in RootProcs, StagesAnew(p)
    PROVE  LockInv'
  <1> DEFINE e == Doing(p)
             publication == LockOf("publication", e.root)
             f == [e EXCEPT !.wants = {publication}]
  <1>1. planned' = planned /\ phase[p] = "check" /\ e.wants = {}
    BY DEF StagesAnew, AtPhase
  <1>2. OthersPlans(p)
    BY <1>1 DEF OthersPlans, LockInv, ProcShape
  <1>3. CASE ErrandEnds(p)
    BY <1>2, <1>3, EndKeepsLocks
  <1>4. CASE GoesOn(p, "work", f) /\ rootLock' = Unlocked(p, {publication})
    <2>1. ErrandOK(p) /\ LocksOK(p)
      BY DEF LockInv
    <2>2. DOMAIN e = Fields
      BY <2>1 DEF ErrandOK, Doing
    <2>3. /\ DOMAIN f = Fields /\ f.wants = {publication} /\ f.cmd = e.cmd /\ f.tree = e.tree
          /\ f.root = e.root /\ f.layout = e.layout /\ f.retired = e.retired
      BY <2>2 DEF Fields
    <2>4. phase'[p] = "work" /\ errand'[p] = f
      BY <1>4 DEF GoesOn, LockInv, ProcShape
    <2>5. Alone(p)
      BY <1>4, UnlockedKeeps DEF Alone, Keeps, GoesOn, LockInv, ProcShape
    <2>6. ErrandOK(p)'
      BY <1>1, <2>1, <2>3, <2>4 DEF ErrandOK, Doing, Configuring, Generating, Resetting
    <2>7. Held(p) = {LockOf("generation", e.root), publication}
      BY <1>1, <2>1 DEF LocksOK, Needs, Configuring, Generating
    <2>8. LockOf("generation", e.root) # publication /\ Before(LockOf("generation", e.root), publication)
      BY DEF LockOf, Before, Turn
    <2>9. Held(p)' = {LockOf("generation", e.root)}
      BY <1>4, <2>7, <2>8, UnlockedKeeps
    <2>10. Needs(p)' = {LockOf("generation", e.root), publication}
      BY <2>3, <2>4 DEF Needs, Configuring, Generating, Doing
    <2>11. LocksOK(p)'
      BY <2>3, <2>4, <2>8, <2>9, <2>10 DEF LocksOK, Writing, Doing
    <2> QED
      BY <1>2, <2>4, <2>5, <2>6, <2>11, LockStep DEF Configuring
  <1> QED
    BY <1>3, <1>4 DEF StagesAnew

(* A reset that purges its root keeps its locks, or ends.                   *)
LEMMA PurgesLocks ==
    ASSUME LockInv, NEW p \in RootProcs, Purges(p)
    PROVE  LockInv'
  <1>1. planned' = planned /\ phase[p] = "purge" /\ Doing(p).wants = {}
    BY DEF Purges, AtPhase
  <1>2. CASE ErrandEnds(p)
    BY <1>1, <1>2, EndKeepsLocks DEF OthersPlans, LockInv, ProcShape
  <1>3. CASE GoesOn(p, "release", Doing(p)) /\ UNCHANGED rootLock
    <2>1. DOMAIN errand[p] = Fields
      BY DEF LockInv, ErrandOK
    <2>2. phase'[p] = "release" /\ errand'[p] = errand[p]
      BY <1>3 DEF GoesOn, LockInv, ProcShape, Doing
    <2>3. Onward(p)
      BY <1>1, <1>3, <2>1, <2>2 DEF Onward, GoesOn, LockInv, ProcShape, Configuring, Resetting
    <2> QED
      BY <2>3, OnwardKeepsLocks
  <1> QED
    BY <1>2, <1>3 DEF Purges

(* Generations and resets that end, and errands that are killed.            *)
LEMMA EndsLocks ==
    ASSUME LockInv, NEW p \in RootProcs, ProtocFails(p) \/ Publishes(p) \/ Unclaims(p) \/ KillErrand(p)
    PROVE  LockInv'
  <1>1. planned' = planned /\ ErrandEnds(p)
    BY DEF ProtocFails, Publishes, Unclaims, KillErrand
  <1> QED
    BY <1>1, EndKeepsLocks DEF OthersPlans, LockInv, ProcShape

(* A command begins without a lock, and wants those that its phase needs.   *)
LEMMA BeginKeepsLocks ==
    ASSUME LockInv, NEW p \in RootProcs, NEW event, NEW label \in {"validate", "check", "purge"},
           NEW e, Begins(p, event, label, e), DOMAIN e = Fields, OthersPlans(p),
           e.tree \in RootTrees,
           e.cmd = "configure" <=> label = "validate", e.cmd = "reset" <=> label = "purge",
           label = "validate" =>
               /\ DOMAIN e.layout \subseteq Roots /\ e.retired \subseteq Roots /\ e.kept = {}
               /\ DOMAIN e.layout \cap e.retired = {}
               /\ DOMAIN planned'[e.tree] = DOMAIN e.layout \cup e.retired
               /\ e.wants = LocksOf(e.retired \cup DOMAIN e.layout)
               /\ \A q \in RootProcs : phase[q] \in Configuring \cup {"store"} => Doing(q).tree # e.tree,
           label = "check" =>
               e.root \in Roots /\ e.wants = {LockOf("generation", e.root), LockOf("publication", e.root)},
           label = "purge" => e.root \in Roots /\ e.wants = LocksOf({e.root})
    PROVE  LockInv'
  <1>1. /\ phase[p] = "idle" /\ rootLock' = rootLock
        /\ phase' = [phase EXCEPT ![p] = label] /\ errand' = [errand EXCEPT ![p] = e]
    BY DEF Begins, GoesOn
  <1>2. phase'[p] = label /\ errand'[p] = e
    BY <1>1 DEF LockInv, ProcShape
  <1>3. Alone(p)
    BY <1>1 DEF Alone, Keeps, LockInv, ProcShape
  <1>4. ErrandOK(p)'
    BY <1>2 DEF ErrandOK, Doing, Configuring, Generating, Resetting
  <1>5. LocksOK(p)'
    <2>1. Held(p) = {}
      BY <1>1 DEF LockInv, LocksOK, Needs, Configuring, Generating, Resetting
    <2>2. Held(p)' = {}
      BY <1>1, <2>1 DEF Held
    <2>3. Needs(p)' = e.wants
      BY <1>2 DEF Needs, Configuring, Generating, Resetting, Doing
    <2> QED
      BY <1>2, <2>2, <2>3 DEF LocksOK, Writing, Doing
  <1> QED
    BY <1>2, <1>3, <1>4, <1>5, LockStep DEF Configuring

(* A configuration is the only one in its tree, and its plan files are      *)
(* those of the roots of the layout and of the retired ones.                *)
LEMMA ConfigureLocks ==
    ASSUME LockInv, NEW p \in RootProcs, NEW b \in RootTrees, NEW layout \in UNION Range(Layouts),
           layout \in Layouts[b], Configure(p, b, layout)
    PROVE  LockInv'
  <1> DEFINE retired == DOMAIN planned[b] \ DOMAIN layout
             e == [NoErrand EXCEPT !.cmd = "configure", !.tree = b, !.layout = layout,
                      !.retired = retired, !.wants = LocksOf(retired \cup DOMAIN layout)]
  <1>1. /\ \A q \in RootProcs : Doing(q).cmd = "configure" => Doing(q).tree # b
        /\ planned' = [planned EXCEPT ![b] = WrittenOver(layout, @)]
        /\ Begins(p, "configures", "validate", e)
    BY DEF Configure
  <1>2. /\ DOMAIN e = Fields /\ e.cmd = "configure" /\ e.tree = b /\ e.layout = layout
        /\ e.retired = retired /\ e.kept = {} /\ e.wants = LocksOf(retired \cup DOMAIN layout)
    BY DEF NoErrand, Fields
  <1>3. DOMAIN layout \subseteq Roots /\ DOMAIN planned[b] \subseteq Roots
    BY RootsAssumption DEF LockInv, ProcShape
  <1>4. /\ DOMAIN planned' = RootTrees /\ DOMAIN planned'[b] = DOMAIN layout \cup retired
        /\ \A c \in RootTrees \ {b} : planned'[c] = planned[c]
    BY <1>1 DEF WrittenOver, LockInv, ProcShape
  <1>5. \A q \in RootProcs : phase[q] \in Configuring \cup {"store"} =>
            Doing(q).tree \in RootTrees \ {b}
    BY <1>1 DEF LockInv, ErrandOK
  <1>6. OthersPlans(p)
    BY <1>3, <1>4, <1>5 DEF OthersPlans, LockInv, ProcShape
  <1> HIDE DEF e
  <1> QED
    BY <1>1, <1>2, <1>3, <1>4, <1>5, <1>6, BeginKeepsLocks

(* A generation begins.                                                     *)
LEMMA GenerateLocks ==
    ASSUME LockInv, NEW p \in RootProcs, NEW b \in RootTrees, NEW r \in Roots, NEW t, Generate(p, b, r, t)
    PROVE  LockInv'
  <1> DEFINE e == [NoErrand EXCEPT !.cmd = "generate", !.tree = b, !.root = r, !.target = t,
                       !.wants = {LockOf("generation", r), LockOf("publication", r)}]
  <1>1. Begins(p, "generates", "check", e) /\ planned' = planned
    BY DEF Generate
  <1>2. /\ DOMAIN e = Fields /\ e.cmd = "generate" /\ e.tree = b /\ e.root = r
        /\ e.wants = {LockOf("generation", r), LockOf("publication", r)}
    BY DEF NoErrand, Fields
  <1>3. OthersPlans(p)
    BY <1>1 DEF OthersPlans, LockInv, ProcShape
  <1> HIDE DEF e
  <1> QED
    BY <1>1, <1>2, <1>3, BeginKeepsLocks

(* A reset begins, for the tree that has the claim.                         *)
LEMMA ResetLocks ==
    ASSUME LockInv, NEW p \in RootProcs, NEW r \in Roots, Reset(p, r), claims[r] \in OrNone(RootTrees)
    PROVE  LockInv'
  <1> DEFINE e == [NoErrand EXCEPT !.cmd = "reset", !.tree = claims[r], !.root = r,
                       !.wants = LocksOf({r})]
  <1>1. Begins(p, "resets", "purge", e) /\ planned' = planned /\ claims[r] \in RootTrees
    BY DEF Reset, OrNone
  <1>2. /\ DOMAIN e = Fields /\ e.cmd = "reset" /\ e.tree = claims[r] /\ e.root = r
        /\ e.wants = LocksOf({r})
    BY DEF NoErrand, Fields
  <1>3. OthersPlans(p)
    BY <1>1 DEF OthersPlans, LockInv, ProcShape
  <1> HIDE DEF e
  <1> QED
    BY <1>1, <1>2, <1>3, BeginKeepsLocks

(* A tree is deleted while no configuration or generation runs in it.       *)
LEMMA DeleteTreeLocks ==
    ASSUME LockInv, NEW b \in RootTrees, DeleteTree(b)
    PROVE  LockInv'
  <1>1. /\ planned' = [planned EXCEPT ![b] = NoLayout]
        /\ phase' = phase /\ errand' = errand /\ rootLock' = rootLock
        /\ \A p \in RootProcs : Doing(p).cmd # "reset" => Doing(p).tree # b
    BY DEF DeleteTree
  <1>2. ProcShape'
    BY <1>1 DEF LockInv, ProcShape, NoLayout
  <1>3. \A p \in RootProcs : ErrandOK(p)'
    BY <1>1 DEF LockInv, ProcShape, ErrandOK, Doing, Configuring, Resetting
  <1>4. ASSUME NEW p \in RootProcs PROVE LocksOK(p)'
    <2>1. Held(p)' = Held(p) /\ Needs(p)' = Needs(p) /\ Doing(p)' = Doing(p)
      BY <1>1 DEF Held, Needs, Doing
    <2>2. LocksOK(p)
      BY DEF LockInv
    <2> QED
      BY <1>1, <2>1, <2>2 DEF LocksOK
  <1>5. OneConfigure'
    BY <1>1 DEF LockInv, OneConfigure, Doing
  <1> QED
    BY <1>2, <1>3, <1>4, <1>5 DEF LockInv

(* At first nothing is locked or wanted.                                    *)
LEMMA LockInvInit == RootInit(RootScenarios) => LockInv
  <1> SUFFICES ASSUME RootInit(RootScenarios) PROVE LockInv
    OBVIOUS
  <1>1. /\ phase = [p \in RootProcs |-> "idle"] /\ errand = [p \in RootProcs |-> NoErrand]
        /\ rootLock = [k \in RootLocks |-> None] /\ planned = [b \in RootTrees |-> NoLayout]
    BY DEF RootInit
  <1>2. ProcShape /\ OneConfigure
    BY <1>1 DEF ProcShape, OneConfigure, NoLayout, Configuring
  <1>3. ASSUME NEW p \in RootProcs PROVE ErrandOK(p) /\ LocksOK(p)
    <2>1. phase[p] = "idle" /\ errand[p] = NoErrand
      BY <1>1
    <2>2. DOMAIN NoErrand = Fields /\ NoErrand.cmd = "none" /\ NoErrand.wants = {}
      BY DEF NoErrand, Fields
    <2>3. ErrandOK(p)
      BY <2>1, <2>2 DEF ErrandOK, Doing, Configuring, Generating, Resetting
    <2>4. Held(p) = {}
      BY <1>1, RootsAssumption DEF Held
    <2>5. LocksOK(p)
      BY <2>1, <2>2, <2>4 DEF LocksOK, Needs, Doing, Configuring, Generating, Resetting, Writing
    <2> QED
      BY <2>3, <2>5
  <1> QED
    BY <1>2, <1>3 DEF LockInv

(* Every step keeps the locks in order.                                     *)
LEMMA LockInvNext ==
    ASSUME LockInv, claims \in [Roots -> OrNone(RootTrees)], RootNext
    PROVE  LockInv'
  <1>1. CASE \E p \in RootProcs : RootStep(p)
    BY <1>1, TakeLockOK, ValidatesLocks, ClaimsLocks, RetiresLocks, CommitsLocks, StoresLocks,
       StagesLocks, PurgesLocks, EndsLocks DEF RootStep
  <1>2. CASE \E p \in RootProcs : KillErrand(p)
    BY <1>2, EndsLocks
  <1>3. CASE \E p \in RootProcs, b \in RootTrees, layout \in UNION Range(Layouts) :
                layout \in Layouts[b] /\ Configure(p, b, layout)
    BY <1>3, ConfigureLocks
  <1>4. CASE \E p \in RootProcs, b \in RootTrees, r \in Roots, t \in TargetNames : Generate(p, b, r, t)
    BY <1>4, GenerateLocks
  <1>5. CASE \E p \in RootProcs, r \in Roots : Reset(p, r)
    BY <1>5, ResetLocks
  <1>6. CASE \E b \in RootTrees : DeleteTree(b)
    BY <1>6, DeleteTreeLocks
  <1> QED
    BY <1>1, <1>2, <1>3, <1>4, <1>5, <1>6 DEF RootNext

---------------------------------------------------------------------------
(* Paths *)

(* Whether two paths overlap does not depend on their order.                *)
LEMMA OverlapSymmetric ==
    ASSUME NEW p, NEW q
    PROVE  Overlap(p, q) <=> Overlap(q, p)
  BY DEF Overlap

(* The staging of a root is a path, and overlaps itself.                    *)
LEMMA StagingIsPath ==
    ASSUME NEW r \in Roots, NEW t
    PROVE  /\ Staging(r, t) \in Seq(Range(r) \cup {t})
           /\ Overlap(Staging(r, t), Staging(r, t))
  <1>1. r \in Seq(Range(r))
    BY RootsAssumption
  <1>2. Front(r) \in Seq(Range(r) \cup {t})
    <2>1. r \in Seq(Range(r) \cup {t})
      BY <1>1
    <2> QED
      BY <2>1 DEF Front
  <1>3. Staging(r, t) \in Seq(Range(r) \cup {t})
    BY <1>2 DEF Staging
  <1>4. Len(Staging(r, t)) \in Nat
    BY <1>3
  <1> QED
    BY <1>3, <1>4 DEF Overlap, IsPrefix

(* The stagings of a root lie side by side.                                 *)
LEMMA StagingsApart ==
    ASSUME NEW r \in Roots, NEW t, NEW u, Overlap(Staging(r, t), Staging(r, u))
    PROVE  t = u
  <1> DEFINE V == Range(r) \cup {t, u}
             f == Front(r)
  <1>1. f \in Seq(V)
    <2>1. r \in Seq(Range(r))
      BY RootsAssumption
    <2>2. r \in Seq(V)
      BY <2>1
    <2> QED
      BY <2>2 DEF Front
  <1>2. /\ Append(f, t) \in Seq(V) /\ Append(f, u) \in Seq(V)
        /\ Len(Append(f, t)) = Len(f) + 1 /\ Len(Append(f, u)) = Len(f) + 1
        /\ Append(f, t)[Len(f) + 1] = t /\ Append(f, u)[Len(f) + 1] = u
    BY <1>1
  <1> HIDE DEF f
  <1> DEFINE n == Len(f) + 1
  <1>3. n \in Nat /\ n >= 1
    BY <1>1
  <1>4. SubSeq(Append(f, t), 1, n) = SubSeq(Append(f, u), 1, n)
    BY <1>2 DEF Overlap, IsPrefix, Staging, f
  <1>5. SubSeq(Append(f, t), 1, n)[n] = Append(f, t)[n] /\ SubSeq(Append(f, u), 1, n)[n] = Append(f, u)[n]
    BY <1>2, <1>3
  <1> QED
    BY <1>2, <1>4, <1>5

---------------------------------------------------------------------------
(* The registry *)

RegistryShape ==
    /\ claims \in [Roots -> OrNone(RootTrees)] /\ DOMAIN recorded = Roots
    /\ DOMAIN stagings = StagingPaths
(* A root without a claim has no plan.                                      *)
UnclaimedEmpty == \A r \in Roots : claims[r] = None => recorded[r] = {}
(* How far a configuration is that was accepted: which roots it has claimed *)
(* and which plans it has removed.                                          *)
Accepted == {"claim", "retire", "commit"}
UnderwayOK(p) ==
    LET e == Doing(p)
    IN /\ phase[p] \in Accepted =>
              /\ Accepts(e.tree, e.retired, e.layout)
              /\ e.kept = ActiveRetired(e.tree, e.retired)
       /\ phase[p] = "claim" =>
              /\ e.left \subseteq DOMAIN e.layout
              /\ \A r \in e.left : claims[r] = None
              /\ \A r \in DOMAIN e.layout \ e.left : claims[r] = e.tree
       /\ phase[p] \in {"retire", "commit"} => \A r \in DOMAIN e.layout : claims[r] = e.tree
       /\ phase[p] = "retire" =>
              e.left \subseteq e.kept /\ \A r \in e.kept \ e.left : recorded[r] = {}
       /\ phase[p] = "commit" =>
              e.left \subseteq DOMAIN e.layout /\ \A r \in e.kept : recorded[r] = {}
RegistryInv ==
    /\ RegistryShape /\ UnclaimedEmpty /\ RootsKeepApart
    /\ \A p \in RootProcs : UnderwayOK(p)

(* Who writes the registry holds its lock.                                  *)
LEMMA OneWrites ==
    ASSUME LockInv, NEW p \in RootProcs, NEW q \in RootProcs, phase[p] \in Writing, phase[q] \in Writing
    PROVE  p = q
  <1>1. ASSUME NEW s \in RootProcs, phase[s] \in Writing PROVE rootLock[RegistryLock] = s
    <2>1. RegistryLock \in Needs(s)
      BY <1>1 DEF Needs, Writing, Configuring, Generating, Resetting, LocksOf
    <2>2. Doing(s).wants = {} /\ Held(s) \cup Doing(s).wants = Needs(s)
      BY <1>1 DEF LockInv, LocksOK
    <2> QED
      BY <2>1, <2>2 DEF Held
  <1> QED
    BY <1>1

(* The rules of a registry bear fewer roots and smaller plans.              *)
LEMMA FewerKeepApart ==
    ASSUME RegistryInv, DOMAIN claims' = Roots, DOMAIN recorded' = Roots,
           \A r \in Roots : claims'[r] \in {claims[r], None} /\ recorded'[r] \subseteq recorded[r]
    PROVE  RootsKeepApart'
  <1>1. RootsKeepApart
    BY DEF RegistryInv
  <1>2. \A r \in Roots : claims'[r] # None => claims[r] # None
    OBVIOUS
  <1>3. \A r \in Roots : StagingsOf(r, recorded[r])' \subseteq StagingsOf(r, recorded[r])
    BY DEF StagingsOf
  <1> QED
    BY <1>1, <1>2, <1>3 DEF RootsKeepApart

(* A configuration is accepted also by a registry with smaller plans.       *)
LEMMA SmallerAccepted ==
    ASSUME NEW b, NEW retired, NEW layout, Accepts(b, retired, layout), claims' = claims,
           \A r \in Roots : recorded'[r] \subseteq recorded[r]
    PROVE  Accepts(b, retired, layout)'
  <1>1. RegistryValid(b, retired, layout)'
    <2> SUFFICES ASSUME NEW c \in Roots, claims[c] # None
                 PROVE  KeepsFrom(b, retired, layout, c)'
      BY DEF RegistryValid
    <2>1. KeepsFrom(b, retired, layout, c)
      BY DEF Accepts, RegistryValid
    <2>2. StagingsOf(c, recorded[c])' \subseteq StagingsOf(c, recorded[c])
      BY DEF StagingsOf
    <2> QED
      BY <2>1, <2>2 DEF KeepsFrom, MayShare
  <1>2. PlansRead(layout)' /\ PlanSetValid(layout)' /\ OwnsCurrent(b, layout)'
    BY DEF Accepts, PlansRead, PlanSetValid, OwnsCurrent
  <1> QED
    BY <1>1, <1>2 DEF Accepts

(* No other configuration is underway when a process writes the registry.   *)
LEMMA OthersUnderway ==
    ASSUME LockInv, RegistryInv, NEW p \in RootProcs, phase[p] \in Writing, Alone(p)
    PROVE  \A q \in RootProcs \ {p} : UnderwayOK(q)'
  <1> SUFFICES ASSUME NEW q \in RootProcs \ {p} PROVE UnderwayOK(q)'
    OBVIOUS
  <1>1. phase[q] \notin Writing
    BY OneWrites
  <1>2. phase'[q] = phase[q]
    BY DEF Alone, Keeps
  <1> QED
    BY <1>1, <1>2 DEF UnderwayOK, Writing, Accepted

(* A step of an errand is about its process only.                           *)
LEMMA AloneIf ==
    ASSUME LockInv, NEW p \in RootProcs,
           \/ \E label, e : GoesOn(p, label, e)
           \/ phase' = phase /\ \E r : errand' = [errand EXCEPT ![p].left = @ \ {r}],
           rootLock' = rootLock \/ \E S : rootLock' = Unlocked(p, S)
    PROVE  Alone(p)
  <1>1. DOMAIN phase' = RootProcs /\ DOMAIN errand' = RootProcs
        /\ \A q \in RootProcs \ {p} : phase'[q] = phase[q] /\ errand'[q] = errand[q]
    BY DEF GoesOn, LockInv, ProcShape
  <1>2. DOMAIN rootLock' = RootLocks
        /\ \A q \in RootProcs \ {p}, k \in RootLocks : rootLock'[k] = q <=> rootLock[k] = q
    BY UnlockedKeeps DEF LockInv, ProcShape
  <1> QED
    BY <1>1, <1>2 DEF Alone, Keeps

(* Steps that leave the registry alone leave it and the others in order.    *)
LEMMA SameRegistry ==
    ASSUME LockInv, RegistryInv, NEW p \in RootProcs, Alone(p), UNCHANGED registry,
           DOMAIN stagings' = StagingPaths,
           phase'[p] \in Accepted => UnderwayOK(p)'
    PROVE  RegistryInv'
  <1>1. claims' = claims /\ recorded' = recorded
    BY DEF registry
  <1>2. \A q \in RootProcs \ {p} : UnderwayOK(q)'
    <2> SUFFICES ASSUME NEW q \in RootProcs \ {p} PROVE UnderwayOK(q)'
      OBVIOUS
    <2>1. phase'[q] = phase[q] /\ errand'[q] = errand[q] /\ UnderwayOK(q)
      BY DEF Alone, Keeps, RegistryInv
    <2>2. /\ \A b, d, l : Accepts(b, d, l)' <=> Accepts(b, d, l)
          /\ \A b, d : ActiveRetired(b, d)' = ActiveRetired(b, d)
      BY <1>1 DEF Accepts, PlansRead, PlanSetValid, RegistryValid, OwnsCurrent, KeepsFrom, MayShare,
                  ActiveRetired
    <2> QED
      BY <1>1, <2>1, <2>2 DEF UnderwayOK, Doing
  <1>3. UnderwayOK(p)'
    BY DEF UnderwayOK, Accepted
  <1>4. RootsKeepApart'
    BY <1>1 DEF RegistryInv, RootsKeepApart
  <1> QED
    BY <1>1, <1>2, <1>3, <1>4 DEF RegistryInv, RegistryShape, UnclaimedEmpty

(* A configuration that is accepted goes on to claim what has no claim.     *)
LEMMA ValidatesRegistry ==
    ASSUME LockInv, RegistryInv, NEW p \in RootProcs, Validates(p)
    PROVE  RegistryInv'
  <1> DEFINE e == Doing(p)
             f == [e EXCEPT !.left = {r \in DOMAIN e.layout : claims[r] = None},
                            !.kept = ActiveRetired(e.tree, e.retired)]
  <1>1. UNCHANGED registry /\ stagings' = stagings /\ phase[p] = "validate"
    BY DEF Validates, AtPhase
  <1>2. Alone(p)
    BY AloneIf DEF Validates, ErrandEnds
  <1>3. CASE ErrandEnds(p)
    <2>1. phase'[p] = "idle"
      BY <1>3 DEF ErrandEnds, GoesOn, LockInv, ProcShape
    <2> QED
      BY <1>1, <1>2, <2>1, SameRegistry DEF RegistryInv, RegistryShape, Accepted
  <1>4. CASE Accepts(e.tree, e.retired, e.layout) /\ GoesOn(p, "claim", f)
    <2>1. phase'[p] = "claim" /\ errand'[p] = f
      BY <1>4 DEF GoesOn, LockInv, ProcShape
    <2>2. DOMAIN e = Fields
      BY DEF LockInv, ErrandOK, Doing
    <2>3. /\ f.tree = e.tree /\ f.layout = e.layout /\ f.retired = e.retired
          /\ f.left = {r \in DOMAIN e.layout : claims[r] = None}
          /\ f.kept = ActiveRetired(e.tree, e.retired)
      BY <2>2 DEF Fields
    <2>4. OwnsCurrent(e.tree, e.layout)
      BY <1>4 DEF Accepts
    <2>5. claims' = claims /\ recorded' = recorded
      BY <1>1 DEF registry
    <2>6. /\ Accepts(e.tree, e.retired, e.layout)'
          /\ ActiveRetired(e.tree, e.retired)' = ActiveRetired(e.tree, e.retired)
      <3>1. Doing(p)'.tree = e.tree /\ Doing(p)'.retired = e.retired /\ Doing(p)'.layout = e.layout
        BY <2>1, <2>3 DEF Doing
      <3> QED
        BY <1>4, <2>5, <3>1 DEF Accepts, PlansRead, PlanSetValid, RegistryValid, OwnsCurrent, KeepsFrom,
                           MayShare, ActiveRetired
    <2>7. UnderwayOK(p)'
      <3>1. Doing(p)' = f
        BY <2>1 DEF Doing
      <3> QED
        BY <2>1, <2>3, <2>4, <2>5, <2>6, <3>1 DEF UnderwayOK, OwnsCurrent
    <2> QED
      BY <1>1, <1>2, <2>7, SameRegistry DEF RegistryInv, RegistryShape
  <1> QED
    BY <1>3, <1>4 DEF Validates

(* A root of a layout lies apart from all that the layout puts elsewhere.   *)
LEMMA LayoutApart ==
    ASSUME NEW layout, PlansRead(layout), PlanSetValid(layout),
           NEW r \in DOMAIN layout, NEW s \in DOMAIN layout
    PROVE  /\ Overlap(r, s) => r = s
           /\ \A t \in layout[s] : ~Overlap(r, Staging(s, t))
           /\ \A u \in layout[r] : ~Overlap(Staging(r, u), s)
           /\ \A u \in layout[r], t \in layout[s] : Overlap(Staging(r, u), Staging(s, t)) => r = s
  <1>1. CASE r = s
    BY <1>1, OverlapSymmetric DEF PlansRead, StagingsOf
  <1>2. CASE r # s
    BY <1>2, OverlapSymmetric DEF PlanSetValid, StagingsOf
  <1> QED
    BY <1>1, <1>2

(* A new claim, without a plan, lies apart from the other claims, and the   *)
(* configuration that made it is still accepted.                            *)
LEMMA ClaimsRegistry ==
    ASSUME LockInv, RegistryInv, NEW p \in RootProcs, Claims(p)
    PROVE  RegistryInv'
  <1> DEFINE e == Doing(p)
  <1>1. /\ phase[p] = "claim" /\ UNCHANGED <<recorded, stagings, planned, rootLock>>
        /\ recorded' = recorded /\ stagings' = stagings
    BY DEF Claims
  <1>2. /\ Accepts(e.tree, e.retired, e.layout) /\ e.kept = ActiveRetired(e.tree, e.retired)
        /\ e.left \subseteq DOMAIN e.layout
        /\ (\A r \in e.left : claims[r] = None)
        /\ \A r \in DOMAIN e.layout \ e.left : claims[r] = e.tree
    BY <1>1 DEF RegistryInv, UnderwayOK, Accepted
  <1>3. /\ e.tree \in RootTrees /\ DOMAIN e.layout \subseteq Roots /\ e.retired \subseteq Roots
        /\ DOMAIN e.layout \cap e.retired = {} /\ e.wants = {}
    BY <1>1 DEF LockInv, ErrandOK, LocksOK, Configuring, Writing
  <1>4. Alone(p)
    BY AloneIf DEF Claims
  <1>5. \A q \in RootProcs \ {p} : UnderwayOK(q)'
    BY <1>1, <1>4, OthersUnderway DEF Writing
  <1>6. CASE e.left = {} /\ UNCHANGED claims /\ GoesOn(p, "retire", [e EXCEPT !.left = e.kept])
    <2>0. /\ phase[p] \in {"claim", "retire"} /\ UNCHANGED <<rootLock, planned>>
          /\ GoesOn(p, "retire", [Doing(p) EXCEPT !.left = e.kept])
      BY <1>1, <1>6
    <2>1. /\ phase'[p] = "retire" /\ errand'[p].left = e.kept
          /\ \A f \in Fields \ {"left"} : errand'[p][f] = errand[p][f]
      BY <2>0, NextRound
    <2>2. /\ Doing(p)'.tree = e.tree /\ Doing(p)'.layout = e.layout /\ Doing(p)'.retired = e.retired
          /\ Doing(p)'.kept = e.kept /\ Doing(p)'.left = e.kept
      BY <2>1 DEF Doing, Fields
    <2>3. claims' = claims /\ UNCHANGED registry
      BY <1>1, <1>6 DEF registry
    <2>4. Accepts(e.tree, e.retired, e.layout)'
      BY <1>1, <1>2, <2>2, <2>3 DEF Accepts, PlansRead, PlanSetValid, RegistryValid, OwnsCurrent,
                                    KeepsFrom, MayShare
    <2>5. UnderwayOK(p)'
      BY <1>2, <1>6, <2>1, <2>2, <2>3, <2>4 DEF UnderwayOK, ActiveRetired
    <2> QED
      BY <1>1, <1>4, <2>3, <2>5, SameRegistry DEF RegistryInv, RegistryShape
  <1>7. CASE \E r \in e.left :
                /\ claims' = [claims EXCEPT ![r] = e.tree]
                /\ errand' = [errand EXCEPT ![p].left = @ \ {r}] /\ UNCHANGED phase
    <2>1. PICK r \in e.left :
                /\ claims' = [claims EXCEPT ![r] = e.tree]
                /\ errand' = [errand EXCEPT ![p].left = @ \ {r}] /\ UNCHANGED phase
      BY <1>7
    <2>2. r \in Roots /\ r \in DOMAIN e.layout /\ claims[r] = None /\ recorded[r] = {}
      BY <1>2, <1>3 DEF RegistryInv, UnclaimedEmpty
    <2>3. /\ claims' \in [Roots -> OrNone(RootTrees)] /\ claims'[r] = e.tree
          /\ \A s \in Roots \ {r} : claims'[s] = claims[s]
      BY <1>3, <2>1, <2>2 DEF RegistryInv, RegistryShape, OrNone
    <2>4. /\ errand'[p].left = e.left \ {r}
          /\ \A f \in Fields \ {"left"} : errand'[p][f] = errand[p][f]
      BY <1>1, <2>1, RootDone DEF Writing, Doing
    <2>5. /\ Doing(p)'.tree = e.tree /\ Doing(p)'.layout = e.layout /\ Doing(p)'.retired = e.retired
          /\ Doing(p)'.kept = e.kept /\ Doing(p)'.left = e.left \ {r}
      BY <2>4 DEF Doing, Fields
    <2>6. PlansRead(e.layout) /\ PlanSetValid(e.layout) /\ RegistryValid(e.tree, e.retired, e.layout)
          /\ OwnsCurrent(e.tree, e.layout)
      BY <1>2 DEF Accepts
    <2>7. \A s \in Roots \ {r} : claims[s] # None => KeepsFrom(e.tree, e.retired, e.layout, s)
      BY <2>6 DEF RegistryValid
    <2> HIDE DEF e
    <2>8. RegistryValid(e.tree, e.retired, e.layout)'
      <3> SUFFICES ASSUME NEW c \in Roots, claims'[c] # None
                   PROVE  KeepsFrom(e.tree, e.retired, e.layout, c)'
        BY DEF RegistryValid
      <3>1. CASE c = r
        <4>1. \A s \in DOMAIN e.layout :
                  /\ Overlap(r, s) => r = s
                  /\ \A t \in e.layout[s] : ~Overlap(r, Staging(s, t))
          BY <2>2, <2>6, LayoutApart
        <4> QED
          BY <1>1, <2>2, <2>5, <3>1, <4>1 DEF KeepsFrom, StagingsOf, e
      <3>2. CASE c # r
        <4>1. KeepsFrom(e.tree, e.retired, e.layout, c) /\ claims'[c] = claims[c]
          BY <2>3, <2>7, <3>2
        <4>2. /\ r \notin e.retired
              /\ e' = Doing(p)' /\ e'.tree = e.tree /\ e'.layout = e.layout /\ e'.retired = e.retired
          BY <1>3, <2>2, <2>5 DEF e
        <4> QED
          BY <1>1, <4>1, <4>2 DEF KeepsFrom, MayShare
      <3> QED
        BY <3>1, <3>2
    <2>9. Accepts(e.tree, e.retired, e.layout)'
      <3>1. PlansRead(e.layout)' /\ PlanSetValid(e.layout)'
        BY <2>5, <2>6 DEF PlansRead, PlanSetValid, e
      <3>2. OwnsCurrent(e.tree, e.layout)'
        BY <1>3, <2>3, <2>5, <2>6 DEF OwnsCurrent, e
      <3> QED
        BY <2>8, <3>1, <3>2 DEF Accepts
    <2>10. UnderwayOK(p)'
      <3>1. ActiveRetired(e.tree, e.retired)' = e.kept
        <4>1. r \notin e.retired
          BY <1>3, <2>2
        <4> QED
          BY <1>2, <1>3, <2>3, <2>5, <4>1 DEF ActiveRetired, e
      <3>2. phase'[p] = "claim"
        BY <1>1, <2>1
      <3>3. /\ \A s \in e.left \ {r} : claims'[s] = None
            /\ \A s \in DOMAIN e.layout \ (e.left \ {r}) : claims'[s] = e.tree
        BY <1>2, <1>3, <2>3
      <3> QED
        BY <1>2, <2>5, <2>9, <3>1, <3>2, <3>3 DEF UnderwayOK, e
    <2>11. RootsKeepApart'
      <3> SUFFICES ASSUME NEW a \in Roots, NEW s \in Roots, claims'[a] # None, claims'[s] # None
                   PROVE  /\ a # s => ~Overlap(a, s)
                          /\ \A x \in StagingsOf(a, recorded[a]) :
                                /\ ~Overlap(x, s)
                                /\ a # s => \A y \in StagingsOf(s, recorded[s]) : ~Overlap(x, y)
        BY <1>1 DEF RootsKeepApart
      <3>1. StagingsOf(r, recorded[r]) = {}
        BY <2>2 DEF StagingsOf
      <3>2. CASE a # r /\ s # r
        BY <2>3, <3>2 DEF RegistryInv, RootsKeepApart
      <3>3. CASE a = r /\ s # r
        BY <2>2, <2>3, <2>7, <3>1, <3>3, OverlapSymmetric DEF KeepsFrom
      <3>4. CASE a # r /\ s = r
        BY <2>2, <2>3, <2>7, <3>1, <3>4 DEF KeepsFrom
      <3>5. CASE a = r /\ s = r
        BY <3>1, <3>5
      <3> QED
        BY <3>2, <3>3, <3>4, <3>5
    <2>12. UnclaimedEmpty'
      <3>1. claims'[r] # None
        BY <1>3, <2>3, RootsAssumption
      <3> QED
        BY <1>1, <2>3, <3>1 DEF RegistryInv, UnclaimedEmpty
    <2> QED
      BY <1>1, <1>5, <2>3, <2>10, <2>11, <2>12 DEF RegistryInv, RegistryShape
  <1> QED
    BY <1>1, <1>6, <1>7 DEF Claims

(* What a configuration has claimed and holds the locks for.                *)
LEMMA Configured ==
    ASSUME LockInv, RegistryInv, NEW p \in RootProcs, phase[p] \in Accepted
    PROVE  LET e == Doing(p)
           IN /\ e.tree \in RootTrees /\ DOMAIN e.layout \subseteq Roots /\ e.retired \subseteq Roots
              /\ DOMAIN e.layout \cap e.retired = {}
              /\ PlansRead(e.layout) /\ PlanSetValid(e.layout)
              /\ RegistryValid(e.tree, e.retired, e.layout) /\ OwnsCurrent(e.tree, e.layout)
              /\ e.kept = {r \in e.retired : claims[r] = e.tree} /\ e.kept \subseteq Roots
  BY DEF LockInv, RegistryInv, ErrandOK, Configuring, UnderwayOK, Accepted, Accepts, ActiveRetired

(* What is written when one root is reconciled.                             *)
LEMMA RootWritten ==
    ASSUME RegistryShape, NEW r \in Roots, NEW targets, Reconciles(r, targets)
    PROVE  /\ DOMAIN recorded' = Roots /\ recorded'[r] = targets
           /\ \A s \in Roots \ {r} : recorded'[s] = recorded[s]
           /\ DOMAIN stagings' = StagingPaths
           /\ \A x \in StagingPaths :
                 x \notin StagingsOf(r, recorded[r] \ targets) => stagings'[x] = stagings[x]
  BY DEF RegistryShape, Reconciles

(* A plan that is removed leaves fewer stagings.                            *)
LEMMA RetiresRegistry ==
    ASSUME LockInv, RegistryInv, NEW p \in RootProcs, Retires(p)
    PROVE  RegistryInv'
  <1> DEFINE e == Doing(p)
  <1>1. phase[p] = "retire" /\ UNCHANGED <<claims, planned, rootLock>> /\ claims' = claims
    BY DEF Retires
  <1>2. /\ Accepts(e.tree, e.retired, e.layout) /\ e.kept = ActiveRetired(e.tree, e.retired)
        /\ \A r \in DOMAIN e.layout : claims[r] = e.tree
        /\ e.left \subseteq e.kept /\ \A r \in e.kept \ e.left : recorded[r] = {}
    BY <1>1 DEF RegistryInv, UnderwayOK, Accepted
  <1>3. DOMAIN e.layout \subseteq Roots /\ e.kept \subseteq Roots
    BY <1>1, Configured DEF Accepted
  <1>4. Alone(p)
    BY AloneIf DEF Retires
  <1>5. \A q \in RootProcs \ {p} : UnderwayOK(q)'
    BY <1>1, <1>4, OthersUnderway DEF Writing
  <1>6. CASE e.left = {} /\ UNCHANGED <<recorded, stagings>>
             /\ GoesOn(p, "commit", [e EXCEPT !.left = DOMAIN e.layout])
    <2>0. /\ phase[p] \in {"claim", "retire"} /\ UNCHANGED <<rootLock, planned>>
          /\ GoesOn(p, "commit", [Doing(p) EXCEPT !.left = DOMAIN e.layout])
      BY <1>1, <1>6
    <2>1. /\ phase'[p] = "commit" /\ errand'[p].left = DOMAIN e.layout
          /\ \A f \in Fields \ {"left"} : errand'[p][f] = errand[p][f]
      BY <2>0, NextRound
    <2>2. /\ Doing(p)'.tree = e.tree /\ Doing(p)'.layout = e.layout /\ Doing(p)'.retired = e.retired
          /\ Doing(p)'.kept = e.kept /\ Doing(p)'.left = DOMAIN e.layout
      BY <2>1 DEF Doing, Fields
    <2>3. recorded' = recorded /\ UNCHANGED registry
      BY <1>1, <1>6 DEF registry
    <2>4. Accepts(e.tree, e.retired, e.layout)'
      BY <1>1, <1>2, <2>2, <2>3 DEF Accepts, PlansRead, PlanSetValid, RegistryValid, OwnsCurrent,
                                    KeepsFrom, MayShare
    <2>5. UnderwayOK(p)'
      BY <1>1, <1>2, <1>6, <2>1, <2>2, <2>3, <2>4 DEF UnderwayOK, ActiveRetired
    <2> QED
      BY <1>4, <1>6, <2>3, <2>5, SameRegistry DEF RegistryInv, RegistryShape
  <1>7. CASE \E r \in e.left :
                Reconciles(r, {}) /\ errand' = [errand EXCEPT ![p].left = @ \ {r}] /\ UNCHANGED phase
    <2>1. PICK r \in e.left :
                Reconciles(r, {}) /\ errand' = [errand EXCEPT ![p].left = @ \ {r}] /\ UNCHANGED phase
      BY <1>7
    <2>2. /\ r \in Roots /\ DOMAIN recorded' = Roots /\ recorded'[r] = {}
          /\ (\A s \in Roots \ {r} : recorded'[s] = recorded[s]) /\ DOMAIN stagings' = StagingPaths
      BY <1>2, <1>3, <2>1, RootWritten DEF RegistryInv
    <2>3. \A s \in Roots : recorded'[s] \subseteq recorded[s]
      BY <2>2
    <2>4. /\ errand'[p].left = e.left \ {r}
          /\ \A f \in Fields \ {"left"} : errand'[p][f] = errand[p][f]
      BY <1>1, <2>1, RootDone DEF Writing, Doing
    <2>5. /\ Doing(p)'.tree = e.tree /\ Doing(p)'.layout = e.layout /\ Doing(p)'.retired = e.retired
          /\ Doing(p)'.kept = e.kept /\ Doing(p)'.left = e.left \ {r}
      BY <2>4 DEF Doing, Fields
    <2>6. Accepts(e.tree, e.retired, e.layout)'
      <3>1. \A b, retired, layout : Accepts(b, retired, layout) => Accepts(b, retired, layout)'
        BY <1>1, <2>3, SmallerAccepted
      <3> QED
        BY <1>2, <2>5, <3>1
    <2>7. UnderwayOK(p)'
      <3>1. ActiveRetired(e.tree, e.retired)' = e.kept
        BY <1>1, <1>2, <2>5 DEF ActiveRetired
      <3>2. phase'[p] = "retire" /\ \A s \in DOMAIN e.layout : claims'[s] = e.tree
        BY <1>1, <1>2, <2>1
      <3>3. e.left \ {r} \subseteq e.kept /\ \A s \in e.kept \ (e.left \ {r}) : recorded'[s] = {}
        BY <1>2, <1>3, <2>2
      <3> QED
        BY <2>5, <2>6, <3>1, <3>2, <3>3 DEF UnderwayOK
    <2>8. RootsKeepApart'
      <3>1. DOMAIN claims' = Roots
        BY <1>1 DEF RegistryInv, RegistryShape
      <3> QED
        BY <1>1, <2>2, <2>3, <3>1, FewerKeepApart
    <2> QED
      BY <1>1, <1>5, <2>2, <2>7, <2>8 DEF RegistryInv, RegistryShape, UnclaimedEmpty
  <1> QED
    BY <1>6, <1>7 DEF Retires

(* A claim goes with its plan; nobody configures meanwhile.                 *)
LEMMA UnclaimsRegistry ==
    ASSUME LockInv, RegistryInv, NEW p \in RootProcs, Unclaims(p)
    PROVE  RegistryInv'
  <1> DEFINE r == Doing(p).root
  <1>1. /\ phase[p] = "release" /\ ErrandEnds(p) /\ stagings' = stagings
        /\ claims' = [claims EXCEPT ![r] = None] /\ recorded' = [recorded EXCEPT ![r] = {}]
    BY DEF Unclaims
  <1>2. Alone(p)
    BY <1>1, AloneIf DEF ErrandEnds
  <1>3. \A q \in RootProcs \ {p} : UnderwayOK(q)'
    BY <1>1, <1>2, OthersUnderway DEF Writing
  <1>4. UnderwayOK(p)'
    <2>1. phase'[p] = "idle"
      BY <1>1 DEF ErrandEnds, GoesOn, LockInv, ProcShape
    <2> QED
      BY <2>1 DEF UnderwayOK, Accepted
  <1>5. RegistryShape'
    BY <1>1 DEF RegistryInv, RegistryShape, OrNone
  <1>6. RootsKeepApart' /\ UnclaimedEmpty'
    <2>1. DOMAIN claims' = Roots /\ DOMAIN recorded' = Roots
          /\ \A s \in Roots : claims'[s] \in {claims[s], None} /\ recorded'[s] \subseteq recorded[s]
      BY <1>1 DEF RegistryInv, RegistryShape
    <2> QED
      BY <1>1, <2>1, FewerKeepApart DEF RegistryInv, UnclaimedEmpty, RegistryShape
  <1> QED
    BY <1>3, <1>4, <1>5, <1>6 DEF RegistryInv

(* The stagings a configuration records lie apart from all that is claimed: *)
(* the retired root that may have had one has no plan any more.             *)
LEMMA CommitsRegistry ==
    ASSUME LockInv, RegistryInv, NEW p \in RootProcs, Commits(p)
    PROVE  RegistryInv'
  <1> DEFINE e == Doing(p)
  <1>1. phase[p] = "commit" /\ UNCHANGED <<claims, planned>> /\ claims' = claims
    BY DEF Commits
  <1>2. /\ Accepts(e.tree, e.retired, e.layout) /\ e.kept = ActiveRetired(e.tree, e.retired)
        /\ \A r \in DOMAIN e.layout : claims[r] = e.tree
        /\ e.left \subseteq DOMAIN e.layout /\ \A r \in e.kept : recorded[r] = {}
    BY <1>1 DEF RegistryInv, UnderwayOK, Accepted
  <1>3. /\ e.tree \in RootTrees /\ DOMAIN e.layout \subseteq Roots
        /\ PlansRead(e.layout) /\ PlanSetValid(e.layout)
        /\ RegistryValid(e.tree, e.retired, e.layout) /\ OwnsCurrent(e.tree, e.layout)
        /\ e.kept = {r \in e.retired : claims[r] = e.tree}
    BY <1>1, Configured DEF Accepted
  <1>4. Alone(p)
    BY AloneIf DEF Commits
  <1>5. \A q \in RootProcs \ {p} : UnderwayOK(q)'
    BY <1>1, <1>4, OthersUnderway DEF Writing
  <1>6. CASE UNCHANGED <<recorded, stagings>> /\ GoesOn(p, "store", e)
    <2>1. phase'[p] = "store"
      BY <1>6 DEF GoesOn, LockInv, ProcShape
    <2> QED
      BY <1>1, <1>4, <1>6, <2>1, SameRegistry DEF RegistryInv, RegistryShape, registry, Accepted
  <1>7. CASE \E r \in e.left :
                /\ Reconciles(r, e.layout[r])
                /\ errand' = [errand EXCEPT ![p].left = @ \ {r}]
                /\ UNCHANGED <<phase, rootLock>>
    <2>1. PICK r \in e.left :
                /\ Reconciles(r, e.layout[r])
                /\ errand' = [errand EXCEPT ![p].left = @ \ {r}]
                /\ UNCHANGED <<phase, rootLock>>
      BY <1>7
    <2>2. /\ r \in Roots /\ DOMAIN recorded' = Roots /\ recorded'[r] = e.layout[r]
          /\ (\A s \in Roots \ {r} : recorded'[s] = recorded[s]) /\ DOMAIN stagings' = StagingPaths
      BY <1>2, <1>3, <2>1, RootWritten DEF RegistryInv
    <2>3. r \in DOMAIN e.layout /\ claims[r] = e.tree /\ claims[r] # None
      BY <1>2, <1>3, <2>1, RootsAssumption
    <2>4. /\ errand'[p].left = e.left \ {r}
          /\ \A f \in Fields \ {"left"} : errand'[p][f] = errand[p][f]
      BY <1>1, <2>1, RootDone DEF Writing, Doing
    <2>5. /\ Doing(p)'.tree = e.tree /\ Doing(p)'.layout = e.layout /\ Doing(p)'.retired = e.retired
          /\ Doing(p)'.kept = e.kept /\ Doing(p)'.left = e.left \ {r}
      BY <2>4 DEF Doing, Fields
    <2>6. \A s \in Roots \ {r} : claims[s] # None => KeepsFrom(e.tree, e.retired, e.layout, s)
      BY <1>3 DEF RegistryValid
    <2>7. \A s \in DOMAIN e.layout :
              /\ Overlap(r, s) => r = s
              /\ \A t \in e.layout[s] : ~Overlap(r, Staging(s, t))
              /\ \A u \in e.layout[r] : ~Overlap(Staging(r, u), s)
              /\ \A u \in e.layout[r], t \in e.layout[s] :
                    Overlap(Staging(r, u), Staging(s, t)) => u = t /\ r = s
      BY <1>3, <2>2, <2>3, LayoutApart, StagingsApart
    <2> HIDE DEF e
    <2>8. RegistryValid(e.tree, e.retired, e.layout)'
      <3> SUFFICES ASSUME NEW c \in Roots, claims'[c] # None
                   PROVE  KeepsFrom(e.tree, e.retired, e.layout, c)'
        BY DEF RegistryValid
      <3>1. e'.tree = e.tree /\ e'.layout = e.layout /\ e'.retired = e.retired
        BY <2>5 DEF e
      <3>2. CASE c = r
        BY <2>2, <2>7, <3>1, <3>2 DEF KeepsFrom, StagingsOf, MayShare
      <3>3. CASE c # r
        <4>1. KeepsFrom(e.tree, e.retired, e.layout, c) /\ recorded'[c] = recorded[c]
          BY <1>1, <2>2, <2>6, <3>3
        <4> QED
          BY <1>1, <3>1, <4>1 DEF KeepsFrom, MayShare
      <3> QED
        BY <3>2, <3>3
    <2>9. Accepts(e.tree, e.retired, e.layout)'
      <3>1. PlansRead(e.layout)' /\ PlanSetValid(e.layout)' /\ OwnsCurrent(e.tree, e.layout)'
        BY <1>1, <1>3, <2>5 DEF PlansRead, PlanSetValid, OwnsCurrent, e
      <3> QED
        BY <2>8, <3>1 DEF Accepts
    <2>10. UnderwayOK(p)'
      <3>1. ActiveRetired(e.tree, e.retired)' = e.kept
        BY <1>1, <1>2, <2>5 DEF ActiveRetired, e
      <3>2. phase'[p] = "commit"
        BY <1>1, <2>1
      <3>3. \A s \in e.kept : recorded'[s] = {}
        <4>1. r \notin e.kept
          BY <1>1, <1>3, <2>3 DEF LockInv, ErrandOK, Configuring, e
        <4> QED
          BY <1>1, <1>2, <1>3, <2>2, <4>1, Configured DEF Accepted, e
      <3> QED
        BY <1>1, <1>2, <2>5, <2>9, <3>1, <3>2, <3>3 DEF UnderwayOK, e
    <2>11. RootsKeepApart'
      <3>1. ASSUME NEW s \in Roots \ {r}, claims[s] # None, NEW u \in e.layout[r]
            PROVE  /\ ~Overlap(Staging(r, u), s)
                   /\ \A t \in recorded[s] : ~Overlap(Staging(r, u), Staging(s, t))
        <4>1. /\ ~Overlap(s, Staging(r, u))
              /\ \A t \in recorded[s] :
                    Overlap(Staging(s, t), Staging(r, u)) => MayShare(e.tree, e.retired, r, u, s, t)
          BY <2>3, <2>6, <3>1 DEF KeepsFrom
        <4>2. \A t \in recorded[s] : ~MayShare(e.tree, e.retired, r, u, s, t)
          BY <1>2, <1>3 DEF MayShare
        <4> QED
          BY <4>1, <4>2, OverlapSymmetric
      <3>2. \A u \in e.layout[r] : ~Overlap(Staging(r, u), r)
        BY <2>3, <2>7
      <3>3. \A s \in Roots \ {r} : claims[s] # None =>
                /\ ~Overlap(r, s) /\ ~Overlap(s, r)
                /\ \A t \in recorded[s] : ~Overlap(Staging(s, t), r) /\ ~Overlap(Staging(s, t), s)
        BY <2>2, <2>3 DEF RegistryInv, RootsKeepApart, StagingsOf
      <3> SUFFICES ASSUME NEW a \in Roots, NEW s \in Roots, claims[a] # None, claims[s] # None
                   PROVE  /\ a # s => ~Overlap(a, s)
                          /\ \A t \in recorded'[a] :
                                /\ ~Overlap(Staging(a, t), s)
                                /\ a # s => \A u \in recorded'[s] : ~Overlap(Staging(a, t), Staging(s, u))
        BY <1>1 DEF RootsKeepApart, StagingsOf
      <3>4. CASE a # r /\ s # r
        BY <2>2, <3>4 DEF RegistryInv, RootsKeepApart, StagingsOf
      <3>5. CASE a = r /\ s # r
        BY <2>2, <3>1, <3>3, <3>5
      <3>6. CASE a # r /\ s = r
        BY <2>2, <3>1, <3>3, <3>6, OverlapSymmetric
      <3>7. CASE a = r /\ s = r
        BY <2>2, <3>2, <3>7
      <3> QED
        BY <3>4, <3>5, <3>6, <3>7
    <2>12. UnclaimedEmpty'
      BY <1>1, <2>2, <2>3 DEF RegistryInv, UnclaimedEmpty
    <2> QED
      BY <1>1, <1>5, <2>2, <2>10, <2>11, <2>12 DEF RegistryInv, RegistryShape
  <1> QED
    BY <1>6, <1>7 DEF Commits

(* Generations, a reset before it gives up its claim, plan files and kills  *)
(* leave the registry alone.                                                *)
LEMMA OtherStepsRegistry ==
    ASSUME LockInv, RegistryInv, NEW p \in RootProcs,
           \/ Stores(p) \/ StagesAnew(p) \/ ProtocFails(p) \/ Publishes(p) \/ Purges(p) \/ KillErrand(p)
    PROVE  RegistryInv'
  <1>1. UNCHANGED registry
    BY DEF Stores, StagesAnew, ProtocFails, Publishes, Purges, KillErrand
  <1>2. Alone(p)
    BY AloneIf DEF Stores, StagesAnew, ProtocFails, Publishes, Purges, KillErrand, ErrandEnds
  <1>3. DOMAIN stagings' = StagingPaths
    BY DEF RegistryInv, RegistryShape, Stores, StagesAnew, ProtocFails, Publishes, Purges, KillErrand,
           Discards
  <1>4. phase'[p] \in {"idle", "work", "release"}
    BY DEF Stores, StagesAnew, ProtocFails, Publishes, Purges, KillErrand, ErrandEnds, GoesOn, LockInv,
           ProcShape
  <1> QED
    BY <1>1, <1>2, <1>3, <1>4, SameRegistry DEF Accepted

(* So does taking a lock, before the configuration is accepted.             *)
LEMMA TakeLockRegistry ==
    ASSUME LockInv, RegistryInv, NEW p \in RootProcs, TakeLock(p)
    PROVE  RegistryInv'
  <1>1. UNCHANGED registry /\ stagings' = stagings /\ phase' = phase
    BY DEF TakeLock
  <1>2. PICK k \in RootLocks :
            /\ Awaits(p, k) /\ rootLock[k] = None
            /\ rootLock' = [rootLock EXCEPT ![k] = p]
            /\ errand' = [errand EXCEPT ![p].wants = @ \ {k}]
    BY DEF TakeLock
  <1>3. Alone(p)
    BY <1>1, <1>2, RootsAssumption DEF Alone, Keeps, LockInv, ProcShape
  <1>4. phase'[p] \notin Accepted
    <2>1. Doing(p).wants # {}
      BY <1>2 DEF Awaits
    <2> QED
      BY <1>1, <2>1 DEF LockInv, LocksOK, Writing, Accepted
  <1> QED
    BY <1>1, <1>3, <1>4, SameRegistry DEF RegistryInv, RegistryShape

(* And the beginning of a command.                                          *)
LEMMA BeginRegistry ==
    ASSUME LockInv, RegistryInv, NEW p \in RootProcs, NEW event, NEW label \in {"validate", "check", "purge"},
           NEW e, Begins(p, event, label, e)
    PROVE  RegistryInv'
  <1>1. UNCHANGED registry /\ stagings' = stagings /\ GoesOn(p, label, e) /\ rootLock' = rootLock
    BY DEF Begins
  <1>2. Alone(p) /\ phase'[p] = label
    BY <1>1, AloneIf DEF GoesOn, LockInv, ProcShape
  <1> QED
    BY <1>1, <1>2, SameRegistry DEF Accepted, RegistryInv, RegistryShape

(* And the deletion of a build tree.                                        *)
LEMMA DeleteTreeRegistry ==
    ASSUME RegistryInv, NEW b \in RootTrees, DeleteTree(b)
    PROVE  RegistryInv'
  <1>1. claims' = claims /\ recorded' = recorded /\ stagings' = stagings /\ phase' = phase /\ errand' = errand
    BY DEF DeleteTree, registry
  <1>2. /\ \A c, d, l : Accepts(c, d, l)' <=> Accepts(c, d, l)
        /\ \A c, d : ActiveRetired(c, d)' = ActiveRetired(c, d)
    BY <1>1 DEF Accepts, PlansRead, PlanSetValid, RegistryValid, OwnsCurrent, KeepsFrom, MayShare,
                ActiveRetired
  <1>3. \A p \in RootProcs : UnderwayOK(p)'
    <2> SUFFICES ASSUME NEW p \in RootProcs PROVE UnderwayOK(p)'
      OBVIOUS
    <2>1. UnderwayOK(p)
      BY DEF RegistryInv
    <2> QED
      BY <1>1, <1>2, <2>1 DEF UnderwayOK, Doing
  <1>4. RootsKeepApart'
    BY <1>1 DEF RegistryInv, RootsKeepApart
  <1> QED
    BY <1>1, <1>3, <1>4 DEF RegistryInv, RegistryShape, UnclaimedEmpty

(* Every step keeps the registry in order.                                  *)
LEMMA RegistryInvNext ==
    ASSUME LockInv, RegistryInv, RootNext
    PROVE  RegistryInv'
  <1>1. CASE \E p \in RootProcs : RootStep(p) \/ KillErrand(p)
    BY <1>1, TakeLockRegistry, ValidatesRegistry, ClaimsRegistry, RetiresRegistry, CommitsRegistry,
       UnclaimsRegistry, OtherStepsRegistry DEF RootStep
  <1>2. CASE \E p \in RootProcs, b \in RootTrees, layout \in UNION Range(Layouts) : Configure(p, b, layout)
    BY <1>2, BeginRegistry DEF Configure
  <1>3. CASE \E p \in RootProcs, b \in RootTrees, r \in Roots, t \in TargetNames : Generate(p, b, r, t)
    BY <1>3, BeginRegistry DEF Generate
  <1>4. CASE \E p \in RootProcs, r \in Roots : Reset(p, r)
    BY <1>4, BeginRegistry DEF Reset
  <1>5. CASE \E b \in RootTrees : DeleteTree(b)
    BY <1>5, DeleteTreeRegistry
  <1> QED
    BY <1>1, <1>2, <1>3, <1>4, <1>5 DEF RootNext

(* At first nothing is claimed.                                             *)
LEMMA RegistryInvInit == RootInit(RootScenarios) => RegistryInv
  <1> SUFFICES ASSUME RootInit(RootScenarios) PROVE RegistryInv
    OBVIOUS
  <1>1. RegistryShape /\ UnclaimedEmpty
    BY DEF RootInit, RegistryShape, UnclaimedEmpty, OrNone
  <1>2. RootsKeepApart
    BY DEF RootInit, RootsKeepApart
  <1>3. \A p \in RootProcs : UnderwayOK(p)
    BY DEF RootInit, UnderwayOK, Accepted
  <1> QED
    BY <1>1, <1>2, <1>3 DEF RegistryInv

---------------------------------------------------------------------------
(* Stagings *)

(* A generation at work has the staging that the plan records for it.       *)
WorkOK(p) ==
    LET e == Doing(p)
    IN /\ phase[p] \in Generating => e.target \in TargetNames
       /\ phase[p] = "work" =>
              /\ claims[e.root] = e.tree /\ e.target \in recorded[e.root]
              /\ stagings[Staging(e.root, e.target)] = p
WorkInv == \A p \in RootProcs : WorkOK(p)

(* Each staging a generation may have is one of those of the model.         *)
LEMMA StagingHasPlace ==
    ASSUME NEW r \in Roots, NEW t \in TargetNames
    PROVE  Staging(r, t) \in StagingPaths
  BY DEF StagingPaths, StagingsOf

(* A step about one root: its process holds the generation lock of it.      *)
AtRoot(p, r) ==
    /\ r \in Roots /\ LockOf("generation", r) \in Held(p)
    /\ \A s \in Roots \ {r} : claims'[s] = claims[s] /\ recorded'[s] = recorded[s]
    /\ claims[r] # None \/ stagings' = stagings
    /\ \A x \in StagingPaths : x \notin StagingsOf(r, recorded[r]) => stagings'[x] = stagings[x]

(* It does not touch the stagings that others work in, which lie beside     *)
(* other roots and apart from the stagings of this one.                     *)
LEMMA OthersWork ==
    ASSUME LockInv, RegistryInv, WorkInv, NEW p \in RootProcs, Alone(p), NEW r, AtRoot(p, r)
    PROVE  \A q \in RootProcs \ {p} : WorkOK(q)'
  <1> SUFFICES ASSUME NEW q \in RootProcs \ {p} PROVE WorkOK(q)'
    OBVIOUS
  <1> DEFINE e == Doing(q)
             x == Staging(e.root, e.target)
  <1>1. phase'[q] = phase[q] /\ Doing(q)' = e /\ WorkOK(q)
    BY DEF Alone, Keeps, WorkInv, Doing
  <1>2. CASE phase[q] # "work"
    BY <1>1, <1>2 DEF WorkOK
  <1>3. CASE phase[q] = "work"
    <2>1. /\ e.target \in TargetNames /\ e.root \in Roots /\ claims[e.root] = e.tree
          /\ e.tree \in RootTrees /\ e.target \in recorded[e.root] /\ stagings[x] = q
      BY <1>1, <1>3 DEF WorkOK, LockInv, ErrandOK, Generating
    <2>2. e.root # r
      BY <1>3 DEF AtRoot, LockInv, LocksOK, Held
    <2>3. claims'[e.root] = claims[e.root] /\ recorded'[e.root] = recorded[e.root]
      BY <2>1, <2>2 DEF AtRoot
    <2>4. x \in StagingPaths /\ x \in StagingsOf(e.root, recorded[e.root]) /\ Overlap(x, x)
      BY <2>1, StagingHasPlace, StagingIsPath DEF StagingsOf
    <2>5. claims[e.root] # None
      BY <2>1, RootsAssumption
    <2>6. claims[r] # None => x \notin StagingsOf(r, recorded[r])
      BY <2>1, <2>2, <2>4, <2>5 DEF RegistryInv, RootsKeepApart, AtRoot
    <2>7. stagings'[x] = stagings[x]
      BY <2>4, <2>6 DEF AtRoot
    <2> QED
      BY <1>1, <1>3, <2>1, <2>3, <2>7 DEF WorkOK
  <1> QED
    BY <1>2, <1>3

(* Steps that leave the stagings and the plans that have a claim alone.     *)
LEMMA NoStaging ==
    ASSUME LockInv, WorkInv, NEW p \in RootProcs, Alone(p), UNCHANGED stagings,
           \A r \in Roots : claims[r] # None => claims'[r] = claims[r] /\ recorded'[r] = recorded[r],
           phase'[p] # "work", phase'[p] = "check" => Doing(p)'.target \in TargetNames
    PROVE  WorkInv'
  <1>1. ASSUME NEW q \in RootProcs \ {p} PROVE WorkOK(q)'
    <2>1. phase'[q] = phase[q] /\ Doing(q)' = Doing(q) /\ WorkOK(q) /\ ErrandOK(q)
      BY DEF Alone, Keeps, WorkInv, Doing, LockInv
    <2>2. phase[q] = "work" => claims[Doing(q).root] # None /\ Doing(q).root \in Roots
      BY <2>1, RootsAssumption DEF WorkOK, ErrandOK, Generating
    <2> QED
      BY <2>1, <2>2 DEF WorkOK
  <1>2. WorkOK(p)'
    BY DEF WorkOK, Generating
  <1> QED
    BY <1>1, <1>2 DEF WorkInv

(* The generation locks that an errand holds when it wants no more.         *)
LEMMA HoldsRoots ==
    ASSUME LockInv, NEW p \in RootProcs, Doing(p).wants = {}
    PROVE  /\ phase[p] \in Configuring =>
                 \A r \in Doing(p).retired \cup DOMAIN Doing(p).layout : LockOf("generation", r) \in Held(p)
           /\ phase[p] \in Generating \cup Resetting => LockOf("generation", Doing(p).root) \in Held(p)
  <1>1. Held(p) = Needs(p) /\ ErrandOK(p)
    BY DEF LockInv, LocksOK
  <1> QED
    BY <1>1 DEF Needs, Configuring, Generating, Resetting, LocksOf, ErrandOK

(* The plan of one root of a configuration is written.                      *)
LEMMA ReconcilesWork ==
    ASSUME LockInv, RegistryInv, WorkInv, NEW p \in RootProcs, phase[p] \in Accepted,
           NEW r \in Doing(p).kept \cup DOMAIN Doing(p).layout, claims[r] # None, NEW targets,
           Reconciles(r, targets), UNCHANGED <<claims, phase, rootLock>>,
           errand' = [errand EXCEPT ![p].left = @ \ {r}]
    PROVE  WorkInv'
  <1>1. Alone(p)
    BY AloneIf
  <1>2. r \in Roots /\ LockOf("generation", r) \in Held(p)
    <2>1. Doing(p).wants = {}
      BY DEF LockInv, LocksOK, Writing, Accepted
    <2>2. r \in Roots /\ r \in Doing(p).retired \cup DOMAIN Doing(p).layout
      BY Configured
    <2> QED
      BY <2>1, <2>2, HoldsRoots DEF Accepted, Configuring
  <1>3. AtRoot(p, r)
    BY <1>2, RootWritten DEF AtRoot, RegistryInv, StagingsOf
  <1>4. WorkOK(p)'
    BY DEF WorkOK, Accepted, Generating
  <1> QED
    BY <1>1, <1>3, <1>4, OthersWork DEF WorkInv

(* A configuration removes the stagings of its own roots only.              *)
LEMMA ConfigureStepsWork ==
    ASSUME LockInv, RegistryInv, WorkInv, NEW p \in RootProcs,
           Validates(p) \/ Claims(p) \/ Retires(p) \/ Commits(p) \/ Stores(p)
    PROVE  WorkInv'
  <1> DEFINE e == Doing(p)
  <1>1. CASE Validates(p) \/ Stores(p)
    <2>1. UNCHANGED <<registry, stagings>> /\ Alone(p) /\ phase'[p] \in {"idle", "claim"}
      BY <1>1, AloneIf DEF Validates, Stores, ErrandEnds, GoesOn, LockInv, ProcShape
    <2> QED
      BY <2>1, NoStaging DEF registry
  <1>2. CASE Claims(p)
    <2>1. UNCHANGED <<recorded, stagings>> /\ Alone(p) /\ phase'[p] \in {"claim", "retire"}
      BY <1>2, AloneIf DEF Claims, GoesOn, LockInv, ProcShape
    <2>2. \A r \in Roots : claims[r] # None => claims'[r] = claims[r]
      BY <1>2 DEF Claims, RegistryInv, RegistryShape, UnderwayOK
    <2> QED
      BY <2>1, <2>2, NoStaging
  <1>3. CASE Retires(p)
    <2>1. phase[p] = "retire" /\ e.left \subseteq e.kept /\ claims' = claims /\ rootLock' = rootLock
      BY <1>3 DEF Retires, RegistryInv, UnderwayOK
    <2>2. CASE UNCHANGED <<recorded, stagings>> /\ GoesOn(p, "commit", [e EXCEPT !.left = DOMAIN e.layout])
      <3>1. Alone(p) /\ phase'[p] = "commit"
        BY <2>1, <2>2, AloneIf DEF GoesOn, LockInv, ProcShape
      <3> QED
        BY <2>1, <2>2, <3>1, NoStaging
    <2>3. CASE \E r \in e.left :
                   Reconciles(r, {}) /\ errand' = [errand EXCEPT ![p].left = @ \ {r}] /\ UNCHANGED phase
      <3>1. PICK r \in e.left :
                   Reconciles(r, {}) /\ errand' = [errand EXCEPT ![p].left = @ \ {r}] /\ UNCHANGED phase
        BY <2>3
      <3>2. claims[r] # None
        BY <2>1, <3>1, Configured, RootsAssumption DEF Accepted
      <3> QED
        BY <2>1, <3>1, <3>2, ReconcilesWork DEF Accepted
    <2> QED
      BY <1>3, <2>2, <2>3 DEF Retires
  <1>4. CASE Commits(p)
    <2>1. /\ phase[p] = "commit" /\ e.left \subseteq DOMAIN e.layout /\ claims' = claims
          /\ \A r \in DOMAIN e.layout : claims[r] = e.tree
      BY <1>4 DEF Commits, RegistryInv, UnderwayOK
    <2>2. CASE UNCHANGED <<recorded, stagings>> /\ GoesOn(p, "store", e) /\ rootLock' = Unlocked(p, RootLocks)
      <3>1. Alone(p) /\ phase'[p] = "store"
        BY <2>2, AloneIf DEF GoesOn, LockInv, ProcShape
      <3> QED
        BY <2>1, <2>2, <3>1, NoStaging
    <2>3. CASE \E r \in e.left :
                   /\ Reconciles(r, e.layout[r])
                   /\ errand' = [errand EXCEPT ![p].left = @ \ {r}] /\ UNCHANGED <<phase, rootLock>>
      <3>1. PICK r \in e.left :
                   /\ Reconciles(r, e.layout[r])
                   /\ errand' = [errand EXCEPT ![p].left = @ \ {r}] /\ UNCHANGED <<phase, rootLock>>
        BY <2>3
      <3>2. claims[r] # None
        BY <2>1, <3>1, Configured, RootsAssumption DEF Accepted
      <3> QED
        BY <2>1, <3>1, <3>2, ReconcilesWork DEF Accepted
    <2> QED
      BY <1>4, <2>2, <2>3 DEF Commits
  <1> QED
    BY <1>1, <1>2, <1>3, <1>4

(* A generation makes and removes the staging of its own root only.         *)
LEMMA GenerationWork ==
    ASSUME LockInv, RegistryInv, WorkInv, NEW p \in RootProcs,
           StagesAnew(p) \/ ProtocFails(p) \/ Publishes(p)
    PROVE  WorkInv'
  <1> DEFINE e == Doing(p)
             x == Staging(e.root, e.target)
  <1>1. phase[p] \in Generating /\ UNCHANGED registry /\ Alone(p)
    BY AloneIf DEF StagesAnew, ProtocFails, Publishes, AtPhase, Generating, ErrandEnds
  <1>2. /\ e.root \in Roots /\ e.target \in TargetNames /\ x \in StagingPaths
        /\ e.tree \in RootTrees
    BY <1>1, StagingHasPlace DEF LockInv, ErrandOK, WorkInv, WorkOK
  <1>3. LockOf("generation", e.root) \in Held(p)
    BY <1>1, HoldsRoots DEF LockInv, LocksOK, StagesAnew, ProtocFails, Publishes, AtPhase
  <1>4. CASE stagings' = stagings /\ ErrandEnds(p)
    <2>1. phase'[p] = "idle"
      BY <1>4 DEF ErrandEnds, GoesOn, LockInv, ProcShape
    <2> QED
      BY <1>1, <1>4, <2>1, NoStaging DEF registry
  <1>5. ASSUME NEW v, stagings' = [stagings EXCEPT ![x] = v], claims[e.root] = e.tree,
               e.target \in recorded[e.root]
        PROVE  \A q \in RootProcs \ {p} : WorkOK(q)'
    <2>1. x \in StagingsOf(e.root, recorded[e.root])
      BY <1>5 DEF StagingsOf
    <2>2. AtRoot(p, e.root)
      BY <1>1, <1>2, <1>3, <1>5, <2>1, RootsAssumption DEF AtRoot, RegistryInv, RegistryShape, registry
    <2> QED
      BY <1>1, <2>2, OthersWork
  <1>6. CASE stagings' = [stagings EXCEPT ![x] = None] /\ ErrandEnds(p)
             /\ (phase[p] = "work" \/ PlanCurrent(e))
    <2>1. phase'[p] = "idle"
      BY <1>6 DEF ErrandEnds, GoesOn, LockInv, ProcShape
    <2>2. claims[e.root] = e.tree /\ e.target \in recorded[e.root]
      BY <1>6 DEF WorkInv, WorkOK, PlanCurrent
    <2> QED
      BY <1>5, <1>6, <2>1, <2>2 DEF WorkInv, WorkOK, Generating
  <1>7. CASE StagesAnew(p) /\ PlanCurrent(e)
    <2>1. /\ stagings' = [stagings EXCEPT ![x] = p] /\ claims[e.root] = e.tree
          /\ e.target \in recorded[e.root]
          /\ GoesOn(p, "work", [e EXCEPT !.wants = {LockOf("publication", e.root)}])
      BY <1>7 DEF StagesAnew, PlanCurrent
    <2>2. DOMAIN e = Fields
      BY DEF LockInv, ErrandOK, Doing
    <2>3. Doing(p)'.root = e.root /\ Doing(p)'.target = e.target /\ Doing(p)'.tree = e.tree
      BY <2>1, <2>2 DEF GoesOn, Doing, LockInv, ProcShape, Fields
    <2>4. stagings'[x] = p
      BY <1>2, <2>1 DEF RegistryInv, RegistryShape
    <2>5. WorkOK(p)'
      BY <1>1, <1>2, <2>1, <2>3, <2>4 DEF WorkOK, registry
    <2> QED
      BY <1>5, <2>1, <2>5 DEF WorkInv
  <1> QED
    BY <1>4, <1>6, <1>7 DEF StagesAnew, ProtocFails, Publishes, Discards

(* A reset removes the stagings of its root, and a kill leaves all as it is.*)
LEMMA ResetStepsWork ==
    ASSUME LockInv, RegistryInv, WorkInv, NEW p \in RootProcs, Purges(p) \/ Unclaims(p) \/ KillErrand(p)
    PROVE  WorkInv'
  <1> DEFINE e == Doing(p)
  <1>1. Alone(p) /\ phase'[p] \in {"idle", "release"}
    BY AloneIf DEF Purges, Unclaims, KillErrand, ErrandEnds, GoesOn, LockInv, ProcShape
  <1>2. WorkOK(p)'
    BY <1>1 DEF WorkOK, Generating
  <1>3. CASE stagings' = stagings /\ UNCHANGED registry
    BY <1>1, <1>3, NoStaging DEF registry
  <1>4. CASE Purges(p) /\ claims[e.root] = e.tree
    <2>1. /\ phase[p] = "purge" /\ e.wants = {} /\ UNCHANGED registry
          /\ stagings' = [y \in StagingPaths |->
                 IF y \in StagingsOf(e.root, recorded[e.root]) THEN None ELSE stagings[y]]
      BY <1>4 DEF Purges, AtPhase
    <2>2. e.root \in Roots /\ e.tree \in RootTrees /\ LockOf("generation", e.root) \in Held(p)
      BY <2>1, HoldsRoots DEF LockInv, ErrandOK, Resetting
    <2>3. AtRoot(p, e.root)
      BY <1>4, <2>1, <2>2, RootsAssumption DEF AtRoot, registry
    <2> QED
      BY <1>1, <1>2, <2>3, OthersWork DEF WorkInv
  <1>5. CASE Unclaims(p)
    <2>1. /\ phase[p] = "release" /\ stagings' = stagings
          /\ claims' = [claims EXCEPT ![e.root] = None] /\ recorded' = [recorded EXCEPT ![e.root] = {}]
      BY <1>5 DEF Unclaims
    <2>2. e.root \in Roots /\ e.wants = {} /\ LockOf("generation", e.root) \in Held(p)
      BY <2>1, HoldsRoots DEF LockInv, ErrandOK, LocksOK, Resetting, Writing
    <2>3. AtRoot(p, e.root)
      BY <2>1, <2>2 DEF AtRoot, RegistryInv, RegistryShape
    <2> QED
      BY <1>1, <1>2, <2>3, OthersWork DEF WorkInv
  <1> QED
    BY <1>3, <1>4, <1>5 DEF Purges, KillErrand

(* A generation that begins is about a target.                              *)
LEMMA BeginWork ==
    ASSUME LockInv, WorkInv, NEW p \in RootProcs, NEW event, NEW label \in {"validate", "check", "purge"},
           NEW e, Begins(p, event, label, e), label = "check" => e.target \in TargetNames
    PROVE  WorkInv'
  <1>1. UNCHANGED registry /\ stagings' = stagings /\ GoesOn(p, label, e) /\ rootLock' = rootLock
    BY DEF Begins
  <1>2. Alone(p) /\ phase'[p] = label /\ Doing(p)' = e
    BY <1>1, AloneIf DEF GoesOn, LockInv, ProcShape, Doing
  <1> QED
    BY <1>1, <1>2, NoStaging DEF registry

(* Taking a lock changes nothing of that.                                   *)
LEMMA TakeLockWork ==
    ASSUME LockInv, WorkInv, NEW p \in RootProcs, TakeLock(p)
    PROVE  WorkInv'
  <1>1. PICK k \in RootLocks : errand' = [errand EXCEPT ![p].wants = @ \ {k}]
    BY DEF TakeLock
  <1>2. DOMAIN errand[p] = Fields
    BY DEF LockInv, ErrandOK
  <1>3. /\ Doing(p)'.root = Doing(p).root /\ Doing(p)'.target = Doing(p).target
        /\ Doing(p)'.tree = Doing(p).tree
        /\ \A q \in RootProcs \ {p} : Doing(q)' = Doing(q)
    BY <1>1, <1>2 DEF Doing, Fields, LockInv, ProcShape
  <1>4. claims' = claims /\ recorded' = recorded /\ stagings' = stagings /\ phase' = phase
    BY DEF TakeLock, registry
  <1>5. ASSUME NEW q \in RootProcs PROVE WorkOK(q)'
    <2>1. /\ Doing(q)'.root = Doing(q).root /\ Doing(q)'.target = Doing(q).target
          /\ Doing(q)'.tree = Doing(q).tree
      BY <1>3
    <2> QED
      BY <1>4, <2>1 DEF WorkInv, WorkOK
  <1> QED
    BY <1>5 DEF WorkInv

(* Every step leaves each generation its staging.                           *)
LEMMA WorkNext ==
    ASSUME LockInv, RegistryInv, WorkInv, RootNext
    PROVE  WorkInv'
  <1>1. CASE \E p \in RootProcs : RootStep(p) \/ KillErrand(p)
    BY <1>1, TakeLockWork, ConfigureStepsWork, GenerationWork, ResetStepsWork DEF RootStep
  <1>2. CASE \E p \in RootProcs, b \in RootTrees, layout \in UNION Range(Layouts) : Configure(p, b, layout)
    BY <1>2, BeginWork DEF Configure
  <1>3. CASE \E p \in RootProcs, b \in RootTrees, r \in Roots, t \in TargetNames : Generate(p, b, r, t)
    <2>1. PICK p \in RootProcs, b \in RootTrees, r \in Roots, t \in TargetNames : Generate(p, b, r, t)
      BY <1>3
    <2> DEFINE e == [NoErrand EXCEPT !.cmd = "generate", !.tree = b, !.root = r, !.target = t,
                         !.wants = {LockOf("generation", r), LockOf("publication", r)}]
    <2>2. Begins(p, "generates", "check", e)
      BY <2>1 DEF Generate
    <2>3. e.target = t
      BY DEF NoErrand
    <2> HIDE DEF e
    <2> QED
      BY <2>2, <2>3, BeginWork
  <1>4. CASE \E p \in RootProcs, r \in Roots : Reset(p, r)
    BY <1>4, BeginWork DEF Reset
  <1>5. CASE \E b \in RootTrees : DeleteTree(b)
    <2>1. claims' = claims /\ recorded' = recorded /\ stagings' = stagings /\ phase' = phase /\ errand' = errand
      BY <1>5 DEF DeleteTree, registry
    <2> QED
      BY <2>1 DEF WorkInv, WorkOK, Doing
  <1> QED
    BY <1>1, <1>2, <1>3, <1>4, <1>5 DEF RootNext

---------------------------------------------------------------------------
(* Plan files *)

(* What a configuration stores leaves out none of the claims of its tree.   *)
StoreOK(p) ==
    LET e == Doing(p)
    IN phase[p] = "store" =>
           e.tree \in deleted \/ \A r \in Roots : claims[r] = e.tree => r \in DOMAIN e.layout \cup e.kept
PlansInv == ClaimsKnown /\ \A p \in RootProcs : StoreOK(p)

(* Steps that write no claim and no plan file, unless about more roots.     *)
LEMMA MorePlans ==
    ASSUME LockInv, PlansInv, NEW p \in RootProcs, Alone(p), phase'[p] # "store", deleted' = deleted,
           \A r \in Roots : claims'[r] \in {claims[r], None},
           \A b \in RootTrees : DOMAIN planned[b] \subseteq DOMAIN planned'[b],
           claims \in [Roots -> OrNone(RootTrees)]
    PROVE  PlansInv'
  <1>1. ClaimsKnown'
    BY DEF PlansInv, ClaimsKnown, OrNone
  <1>2. ASSUME NEW q \in RootProcs \ {p} PROVE StoreOK(q)'
    <2>1. phase'[q] = phase[q] /\ Doing(q)' = Doing(q) /\ StoreOK(q)
      BY DEF Alone, Keeps, PlansInv, Doing
    <2>2. phase[q] = "store" => Doing(q).tree # None
      BY RootsAssumption DEF LockInv, ErrandOK
    <2> QED
      BY <2>1, <2>2 DEF StoreOK
  <1>3. StoreOK(p)'
    BY DEF StoreOK
  <1> QED
    BY <1>1, <1>2, <1>3 DEF PlansInv

(* A claim is made for a root that the tree has a plan file for, and no     *)
(* other configuration of the tree is about to store its plan files.        *)
LEMMA ClaimsPlans ==
    ASSUME LockInv, RegistryInv, PlansInv, NEW p \in RootProcs, Claims(p)
    PROVE  PlansInv'
  <1> DEFINE e == Doing(p)
  <1>1. /\ phase[p] = "claim" /\ planned' = planned /\ deleted' = deleted
        /\ claims' = claims \/ \E r \in e.left : claims' = [claims EXCEPT ![r] = e.tree]
    BY DEF Claims
  <1>2. /\ e.left \subseteq DOMAIN e.layout /\ e.tree \in RootTrees
        /\ DOMAIN e.layout \subseteq DOMAIN planned[e.tree]
    BY <1>1 DEF RegistryInv, UnderwayOK, LockInv, ErrandOK, Configuring
  <1>3. Alone(p) /\ phase'[p] \in {"claim", "retire"}
    BY <1>1, AloneIf DEF Claims, GoesOn, LockInv, ProcShape
  <1>4. claims \in [Roots -> OrNone(RootTrees)]
    BY DEF RegistryInv, RegistryShape
  <1>5. CASE claims' = claims
    BY <1>1, <1>3, <1>4, <1>5, MorePlans
  <1>6. CASE \E r \in e.left : claims' = [claims EXCEPT ![r] = e.tree]
    <2>1. PICK r \in e.left : claims' = [claims EXCEPT ![r] = e.tree]
      BY <1>6
    <2>2. \A s \in Roots : claims'[s] = claims[s] \/ (s = r /\ claims'[s] = e.tree)
      BY <1>4, <2>1
    <2>3. ClaimsKnown'
      BY <1>1, <1>2, <2>1, <2>2 DEF PlansInv, ClaimsKnown
    <2>4. ASSUME NEW q \in RootProcs \ {p} PROVE StoreOK(q)'
      <3>1. phase'[q] = phase[q] /\ Doing(q)' = Doing(q) /\ StoreOK(q)
        BY <1>3 DEF Alone, Keeps, PlansInv, Doing
      <3>2. phase[q] = "store" => Doing(q).tree # e.tree
        BY <1>1 DEF LockInv, OneConfigure, Configuring
      <3> QED
        BY <1>1, <2>2, <3>1, <3>2 DEF StoreOK
    <2>5. StoreOK(p)'
      BY <1>3 DEF StoreOK
    <2> QED
      BY <2>3, <2>4, <2>5 DEF PlansInv
  <1> QED
    BY <1>1, <1>5, <1>6

(* A configuration that has committed all knows each claim of its tree: it  *)
(* is of its layout, or it was retired and is kept.                         *)
LEMMA CommitsPlans ==
    ASSUME LockInv, RegistryInv, PlansInv, NEW p \in RootProcs, Commits(p)
    PROVE  PlansInv'
  <1> DEFINE e == Doing(p)
  <1>1. /\ phase[p] = "commit" /\ planned' = planned /\ deleted' = deleted /\ claims' = claims
        /\ GoesOn(p, "store", e) \/ phase' = phase
    BY DEF Commits
  <1>2. Alone(p)
    BY AloneIf DEF Commits
  <1>3. claims \in [Roots -> OrNone(RootTrees)]
    BY DEF RegistryInv, RegistryShape
  <1>4. CASE phase' = phase
    BY <1>1, <1>2, <1>3, <1>4, MorePlans
  <1>5. CASE GoesOn(p, "store", e)
    <2>1. Doing(p)' = e
      BY <1>5 DEF GoesOn, Doing, LockInv, ProcShape
    <2>2. e.tree \in RootTrees /\ DOMAIN planned[e.tree] = DOMAIN e.layout \cup e.retired
      BY <1>1 DEF LockInv, ErrandOK, Configuring
    <2>3. e.kept = {r \in e.retired : claims[r] = e.tree}
      BY <1>1, Configured DEF Accepted
    <2>4. ASSUME NEW r \in Roots, claims[r] = e.tree, e.tree \notin deleted
          PROVE  r \in DOMAIN e.layout \cup e.kept
      BY <2>2, <2>3, <2>4, RootsAssumption DEF PlansInv, ClaimsKnown
    <2>5. StoreOK(p)'
      BY <1>1, <2>1, <2>4 DEF StoreOK
    <2>6. ASSUME NEW q \in RootProcs \ {p} PROVE StoreOK(q)'
      <3>1. phase'[q] = phase[q] /\ Doing(q)' = Doing(q) /\ StoreOK(q)
        BY <1>2 DEF Alone, Keeps, PlansInv, Doing
      <3> QED
        BY <1>1, <3>1 DEF StoreOK
    <2>7. ClaimsKnown'
      BY <1>1 DEF PlansInv, ClaimsKnown
    <2> QED
      BY <2>5, <2>6, <2>7 DEF PlansInv
  <1> QED
    BY <1>1, <1>4, <1>5

(* So the plan files it stores are those of the claims.                     *)
LEMMA StoresPlans ==
    ASSUME LockInv, RegistryInv, PlansInv, NEW p \in RootProcs, Stores(p)
    PROVE  PlansInv'
  <1> DEFINE e == Doing(p)
  <1>1. /\ phase[p] = "store" /\ UNCHANGED registry /\ deleted' = deleted /\ ErrandEnds(p)
        /\ planned' = [planned EXCEPT ![e.tree] = StoredPlans(e)]
    BY DEF Stores
  <1>2. Alone(p) /\ phase'[p] = "idle"
    BY <1>1, AloneIf DEF ErrandEnds, GoesOn, LockInv, ProcShape
  <1>3. claims' = claims
    BY <1>1 DEF registry
  <1>4. e.tree \in RootTrees
    BY <1>1 DEF LockInv, ErrandOK
  <1>5. /\ DOMAIN planned'[e.tree] = DOMAIN e.layout \cup e.kept
        /\ \A b \in RootTrees \ {e.tree} : planned'[b] = planned[b]
    BY <1>1, <1>4, StoredRoots DEF LockInv, ProcShape
  <1>6. ClaimsKnown'
    <2> SUFFICES ASSUME NEW r \in Roots, claims[r] \notin deleted \cup {None}
                 PROVE  r \in DOMAIN planned'[claims[r]]
      BY <1>1, <1>3 DEF ClaimsKnown
    <2>1. claims[r] \in RootTrees
      BY DEF RegistryInv, RegistryShape, OrNone
    <2>2. CASE claims[r] = e.tree
      BY <1>1, <1>5, <2>2 DEF PlansInv, StoreOK
    <2>3. CASE claims[r] # e.tree
      BY <1>5, <2>1, <2>3 DEF PlansInv, ClaimsKnown
    <2> QED
      BY <2>2, <2>3
  <1>7. ASSUME NEW q \in RootProcs PROVE StoreOK(q)'
    <2>1. CASE q = p
      BY <1>2, <2>1 DEF StoreOK
    <2>2. CASE q # p
      <3>1. phase'[q] = phase[q] /\ Doing(q)' = Doing(q) /\ StoreOK(q)
        BY <1>2, <2>2 DEF Alone, Keeps, PlansInv, Doing
      <3> QED
        BY <1>1, <1>3, <3>1 DEF StoreOK
    <2> QED
      BY <2>1, <2>2
  <1> QED
    BY <1>6, <1>7 DEF PlansInv

(* Every step keeps the plan files and the claims together.                 *)
LEMMA PlansNext ==
    ASSUME LockInv, RegistryInv, PlansInv, RootNext
    PROVE  PlansInv'
  <1>1. claims \in [Roots -> OrNone(RootTrees)]
    BY DEF RegistryInv, RegistryShape
  <1>2. ASSUME NEW p \in RootProcs, TakeLock(p) PROVE PlansInv'
    <2>1. PICK k \in RootLocks : errand' = [errand EXCEPT ![p].wants = @ \ {k}]
      BY <1>2 DEF TakeLock
    <2>2. claims' = claims /\ planned' = planned /\ deleted' = deleted /\ phase' = phase
      BY <1>2 DEF TakeLock, registry
    <2>3. DOMAIN errand[p] = Fields
      BY DEF LockInv, ErrandOK
    <2>4. \A q \in RootProcs : /\ Doing(q)'.tree = Doing(q).tree /\ Doing(q)'.layout = Doing(q).layout
                               /\ Doing(q)'.kept = Doing(q).kept
      BY <2>1, <2>3 DEF Doing, Fields, LockInv, ProcShape
    <2> QED
      BY <2>2, <2>4 DEF PlansInv, ClaimsKnown, StoreOK
  <1>3. ASSUME NEW p \in RootProcs,
               \/ Validates(p) \/ Retires(p) \/ StagesAnew(p) \/ ProtocFails(p) \/ Publishes(p)
               \/ Purges(p) \/ Unclaims(p) \/ KillErrand(p)
        PROVE  PlansInv'
    <2>1. /\ planned' = planned /\ deleted' = deleted
          /\ claims' = claims \/ claims' = [claims EXCEPT ![Doing(p).root] = None]
      BY <1>3 DEF Validates, Retires, StagesAnew, ProtocFails, Publishes, Purges, Unclaims, KillErrand,
                  registry
    <2>2. Alone(p) /\ phase'[p] # "store"
      BY <1>3, AloneIf DEF Validates, Retires, StagesAnew, ProtocFails, Publishes, Purges, Unclaims,
                           KillErrand, ErrandEnds, GoesOn, LockInv, ProcShape
    <2>3. \A r \in Roots : claims'[r] \in {claims[r], None}
      BY <1>1, <2>1
    <2> QED
      BY <1>1, <2>1, <2>2, <2>3, MorePlans
  <1>4. CASE \E p \in RootProcs : RootStep(p) \/ KillErrand(p)
    BY <1>2, <1>3, <1>4, ClaimsPlans, CommitsPlans, StoresPlans DEF RootStep
  <1>5. ASSUME NEW p \in RootProcs, NEW event, NEW label \in {"validate", "check", "purge"}, NEW e,
               Begins(p, event, label, e),
               \A b \in RootTrees : DOMAIN planned[b] \subseteq DOMAIN planned'[b]
        PROVE  PlansInv'
    <2>1. claims' = claims /\ deleted' = deleted /\ Alone(p) /\ phase'[p] = label
      BY <1>5, AloneIf DEF Begins, GoesOn, registry, LockInv, ProcShape
    <2> QED
      BY <1>1, <1>5, <2>1, MorePlans
  <1>6. CASE \E p \in RootProcs, b \in RootTrees, layout \in UNION Range(Layouts) : Configure(p, b, layout)
    <2>1. PICK p \in RootProcs, b \in RootTrees, layout \in UNION Range(Layouts) : Configure(p, b, layout)
      BY <1>6
    <2>2. \A c \in RootTrees : DOMAIN planned[c] \subseteq DOMAIN planned'[c]
      BY <2>1 DEF Configure, WrittenOver, LockInv, ProcShape
    <2> QED
      BY <1>5, <2>1, <2>2 DEF Configure
  <1>7. CASE \E p \in RootProcs, b \in RootTrees, r \in Roots, t \in TargetNames : Generate(p, b, r, t)
    BY <1>5, <1>7 DEF Generate
  <1>8. CASE \E p \in RootProcs, r \in Roots : Reset(p, r)
    BY <1>5, <1>8 DEF Reset
  <1>9. CASE \E b \in RootTrees : DeleteTree(b)
    <2>1. PICK b \in RootTrees : DeleteTree(b)
      BY <1>9
    <2>2. /\ claims' = claims /\ phase' = phase /\ errand' = errand /\ deleted' = deleted \cup {b}
          /\ \A c \in RootTrees \ {b} : planned'[c] = planned[c]
      BY <2>1 DEF DeleteTree, registry, LockInv, ProcShape
    <2>3. ClaimsKnown'
      BY <1>1, <2>2 DEF PlansInv, ClaimsKnown, OrNone
    <2>4. \A p \in RootProcs : StoreOK(p)'
      BY <2>2 DEF PlansInv, StoreOK, Doing
    <2> QED
      BY <2>3, <2>4 DEF PlansInv
  <1> QED
    BY <1>4, <1>6, <1>7, <1>8, <1>9 DEF RootNext

---------------------------------------------------------------------------
(* Circles *)

(* Only locks of roots and of the registry are compared.                    *)
LEMMA BeforeIsStrict ==
    ASSUME NEW k \in RootLocks, NEW l \in RootLocks, NEW m \in RootLocks
    PROVE  ~Before(k, k) /\ (Before(k, l) /\ Before(l, m) => Before(k, m))
  <1>1. \A x \in RootLocks :
            \/ x = RegistryLock /\ x.kind = "registry"
            \/ x # RegistryLock /\ x.kind \in {"generation", "publication"} /\ x.root \in Roots
    BY DEF RootLocks, RegistryLock, LockOf
  <1>2. Turn["registry"] = 0 /\ Turn["generation"] = 1 /\ Turn["publication"] = 2
    BY DEF Turn
  <1>3. \A r \in Roots : Identity[r] \in Nat
    BY RootsAssumption
  <1>4. ~Before(k, k)
    BY <1>1, <1>2, <1>3 DEF Before
  <1>5. ASSUME Before(k, l), Before(l, m) PROVE Before(k, m)
    BY <1>1, <1>2, <1>3, <1>5 DEF Before
  <1> QED
    BY <1>4, <1>5

(* A process that holds a lock waits for a later one only.                  *)
LEMMA WaitsInOrder ==
    ASSUME LockInv, NEW p \in RootProcs, NEW k \in RootLocks, rootLock[k] = p,
           NEW l \in RootLocks, Awaits(p, l)
    PROVE  Before(k, l)
  <1>1. LocksOK(p) /\ k \in Held(p) /\ l \in Doing(p).wants
    BY DEF LockInv, Held, Awaits
  <1> QED
    BY <1>1 DEF LocksOK

(* In a circle each lock that is waited for would have a later one: but of  *)
(* the sets of the processes that wait for a later lock, one is smallest.   *)
LEMMA NobodyWaitsInCircle ==
    ASSUME LockInv
    PROVE  NoCircle
  <1> SUFFICES ASSUME NEW S \in SUBSET RootProcs, S # {}, \A p \in S : \E q \in S : WaitsFor(p, q)
               PROVE  FALSE
    BY DEF NoCircle
  <1> DEFINE waited == [p \in S |-> CHOOSE k \in RootLocks : Awaits(p, k) /\ rootLock[k] \in S]
             later == [p \in S |-> {q \in S : Before(waited[p], waited[q])}]
             all == {later[p] : p \in S}
  <1>1. ASSUME NEW p \in S
        PROVE  waited[p] \in RootLocks /\ Awaits(p, waited[p]) /\ rootLock[waited[p]] \in S
    <2>1. \E k \in RootLocks : Awaits(p, k) /\ rootLock[k] \in S
      BY DEF WaitsFor
    <2>2. waited[p] = CHOOSE k \in RootLocks : Awaits(p, k) /\ rootLock[k] \in S
      OBVIOUS
    <2> QED
      BY <2>1, <2>2
  <1> HIDE DEF waited
  <1>2. \A p \in S : \E q \in S : Before(waited[p], waited[q])
    BY <1>1, WaitsInOrder
  <1>3. \A p \in S : later[p] = {q \in S : Before(waited[p], waited[q])}
    OBVIOUS
  <1>4. IsWellFoundedOn(StrictSubsetOrdering(S), SUBSET S)
    <2>1. IsFiniteSet(S)
      <3>1. IsFiniteSet(1 .. MostProcs)
        BY FS_Interval, RootsAssumption
      <3> QED
        BY <3>1, FS_Subset DEF RootProcs
    <2>2. FiniteSubsetsOf(S) = SUBSET S
      BY <2>1, FS_FiniteSubsetsOfFinite
    <2>3. IsWellFoundedOn(StrictSubsetOrdering(S), FiniteSubsetsOf(S))
      BY FS_StrictSubsetOrderingWellFounded
    <2> QED
      BY <2>2, <2>3
  <1>5. all \subseteq SUBSET S /\ all # {}
    OBVIOUS
  <1>6. PICK x \in all : \A y \in all : <<y, x>> \notin StrictSubsetOrdering(S)
    BY <1>4, <1>5, WFMin
  <1>7. PICK p \in S : x = later[p]
    BY <1>6
  <1>8. PICK q \in S : Before(waited[p], waited[q])
    BY <1>2
  <1> HIDE DEF later
  <1>9. later[q] \subseteq later[p] /\ q \in later[p] /\ q \notin later[q]
    BY <1>1, <1>3, <1>8, BeforeIsStrict
  <1>10. <<later[q], x>> \in StrictSubsetOrdering(S)
    BY <1>3, <1>7, <1>9 DEF StrictSubsetOrdering
  <1> QED
    BY <1>6, <1>10

---------------------------------------------------------------------------
(* The invariant *)

RootInv == LockInv /\ RegistryInv /\ WorkInv /\ PlansInv

(* The invariant has what configurations, generations and resets promise.   *)
LEMMA RootInvSound ==
    ASSUME RootInv
    PROVE  RootsSound
  <1>1. RootsKeepApart
    BY DEF RootInv, RegistryInv
  <1>2. RetryAccepted
    BY DEF RootInv, RegistryInv, UnderwayOK, Accepted, RetryAccepted
  <1>3. ClaimsKnown
    BY DEF RootInv, PlansInv
  <1>4. StagingPrivate
    BY DEF RootInv, WorkInv, WorkOK, StagingPrivate
  <1>5. NoCircle
    BY NobodyWaitsInCircle DEF RootInv
  <1> QED
    BY <1>1, <1>2, <1>3, <1>4, <1>5 DEF RootsSound

(* Nothing to work in, to store or to wait for at first.                    *)
LEMMA RootInvInit == RootInit(RootScenarios) => RootInv
  <1> SUFFICES ASSUME RootInit(RootScenarios) PROVE RootInv
    OBVIOUS
  <1>1. WorkInv /\ PlansInv
    BY DEF RootInit, WorkInv, WorkOK, Generating, PlansInv, ClaimsKnown, StoreOK
  <1> QED
    BY <1>1, LockInvInit, RegistryInvInit DEF RootInv

(* Every step keeps the invariant.                                          *)
LEMMA RootInvNext == RootInv /\ [RootNext]_rootVars => RootInv'
  <1> SUFFICES ASSUME RootInv, [RootNext]_rootVars PROVE RootInv'
    OBVIOUS
  <1>1. CASE RootNext
    <2>1. claims \in [Roots -> OrNone(RootTrees)]
      BY DEF RootInv, RegistryInv, RegistryShape
    <2> QED
      BY <1>1, <2>1, LockInvNext, RegistryInvNext, WorkNext, PlansNext DEF RootInv
  <1>2. CASE UNCHANGED rootVars
    <2>1. /\ claims' = claims /\ recorded' = recorded /\ stagings' = stagings /\ planned' = planned
          /\ rootLock' = rootLock /\ phase' = phase /\ errand' = errand /\ deleted' = deleted
      BY <1>2 DEF rootVars, registry
    <2>2. LockInv'
      <3>1. /\ \A p \in RootProcs : ErrandOK(p)' <=> ErrandOK(p)
            /\ \A p \in RootProcs : LocksOK(p)' <=> LocksOK(p)
        BY <2>1 DEF ErrandOK, LocksOK, Held, Needs, Doing
      <3>2. ProcShape' /\ OneConfigure'
        BY <2>1 DEF RootInv, LockInv, ProcShape, OneConfigure, Doing
      <3> QED
        BY <3>1, <3>2 DEF RootInv, LockInv
    <2>3. RegistryInv'
      <3>1. /\ \A b, d, l : Accepts(b, d, l)' <=> Accepts(b, d, l)
            /\ \A b, d : ActiveRetired(b, d)' = ActiveRetired(b, d)
        BY <2>1 DEF Accepts, PlansRead, PlanSetValid, RegistryValid, OwnsCurrent, KeepsFrom, MayShare,
                    ActiveRetired
      <3>2. ASSUME NEW p \in RootProcs PROVE UnderwayOK(p)'
        <4>1. UnderwayOK(p)
          BY DEF RootInv, RegistryInv
        <4> QED
          BY <2>1, <3>1, <4>1 DEF UnderwayOK, Doing
      <3>3. RootsKeepApart'
        BY <2>1 DEF RootInv, RegistryInv, RootsKeepApart
      <3> QED
        BY <2>1, <3>2, <3>3 DEF RootInv, RegistryInv, RegistryShape, UnclaimedEmpty
    <2>4. WorkInv' /\ PlansInv'
      BY <2>1 DEF RootInv, WorkInv, WorkOK, PlansInv, ClaimsKnown, StoreOK, Doing
    <2> QED
      BY <2>2, <2>3, <2>4 DEF RootInv
  <1> QED
    BY <1>1, <1>2

(* However many processes, build trees and roots there are, and whatever is *)
(* killed or deleted, configurations, generations and resets of several     *)
(* roots keep what they promise each other.                                 *)
THEOREM RootsStaySound == RootSpec => []RootsSound
  <1>1. RootSpec => []RootInv
    BY RootInvInit, RootInvNext, PTL DEF RootSpec
  <1> QED
    BY <1>1, RootInvSound, PTL

---------------------------------------------------------------------------
(* Types *)

(* What is on disk, and what the processes are at.                          *)
DiskTyped ==
    /\ claims \in [Roots -> OrNone(RootTrees)] /\ recorded \in [Roots -> SUBSET TargetNames]
    /\ stagings \in [StagingPaths -> OrNone(RootProcs)]
    /\ DOMAIN planned = RootTrees /\ \A b \in RootTrees : IsLayout(planned[b])
    /\ deleted \subseteq RootTrees
ErrandTyped(e) == IsLayout(e.layout) /\ e.retired \subseteq Roots
ErrandsTyped ==
    /\ rootLock \in [RootLocks -> OrNone(RootProcs)] /\ phase \in [RootProcs -> RootPhases]
    /\ \A p \in RootProcs : ErrandTyped(Doing(p))

(* The layouts of a tree are of roots and of their targets.                 *)
LEMMA LayoutsTyped ==
    ASSUME NEW b \in RootTrees, NEW l \in UNION Range(Layouts), l \in Layouts[b]
    PROVE  IsLayout(l)
  <1>1. DOMAIN l \subseteq Roots
    BY RootsAssumption
  <1>2. ASSUME NEW r \in DOMAIN l PROVE l[r] \subseteq TargetNames
    <2>1. l[r] \in Range(l)
      BY DEF Range
    <2> QED
      BY <2>1 DEF TargetNames
  <1> QED
    BY <1>1, <1>2 DEF IsLayout

(* Nothing is a layout, and no errand has types.                            *)
LEMMA NothingTyped == ErrandTyped(NoErrand) /\ IsLayout(NoLayout)
  BY DEF ErrandTyped, IsLayout, NoErrand, NoLayout

(* A process that goes on has types if its new locals have.                 *)
LEMMA GoesOnTyped ==
    ASSUME LockInv, ErrandsTyped, NEW p \in RootProcs, NEW label \in RootPhases, NEW e, ErrandTyped(e),
           GoesOn(p, label, e)
    PROVE  phase' \in [RootProcs -> RootPhases] /\ \A q \in RootProcs : ErrandTyped(Doing(q)')
  <1>1. phase' \in [RootProcs -> RootPhases]
    BY DEF GoesOn, ErrandsTyped
  <1>2. \A q \in RootProcs : errand'[q] = IF q = p THEN e ELSE errand[q]
    BY DEF GoesOn, LockInv, ProcShape
  <1> QED
    BY <1>1, <1>2 DEF ErrandsTyped, Doing

(* A lock that is released belongs to a process or to none.                 *)
LEMMA UnlockedTyped ==
    ASSUME ErrandsTyped, NEW p, NEW S
    PROVE  Unlocked(p, S) \in [RootLocks -> OrNone(RootProcs)]
  BY DEF ErrandsTyped, Unlocked, OrNone

(* A process that ends leaves types.                                        *)
LEMMA EndTyped ==
    ASSUME LockInv, ErrandsTyped, NEW p \in RootProcs, ErrandEnds(p)
    PROVE  ErrandsTyped'
  <1>1. "idle" \in RootPhases
    BY DEF RootPhases
  <1>2. phase' \in [RootProcs -> RootPhases] /\ \A q \in RootProcs : ErrandTyped(Doing(q)')
    BY <1>1, GoesOnTyped, NothingTyped DEF ErrandEnds
  <1>3. rootLock' \in [RootLocks -> OrNone(RootProcs)]
    BY UnlockedTyped DEF ErrandEnds
  <1> QED
    BY <1>2, <1>3 DEF ErrandsTyped, ErrandTyped, IsLayout

(* A change of the other locals keeps the types.                            *)
LEMMA LocalsTyped ==
    ASSUME LockInv, NEW p \in RootProcs, ErrandsTyped
    PROVE  /\ ErrandTyped(Doing(p)) /\ DOMAIN errand = RootProcs /\ Doing(p) = errand[p]
           /\ \A w : ErrandTyped([Doing(p) EXCEPT !.wants = w])
           /\ \A l : ErrandTyped([Doing(p) EXCEPT !.left = l])
           /\ \A l, k : ErrandTyped([Doing(p) EXCEPT !.left = l, !.kept = k])
  <1>1. DOMAIN errand[p] = Fields /\ DOMAIN errand = RootProcs
    BY DEF LockInv, ErrandOK, ProcShape
  <1> QED
    BY <1>1 DEF ErrandsTyped, ErrandTyped, Doing, Fields, IsLayout

(* A process that takes a lock has the same layout.                         *)
LEMMA LockTyped ==
    ASSUME LockInv, NEW p \in RootProcs, ErrandsTyped, TakeLock(p)
    PROVE  ErrandsTyped'
  <1>1. PICK k \in RootLocks : /\ rootLock' = [rootLock EXCEPT ![k] = p]
                               /\ errand' = [errand EXCEPT ![p].wants = @ \ {k}]
    BY DEF TakeLock
  <1>2. phase' = phase
    BY DEF TakeLock
  <1>3. \A q \in RootProcs : errand'[q] = IF q = p THEN [Doing(p) EXCEPT !.wants = @ \ {k}] ELSE errand[q]
    BY <1>1, LocalsTyped
  <1>4. \A q \in RootProcs : ErrandTyped(Doing(q)')
    <2>1. ErrandTyped([Doing(p) EXCEPT !.wants = @ \ {k}])
      BY LocalsTyped
    <2>2. \A q \in RootProcs : Doing(q)' = IF q = p THEN [Doing(p) EXCEPT !.wants = @ \ {k}] ELSE Doing(q)
      BY <1>3 DEF Doing
    <2> QED
      BY <2>1, <2>2 DEF ErrandsTyped
  <1>5. rootLock' \in [RootLocks -> OrNone(RootProcs)]
    BY <1>1 DEF ErrandsTyped, OrNone
  <1> QED
    BY <1>2, <1>4, <1>5 DEF ErrandsTyped, ErrandTyped, IsLayout

(* One root less to do, or the next phase.                                  *)
LEMMA LoopTyped ==
    ASSUME LockInv, NEW p \in RootProcs, ErrandsTyped, NEW r,
           errand' = [errand EXCEPT ![p].left = @ \ {r}], phase' = phase, rootLock' = rootLock
    PROVE  ErrandsTyped'
  <1>1. \A q \in RootProcs : errand'[q] = IF q = p THEN [Doing(p) EXCEPT !.left = @ \ {r}] ELSE errand[q]
    BY LocalsTyped
  <1>2. \A q \in RootProcs : ErrandTyped(Doing(q)')
    BY <1>1, LocalsTyped DEF ErrandsTyped, Doing
  <1> QED
    BY <1>2 DEF ErrandsTyped, ErrandTyped, IsLayout

(* A process goes on, with the locks or without some.                       *)
LEMMA PhaseTyped ==
    ASSUME LockInv, NEW p \in RootProcs, ErrandsTyped, NEW label \in RootPhases, NEW e, ErrandTyped(e),
           GoesOn(p, label, e), rootLock' = rootLock \/ \E S : rootLock' = Unlocked(p, S)
    PROVE  ErrandsTyped'
  <1>1. phase' \in [RootProcs -> RootPhases] /\ \A q \in RootProcs : ErrandTyped(Doing(q)')
    BY GoesOnTyped
  <1>2. rootLock' \in [RootLocks -> OrNone(RootProcs)]
    BY UnlockedTyped DEF ErrandsTyped
  <1> QED
    BY <1>1, <1>2 DEF ErrandsTyped, ErrandTyped, IsLayout

(* Every step of a process.                                                 *)
LEMMA StepTyped ==
    ASSUME LockInv, NEW p \in RootProcs, ErrandsTyped, RootStep(p)
    PROVE  ErrandsTyped'
  <1>0. RootPhases = {"idle", "validate", "claim", "retire", "commit", "store", "check", "work", "purge", "release"}
    BY DEF RootPhases
  <1>1. CASE TakeLock(p)
    BY <1>1, LockTyped
  <1>2. CASE Validates(p)
    <2>1. CASE ErrandEnds(p)
      BY <2>1, EndTyped
    <2>2. CASE ~ErrandEnds(p)
      <3>1. /\ \E l, k : GoesOn(p, "claim", [Doing(p) EXCEPT !.left = l, !.kept = k])
            /\ rootLock' = rootLock
        BY <1>2, <2>2 DEF Validates
      <3> QED
        BY <1>0, <3>1, LocalsTyped, PhaseTyped
    <2> QED
      BY <2>1, <2>2
  <1>3. CASE Claims(p)
    <2>1. rootLock' = rootLock
      BY <1>3 DEF Claims
    <2>2. CASE \E r \in Doing(p).left : errand' = [errand EXCEPT ![p].left = @ \ {r}] /\ phase' = phase
      BY <2>1, <2>2, LoopTyped
    <2>3. CASE GoesOn(p, "retire", [Doing(p) EXCEPT !.left = Doing(p).kept])
      BY <1>0, <2>1, <2>3, LocalsTyped, PhaseTyped
    <2> QED
      BY <1>3, <2>2, <2>3 DEF Claims
  <1>4. CASE Retires(p)
    <2>1. rootLock' = rootLock
      BY <1>4 DEF Retires
    <2>2. CASE \E r \in Doing(p).left : errand' = [errand EXCEPT ![p].left = @ \ {r}] /\ phase' = phase
      BY <2>1, <2>2, LoopTyped
    <2>3. CASE GoesOn(p, "commit", [Doing(p) EXCEPT !.left = DOMAIN Doing(p).layout])
      BY <1>0, <2>1, <2>3, LocalsTyped, PhaseTyped
    <2> QED
      BY <1>4, <2>2, <2>3 DEF Retires
  <1>5. CASE Commits(p)
    <2>1. CASE \E r \in Doing(p).left :
                  errand' = [errand EXCEPT ![p].left = @ \ {r}] /\ phase' = phase /\ rootLock' = rootLock
      BY <2>1, LoopTyped
    <2>2. CASE GoesOn(p, "store", Doing(p)) /\ rootLock' = Unlocked(p, RootLocks)
      BY <1>0, <2>2, LocalsTyped, PhaseTyped
    <2> QED
      BY <1>5, <2>1, <2>2 DEF Commits
  <1>6. CASE Stores(p)
    BY <1>6, EndTyped DEF Stores
  <1>7. CASE StagesAnew(p)
    <2>1. CASE ErrandEnds(p)
      BY <2>1, EndTyped
    <2>2. CASE ~ErrandEnds(p)
      <3>1. /\ \E w : GoesOn(p, "work", [Doing(p) EXCEPT !.wants = w])
            /\ \E S : rootLock' = Unlocked(p, S)
        BY <1>7, <2>2 DEF StagesAnew
      <3> QED
        BY <1>0, <3>1, LocalsTyped, PhaseTyped
    <2> QED
      BY <2>1, <2>2
  <1>8. CASE ProtocFails(p) \/ Publishes(p) \/ Unclaims(p)
    BY <1>8, EndTyped DEF ProtocFails, Publishes, Unclaims
  <1>9. CASE Purges(p)
    <2>1. CASE ErrandEnds(p)
      BY <2>1, EndTyped
    <2>2. CASE ~ErrandEnds(p)
      <3>1. GoesOn(p, "release", Doing(p)) /\ rootLock' = rootLock
        BY <1>9, <2>2 DEF Purges
      <3> QED
        BY <1>0, <3>1, LocalsTyped, PhaseTyped
    <2> QED
      BY <2>1, <2>2
  <1> QED
    BY <1>1, <1>2, <1>3, <1>4, <1>5, <1>6, <1>7, <1>8, <1>9 DEF RootStep

(* A process that begins.                                                   *)
LEMMA BeginTyped ==
    ASSUME LockInv, NEW p \in RootProcs, ErrandsTyped, NEW event, NEW label \in RootPhases, NEW e, ErrandTyped(e),
           Begins(p, event, label, e)
    PROVE  ErrandsTyped'
  BY PhaseTyped DEF Begins

(* Every step leaves the processes and the locks their types,               *)
LEMMA ErrandsTypedNext == RootInv /\ RootTypeOK /\ RootNext => ErrandsTyped'
  <1> SUFFICES ASSUME RootInv, RootTypeOK, RootNext PROVE ErrandsTyped'
    OBVIOUS
  <1>0. /\ LockInv /\ ErrandsTyped
        /\ \A label \in {"validate", "check", "purge"} : label \in RootPhases
    BY DEF RootInv, RootTypeOK, ErrandsTyped, ErrandTyped, RootPhases
  <1>1. CASE \E p \in RootProcs : RootStep(p)
    BY <1>0, <1>1, StepTyped
  <1>2. CASE \E p \in RootProcs : KillErrand(p)
    BY <1>0, <1>2, EndTyped DEF KillErrand
  <1>3. CASE \E p \in RootProcs, b \in RootTrees, layout \in UNION Range(Layouts) :
                layout \in Layouts[b] /\ Configure(p, b, layout)
    <2>1. PICK p \in RootProcs, b \in RootTrees, layout \in UNION Range(Layouts) :
                layout \in Layouts[b] /\ Configure(p, b, layout)
      BY <1>3
    <2> DEFINE retired == DOMAIN planned[b] \ DOMAIN layout
               e == [NoErrand EXCEPT !.cmd = "configure", !.tree = b, !.layout = layout,
                         !.retired = retired, !.wants = LocksOf(retired \cup DOMAIN layout)]
    <2>2. Begins(p, "configures", "validate", e)
      BY <2>1 DEF Configure
    <2>3. e.layout = layout /\ e.retired = retired
      BY DEF NoErrand
    <2>4. IsLayout(layout) /\ retired \subseteq Roots
      BY <2>1, LayoutsTyped DEF RootTypeOK, IsLayout
    <2> HIDE DEF e
    <2> QED
      BY <1>0, <2>2, <2>3, <2>4, BeginTyped DEF ErrandTyped
  <1>4. CASE \E p \in RootProcs, b \in RootTrees, r \in Roots, t \in TargetNames : Generate(p, b, r, t)
    <2>1. PICK p \in RootProcs, b \in RootTrees, r \in Roots, t \in TargetNames : Generate(p, b, r, t)
      BY <1>4
    <2> DEFINE e == [NoErrand EXCEPT !.cmd = "generate", !.tree = b, !.root = r, !.target = t,
                         !.wants = {LockOf("generation", r), LockOf("publication", r)}]
    <2>2. Begins(p, "generates", "check", e)
      BY <2>1 DEF Generate
    <2>3. ErrandTyped(e)
      BY NothingTyped DEF NoErrand, ErrandTyped
    <2> HIDE DEF e
    <2> QED
      BY <1>0, <2>2, <2>3, BeginTyped
  <1>5. CASE \E p \in RootProcs, r \in Roots : Reset(p, r)
    <2>1. PICK p \in RootProcs, r \in Roots : Reset(p, r)
      BY <1>5
    <2> DEFINE e == [NoErrand EXCEPT !.cmd = "reset", !.tree = claims[r], !.root = r, !.wants = LocksOf({r})]
    <2>2. Begins(p, "resets", "purge", e)
      BY <2>1 DEF Reset
    <2>3. ErrandTyped(e)
      BY NothingTyped DEF NoErrand, ErrandTyped
    <2> HIDE DEF e
    <2> QED
      BY <1>0, <2>2, <2>3, BeginTyped
  <1>6. CASE \E b \in RootTrees : DeleteTree(b)
    BY <1>0, <1>6 DEF DeleteTree, ErrandsTyped, ErrandTyped, Doing
  <1> QED
    BY <1>1, <1>2, <1>3, <1>4, <1>5, <1>6 DEF RootNext

(* What is written on disk has its type: a plan is one of a layout.         *)
LEMMA ReconcileTyped ==
    ASSUME DiskTyped, NEW r \in Roots, NEW targets \in SUBSET TargetNames, Reconciles(r, targets),
           claims' = claims, planned' = planned, deleted' = deleted
    PROVE  DiskTyped'
  <1>1. recorded' \in [Roots -> SUBSET TargetNames]
    BY DEF DiskTyped, Reconciles
  <1>2. stagings' \in [StagingPaths -> OrNone(RootProcs)]
    BY DEF DiskTyped, Reconciles, OrNone
  <1> QED
    BY <1>1, <1>2 DEF DiskTyped, IsLayout

(* A staging that is made or removed changes nothing else.                  *)
LEMMA StagingTyped ==
    ASSUME DiskTyped, stagings' \in [StagingPaths -> OrNone(RootProcs)],
           claims' = claims, recorded' = recorded, planned' = planned, deleted' = deleted
    PROVE  DiskTyped'
  BY DEF DiskTyped, IsLayout

(* A layout written over another is one.                                    *)
LEMMA WrittenTyped ==
    ASSUME NEW new, NEW old, IsLayout(new), IsLayout(old)
    PROVE  IsLayout(WrittenOver(new, old))
  BY DEF WrittenOver, IsLayout

(* The plan files of one tree are written.                                  *)
LEMMA PlannedTyped ==
    ASSUME DiskTyped, NEW b \in RootTrees, NEW l, IsLayout(l), planned' = [planned EXCEPT ![b] = l],
           claims' = claims, recorded' = recorded, stagings' = stagings, deleted' \subseteq RootTrees
    PROVE  DiskTyped'
  <1>1. \A c \in RootTrees : planned'[c] = IF c = b THEN l ELSE planned[c]
    BY DEF DiskTyped
  <1>2. \A c \in RootTrees : IsLayout(planned'[c])
    BY <1>1 DEF DiskTyped
  <1>3. DOMAIN planned' = RootTrees
    BY DEF DiskTyped
  <1> QED
    BY <1>2, <1>3 DEF DiskTyped, IsLayout

(* Nothing on disk changes.                                                 *)
LEMMA SameDisk ==
    ASSUME DiskTyped, UNCHANGED <<claims, recorded, stagings, planned, deleted>>
    PROVE  DiskTyped'
  BY DEF DiskTyped, IsLayout

(* What a process writes has its type,                                      *)
LEMMA DiskTypedStep ==
    ASSUME RootInv, DiskTyped, ErrandsTyped, NEW p \in RootProcs, RootStep(p)
    PROVE  DiskTyped'
  <1>0. /\ ErrandOK(p) /\ UnderwayOK(p) /\ WorkOK(p) /\ ErrandTyped(Doing(p))
        /\ \A r \in DOMAIN Doing(p).layout : r \in Roots /\ Doing(p).layout[r] \in SUBSET TargetNames
    BY DEF RootInv, LockInv, RegistryInv, WorkInv, ErrandsTyped, ErrandTyped, IsLayout
  <1>1. CASE TakeLock(p) \/ Validates(p)
    BY <1>1, SameDisk DEF TakeLock, Validates, registry
  <1>2. CASE Claims(p)
    <2>1. UNCHANGED <<recorded, stagings, planned, deleted>>
      BY <1>2 DEF Claims
    <2>2. claims' = claims \/ \E r : claims' = [claims EXCEPT ![r] = Doing(p).tree]
      BY <1>2 DEF Claims
    <2>3. Doing(p).tree \in RootTrees
      BY <1>0, <1>2 DEF Claims, ErrandOK, Configuring
    <2>4. claims' \in [Roots -> OrNone(RootTrees)]
      BY <2>2, <2>3 DEF DiskTyped, OrNone
    <2> QED
      BY <2>1, <2>4 DEF DiskTyped, IsLayout
  <1>3. CASE Retires(p)
    <2>1. UNCHANGED <<claims, planned, deleted>>
      BY <1>3 DEF Retires
    <2>2. CASE UNCHANGED <<recorded, stagings>>
      BY <2>1, <2>2, SameDisk
    <2>3. CASE \E r \in Doing(p).left : Reconciles(r, {})
      <3>1. Doing(p).left \subseteq Roots
        BY <1>0, <1>3 DEF Retires, ErrandOK, UnderwayOK, Configuring
      <3> QED
        BY <2>1, <2>3, <3>1, ReconcileTyped
    <2> QED
      BY <1>3, <2>2, <2>3 DEF Retires
  <1>4. CASE Commits(p)
    <2>1. UNCHANGED <<claims, planned, deleted>>
      BY <1>4 DEF Commits
    <2>2. CASE UNCHANGED <<recorded, stagings>>
      BY <2>1, <2>2, SameDisk
    <2>3. CASE \E r \in Doing(p).left : Reconciles(r, Doing(p).layout[r])
      <3>1. Doing(p).left \subseteq DOMAIN Doing(p).layout
        BY <1>0, <1>4 DEF Commits, UnderwayOK
      <3> QED
        BY <1>0, <2>1, <2>3, <3>1, ReconcileTyped
    <2> QED
      BY <1>4, <2>2, <2>3 DEF Commits
  <1>5. CASE Stores(p)
    <2>1. Doing(p).tree \in RootTrees /\ Doing(p).kept \subseteq Roots
      BY <1>0, <1>5 DEF Stores, ErrandOK
    <2>2. IsLayout([r \in Doing(p).kept |-> {}])
      BY <2>1 DEF IsLayout
    <2>3. IsLayout(StoredPlans(Doing(p)))
      BY <1>0, <2>2, WrittenTyped DEF StoredPlans, ErrandTyped
    <2>4. deleted' \subseteq RootTrees
      BY <1>5 DEF Stores, DiskTyped
    <2> QED
      BY <1>5, <2>1, <2>3, <2>4, PlannedTyped DEF Stores, registry
  <1>6. CASE StagesAnew(p)
    <2>1. stagings' = stagings \/ stagings' = [stagings EXCEPT ![Staging(Doing(p).root, Doing(p).target)] = p]
      BY <1>6 DEF StagesAnew
    <2>2. stagings' \in [StagingPaths -> OrNone(RootProcs)]
      BY <2>1 DEF DiskTyped, OrNone
    <2> QED
      BY <1>6, <2>2, StagingTyped DEF StagesAnew, registry
  <1>7. CASE ProtocFails(p) \/ Publishes(p)
    <2>1. stagings' = stagings \/ stagings' = [stagings EXCEPT ![Staging(Doing(p).root, Doing(p).target)] = None]
      BY <1>7 DEF ProtocFails, Publishes, Discards
    <2>2. stagings' \in [StagingPaths -> OrNone(RootProcs)]
      BY <2>1 DEF DiskTyped, OrNone
    <2> QED
      BY <1>7, <2>2, StagingTyped DEF ProtocFails, Publishes, registry
  <1>8. CASE Purges(p)
    <2>1. stagings' = stagings \/ \E S : stagings' = [x \in StagingPaths |-> IF x \in S THEN None ELSE stagings[x]]
      BY <1>8 DEF Purges
    <2>2. stagings' \in [StagingPaths -> OrNone(RootProcs)]
      BY <2>1 DEF DiskTyped, OrNone
    <2> QED
      BY <1>8, <2>2, StagingTyped DEF Purges, registry
  <1>9. CASE Unclaims(p)
    <2>1. claims' \in [Roots -> OrNone(RootTrees)] /\ recorded' \in [Roots -> SUBSET TargetNames]
      BY <1>9 DEF Unclaims, DiskTyped, OrNone
    <2>2. UNCHANGED <<stagings, planned, deleted>>
      BY <1>9 DEF Unclaims
    <2> QED
      BY <2>1, <2>2 DEF DiskTyped, IsLayout
  <1> QED
    BY <1>1, <1>2, <1>3, <1>4, <1>5, <1>6, <1>7, <1>8, <1>9 DEF RootStep

(* and so has what any step writes.                                         *)
LEMMA DiskTypedNext == RootInv /\ RootTypeOK /\ RootNext => DiskTyped'
  <1> SUFFICES ASSUME RootInv, RootTypeOK, RootNext PROVE DiskTyped'
    OBVIOUS
  <1>0. DiskTyped /\ ErrandsTyped
    BY DEF RootTypeOK, DiskTyped, ErrandsTyped, ErrandTyped
  <1>1. CASE \E p \in RootProcs : RootStep(p)
    BY <1>0, <1>1, DiskTypedStep
  <1>2. CASE \E p \in RootProcs : KillErrand(p)
    BY <1>0, <1>2, SameDisk DEF KillErrand, registry
  <1>3. CASE \E p \in RootProcs, b \in RootTrees, layout \in UNION Range(Layouts) :
                layout \in Layouts[b] /\ Configure(p, b, layout)
    <2>1. PICK p \in RootProcs, b \in RootTrees, layout \in UNION Range(Layouts) :
                layout \in Layouts[b] /\ Configure(p, b, layout)
      BY <1>3
    <2>2. UNCHANGED <<claims, recorded, stagings, deleted>>
      BY <2>1 DEF Configure, Begins, registry
    <2>3. planned' = [planned EXCEPT ![b] = WrittenOver(layout, planned[b])]
      BY <2>1 DEF Configure
    <2>4. IsLayout(WrittenOver(layout, planned[b]))
      BY <1>0, <2>1, LayoutsTyped, WrittenTyped DEF DiskTyped
    <2> QED
      BY <1>0, <2>2, <2>3, <2>4, PlannedTyped DEF DiskTyped
  <1>4. CASE \E p \in RootProcs, b \in RootTrees, r \in Roots, t \in TargetNames : Generate(p, b, r, t)
    BY <1>0, <1>4, SameDisk DEF Generate, Begins, registry
  <1>5. CASE \E p \in RootProcs, r \in Roots : Reset(p, r)
    BY <1>0, <1>5, SameDisk DEF Reset, Begins, registry
  <1>6. CASE \E b \in RootTrees : DeleteTree(b)
    <2>1. PICK b \in RootTrees : DeleteTree(b)
      BY <1>6
    <2>2. UNCHANGED <<claims, recorded, stagings>> /\ planned' = [planned EXCEPT ![b] = NoLayout]
      BY <2>1 DEF DeleteTree, registry
    <2>3. deleted' \subseteq RootTrees
      BY <1>0, <2>1 DEF DeleteTree, DiskTyped
    <2> QED
      BY <1>0, <2>2, <2>3, NothingTyped, PlannedTyped
  <1> QED
    BY <1>1, <1>2, <1>3, <1>4, <1>5, <1>6 DEF RootNext

(* Claims, plans, stagings and locks belong to what may have them, whatever *)
(* finalize_output_plans, reconcile_set, generations and resets do.         *)
THEOREM RootTypesCorrect == RootSpec => []RootTypeOK
  <1>1. RootInit(RootScenarios) => RootTypeOK
    <2> SUFFICES ASSUME RootInit(RootScenarios) PROVE RootTypeOK
      OBVIOUS
    <2>1. "idle" \in RootPhases
      BY DEF RootPhases
    <2>2. /\ claims \in [Roots -> OrNone(RootTrees)] /\ recorded \in [Roots -> SUBSET TargetNames]
          /\ stagings \in [StagingPaths -> OrNone(RootProcs)] /\ rootLock \in [RootLocks -> OrNone(RootProcs)]
      BY DEF RootInit, OrNone
    <2>3. /\ DOMAIN planned = RootTrees /\ \A b \in RootTrees : IsLayout(planned[b])
          /\ phase \in [RootProcs -> RootPhases] /\ deleted \subseteq RootTrees
          /\ \A p \in RootProcs : ErrandTyped(Doing(p))
      BY <2>1, NothingTyped DEF RootInit, Doing
    <2> QED
      BY <2>2, <2>3 DEF RootTypeOK, ErrandTyped
  <1>2. RootInv /\ RootTypeOK /\ [RootNext]_rootVars => RootTypeOK'
    <2> SUFFICES ASSUME RootInv, RootTypeOK, [RootNext]_rootVars PROVE RootTypeOK'
      OBVIOUS
    <2>1. CASE RootNext
      BY <2>1, DiskTypedNext, ErrandsTypedNext DEF RootTypeOK, DiskTyped, ErrandsTyped, ErrandTyped
    <2>2. CASE UNCHANGED rootVars
      BY <2>2 DEF rootVars, registry, RootTypeOK, Doing, IsLayout
    <2> QED
      BY <2>1, <2>2
  <1>3. RootSpec => []RootInv
    BY RootInvInit, RootInvNext, PTL DEF RootSpec
  <1> QED
    BY <1>1, <1>2, <1>3, PTL DEF RootSpec
=============================================================================
