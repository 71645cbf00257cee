----------------------------- MODULE RootSafety -----------------------------
(* The types of RootRegistry and what configurations, generations and       *)
(* resets of several roots keep among them.                                 *)
EXTENDS RootRegistry

RootPhases == {"idle", "validate", "claim", "retire", "commit", "store", "check", "work", "purge",
               "release"}
IsLayout(l) == DOMAIN l \subseteq Roots /\ \A r \in DOMAIN l : l[r] \subseteq TargetNames

(* Claims, plans and locks belong to what may have them.                    *)
RootTypeOK ==
    /\ claims \in [Roots -> OrNone(RootTrees)] /\ recorded \in [Roots -> SUBSET TargetNames]
    /\ stagings \in [StagingPaths -> OrNone(RootProcs)]
    /\ DOMAIN planned = RootTrees /\ \A b \in RootTrees : IsLayout(planned[b])
    /\ rootLock \in [RootLocks -> OrNone(RootProcs)]
    /\ phase \in [RootProcs -> RootPhases] /\ deleted \subseteq RootTrees
    /\ \A p \in RootProcs : IsLayout(Doing(p).layout) /\ Doing(p).retired \subseteq Roots

(* No claimed root lies in another, no recorded staging in a claimed root,  *)
(* and no two roots record one staging: also halfway through a              *)
(* configuration that hands a staging from a retired root to a current one. *)
RootsKeepApart ==
    \A r, s \in {x \in Roots : claims[x] # None} :
        /\ r # s => ~Overlap(r, s)
        /\ \A x \in StagingsOf(r, recorded[r]) :
              /\ ~Overlap(x, s)
              /\ r # s => \A y \in StagingsOf(s, recorded[s]) : ~Overlap(x, y)

(* A configuration that was accepted is accepted again after every step of  *)
(* it: whatever a kill leaves of several roots, a retry of it goes through. *)
RetryAccepted ==
    \A p \in RootProcs :
        phase[p] \in {"claim", "retire", "commit"} =>
            Accepts(Doing(p).tree, Doing(p).retired, Doing(p).layout)

(* A tree that was not deleted has a plan file for each of its claims, so   *)
(* that the next configuration retires the root if it is not used any more. *)
ClaimsKnown ==
    \A r \in Roots : claims[r] \notin deleted \cup {None} => r \in DOMAIN planned[claims[r]]

(* From the time it makes its staging until it has published, nobody else   *)
(* makes or removes it: neither another generation, nor the retirement or   *)
(* the reset of whichever root had that staging before.                     *)
StagingPrivate ==
    \A p \in RootProcs : phase[p] = "work" => stagings[Staging(Doing(p).root, Doing(p).target)] = p

(* No processes wait for each other's locks in a circle.                    *)
WaitsFor(p, q) == \E k \in RootLocks : Awaits(p, k) /\ rootLock[k] = q
NoCircle == ~\E S \in (SUBSET RootProcs) \ {{}} : \A p \in S : \E q \in S : WaitsFor(p, q)

(* Configurations, generations and resets of several roots leave a registry *)
(* in which roots and stagings keep apart, that a retry can go on with, and *)
(* neither take each other's staging nor wait for each other for ever.      *)
RootsSound == RootsKeepApart /\ RetryAccepted /\ ClaimsKnown /\ StagingPrivate /\ NoCircle
============================================================================
