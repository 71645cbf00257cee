------------------------- MODULE EnvironmentProofs -------------------------
(***************************************************************************)
(* Proofs about the managed Python environment, for every number of        *)
(* configures, transactions and accidents.                                 *)
(*                                                                         *)
(* Helpers exclude each other because whoever acts on a transaction holds  *)
(* its lease, and whoever is in the section holds its lock.  While no      *)
(* helper outlives its configure there is one transaction at most, its     *)
(* journal says which directory may be where, and only a directory that is *)
(* where the journal says is restored, discarded or erased.                *)
(***************************************************************************)
EXTENDS EnvironmentSafety, SequenceTheorems, TLAPS

---------------------------------------------------------------------------
(* What a helper has left to do *)

Removing == {"cleanup", "aside", "erase", "forget"}
Creating == {"mkdir", "print", "bind_print"}
Moving == {"move", "rename", "moved"}
Acts == Creating \cup {"bind"} \cup Moving \cup Removing
Building == {"venv", "install", "relocate"}
Owned == {"backup", "prepare", "promote", "commit", "cleanup", "restore"}
Commands == {"recover", "create"} \cup Owned
Outside == {"idle", "done", "failed", "lock"}
Inside(p) == cmake[p] \notin Outside

Backing(e) == <<Bind("previous", e), Move("live", "previous", e)>>
Stashing(e) == <<Move("live", "previous", e)>>
Naming(e) == <<Bind("candidate", e)>>
Sealing(e) == <<Bind("committed", e)>>
Promoting(e) == <<Move("staging", "live", e)>>
Cleaning == <<CleanUp>>
Discarding(e) == <<Move("live", "discarded", e), CleanUp>>
Swapping(e, f) == <<Move("live", "discarded", e), Move("previous", "live", f), CleanUp>>
Returning(e) == <<Move("previous", "live", e), CleanUp>>

Somewhere == OrNone(Environments)
Own == OrNone(Transactions)
Todos ==
    {<<>>, Cleaning} \cup {Naming(e) : e \in Own} \cup {Backing(e) : e \in Somewhere}
    \cup {Stashing(e) : e \in Somewhere} \cup {Sealing(e) : e \in Somewhere}
    \cup {Promoting(e) : e \in Somewhere} \cup {Discarding(e) : e \in Somewhere}
    \cup {Returning(e) : e \in Somewhere}
    \cup {Swapping(e, f) : e \in Somewhere, f \in Somewhere}
Tasks ==
    [cmd : Commands \cup {None, "abort"}, txn : OrNone(Transactions), todo : Todos,
     left : SUBSET Transactions]

(* The first operation of each plan, and what is left behind it.            *)
LEMMA Plans ==
    ASSUME NEW e
    PROVE  /\ Backing(e) # <<>> /\ Head(Backing(e)) = Bind("previous", e) /\ Tail(Backing(e)) = Stashing(e)
           /\ Stashing(e) # <<>> /\ Head(Stashing(e)) = Move("live", "previous", e) /\ Tail(Stashing(e)) = <<>>
           /\ Naming(e) # <<>> /\ Head(Naming(e)) = Bind("candidate", e) /\ Tail(Naming(e)) = <<>>
           /\ Sealing(e) # <<>> /\ Head(Sealing(e)) = Bind("committed", e) /\ Tail(Sealing(e)) = <<>>
           /\ Promoting(e) # <<>> /\ Head(Promoting(e)) = Move("staging", "live", e) /\ Tail(Promoting(e)) = <<>>
           /\ Cleaning # <<>> /\ Head(Cleaning) = CleanUp /\ Tail(Cleaning) = <<>>
           /\ Discarding(e) # <<>> /\ Head(Discarding(e)) = Move("live", "discarded", e) /\ Tail(Discarding(e)) = Cleaning
           /\ Returning(e) # <<>> /\ Head(Returning(e)) = Move("previous", "live", e) /\ Tail(Returning(e)) = Cleaning
           /\ \A f : /\ Swapping(e, f) # <<>> /\ Head(Swapping(e, f)) = Move("live", "discarded", e)
                    /\ Tail(Swapping(e, f)) = Returning(f)
BY DEF Backing, Stashing, Naming, Sealing, Promoting, Cleaning, Discarding, Returning, Swapping

(* Every plan is one a task may have.                                       *)
LEMMA Planned ==
    /\ <<>> \in Todos /\ Cleaning \in Todos
    /\ \A e \in Own : Naming(e) \in Todos
    /\ \A e \in Somewhere : /\ Backing(e) \in Todos /\ Stashing(e) \in Todos /\ Sealing(e) \in Todos
                            /\ Promoting(e) \in Todos /\ Discarding(e) \in Todos /\ Returning(e) \in Todos
    /\ \A e \in Somewhere, f \in Somewhere : Swapping(e, f) \in Todos
BY DEF Todos

---------------------------------------------------------------------------
(* Helpers exclude each other *)

EnvTyped ==
    /\ EnvTypeOK /\ task \in [Configures -> Tasks] /\ envBudget \in [Accidents -> Nat]
    /\ Theirs \notin marked
(* Who is in the section has the lock; who has a helper is there, unless it *)
(* was killed alone.                                                        *)
Locked ==
    \A p \in Configures :
        /\ Inside(p) <=> envLock = p
        /\ helper[p] # "none" => Inside(p) \/ (cmake[p] = "failed" /\ "orphans" \in suffered)
(* A helper that acts on a transaction owns it, and it alone.               *)
Owning ==
    /\ \A p \in Configures, x \in Transactions :
          owner[x] = p <=> helper[p] \in Acts /\ task[p].txn = x
    /\ \A p \in Configures : helper[p] \in Acts => task[p].txn # None /\ journal[task[p].txn] # None
(* The command of a helper is that of its configure, unless it outlived it; *)
(* where it is says what of the command is left to do.                      *)
Fits(c, h, t) ==
    /\ c \in Commands => h # "none" /\ (t.cmd = c \/ (c = "create" /\ t.cmd = "abort"))
    /\ c \in Building => h = "none"
    /\ c \in Building \cup Owned \/ (c = "create" /\ h = "ok") => t.txn # None
    /\ h = "claim" => t.todo = <<>> /\ t.cmd \in Commands /\ (t.cmd \in Owned => t.txn # None)
    /\ h \in Creating => t.todo = <<>> /\ t.cmd = "create"
    /\ h = "bind" => \/ \E e \in Somewhere : t.todo = Backing(e) /\ t.cmd = "backup"
                     \/ \E e \in Own : t.todo = Naming(e) /\ t.cmd = "prepare"
                     \/ \E e \in Somewhere : t.todo = Sealing(e) /\ t.cmd = "commit"
    /\ h \in Moving =>
          \/ \E e \in Somewhere : \/ t.todo = Stashing(e) /\ t.cmd = "backup"
                                  \/ t.todo = Promoting(e) /\ t.cmd = "promote"
          \/ /\ t.cmd \in {"restore", "recover"}
             /\ \E e, f \in Somewhere : t.todo \in {Discarding(e), Returning(e), Swapping(e, f)}
    /\ h \in Removing => t.todo \in {<<>>, Cleaning} /\ t.cmd \in {"restore", "recover", "cleanup", "abort"}
Shaped ==
    /\ cmake \in [Configures -> Stages] /\ helper \in [Configures -> Steps] /\ task \in [Configures -> Tasks]
    /\ envLock \in OrNone(Configures) /\ owner \in [Transactions -> OrNone(Configures)]
Apart == Shaped /\ Locked /\ Owning /\ \A p \in Configures : Fits(cmake[p], helper[p], task[p])
(* A transaction builds the environment of its name.                        *)
Staged == \A x \in Transactions : tree[x].staging \in {None, x}
EnvBase == EnvTyped /\ Apart /\ Staged

(* The labels a helper may be at, and what follows from one.                *)
LEMMA Labels ==
    /\ Acts = Steps \ {"none", "ok", "refused", "claim"}
    /\ \A p \in Configures : Working(p) <=> helper[p] \in Acts \cup {"claim"} \/ helper[p] \notin Steps
    /\ Commands \subseteq Stages /\ Building \subseteq Stages /\ Outside \subseteq Stages
    /\ Stages = Commands \cup Building \cup Outside
BY DEF Acts, Steps, Creating, Moving, Removing, Commands, Owned, Building, Outside, Stages, Working

(* A configure enters c, with its helper at h and its task t; a helper goes *)
(* on to h with the task t.                                                 *)
Turn(p, c, h, t, l) ==
    /\ cmake' = [cmake EXCEPT ![p] = c] /\ helper' = [helper EXCEPT ![p] = h]
    /\ task' = [task EXCEPT ![p] = t] /\ envLock' = l
Goes(p, h, t) ==
    /\ cmake' = cmake /\ envLock' = envLock
    /\ helper' = [helper EXCEPT ![p] = h] /\ task' = [task EXCEPT ![p] = t]

(* The turn of a configure keeps helpers apart.                             *)
LEMMA Directed ==
    ASSUME EnvBase, NEW p \in Configures, NEW c \in Stages, NEW h \in Steps, NEW t \in Tasks,
           NEW l \in {envLock, p, None},
           Turn(p, c, h, t, l), owner' = owner,
           suffered \subseteq suffered',
           \A x \in Transactions : journal'[x] = journal[x],
           helper[p] \notin Acts, h \notin Acts,
           Inside(p) => envLock = p,
           c \notin Outside <=> l = p,
           c \in Outside => h = "none" /\ l = IF envLock = p THEN None ELSE envLock,
           ~Inside(p) /\ c \notin Outside => envLock = None,
           Fits(c, h, t)
    PROVE  Apart'
<1>0. /\ cmake' \in [Configures -> Stages] /\ helper' \in [Configures -> Steps] /\ task' \in [Configures -> Tasks]
      /\ cmake'[p] = c /\ helper'[p] = h /\ task'[p] = t
      /\ \A q \in Configures \ {p} : cmake'[q] = cmake[q] /\ helper'[q] = helper[q] /\ task'[q] = task[q]
  BY DEF EnvBase, Apart, EnvTyped, EnvTypeOK, Turn
<1>1. Locked'
  BY <1>0, EnvAssumption DEF Turn, EnvAssumption, EnvBase, Apart, EnvTyped, EnvTypeOK, Locked, Inside, OrNone
<1>2. Owning'
  <2>1. \A q \in Configures, x \in Transactions : owner'[x] = q <=> helper'[q] \in Acts /\ task'[q].txn = x
    BY <1>0 DEF EnvBase, Apart, Owning
  <2>2. ASSUME NEW q \in Configures, helper'[q] \in Acts
        PROVE  task'[q].txn # None /\ journal'[task'[q].txn] # None
    <3>1. q # p /\ helper[q] \in Acts /\ task'[q] = task[q]
      BY <2>2, <1>0
    <3>2. task[q].txn # None /\ journal[task[q].txn] # None /\ task[q].txn \in OrNone(Transactions)
      BY <3>1 DEF EnvBase, Apart, Owning, EnvTyped, Tasks
    <3> QED BY <3>1, <3>2 DEF OrNone
  <2> QED BY <2>1, <2>2 DEF Owning
<1>3. \A q \in Configures : Fits(cmake[q], helper[q], task[q])'
  BY <1>0 DEF EnvBase, Apart, Goes
<1>4. Shaped'
  BY <1>0 DEF Shaped, Turn, EnvBase, Apart, EnvTyped, EnvTypeOK, OrNone
<1> QED BY <1>1, <1>2, <1>3, <1>4 DEF Apart

(* So does the step of a helper that acts on the transaction of its task.   *)
LEMMA Helped ==
    ASSUME EnvBase, NEW p \in Configures, NEW h \in Steps, NEW t \in Tasks,
           Goes(p, h, t),
           helper[p] # "none" /\ h # "none",
           suffered \subseteq suffered',
           \A y \in Transactions \ {t.txn} : journal'[y] = journal[y],
           helper[p] \in Acts /\ h \in Acts => t.txn = task[p].txn,
           h \in Acts =>
             /\ t.txn # None /\ journal'[t.txn] # None /\ owner[t.txn] \in {None, p}
             /\ owner' = [owner EXCEPT ![t.txn] = p],
           h \notin Acts => Close(p) /\ (t.txn = None \/ journal'[t.txn] = journal[t.txn] \/ owner[t.txn] \in {None, p}),
           Fits(cmake[p], h, t)
    PROVE  Apart'
<1>0. /\ helper' \in [Configures -> Steps] /\ task' \in [Configures -> Tasks]
      /\ helper'[p] = h /\ task'[p] = t
      /\ \A q \in Configures \ {p} : helper'[q] = helper[q] /\ task'[q] = task[q]
  BY DEF EnvBase, Apart, EnvTyped, EnvTypeOK, Goes
<1>1. Locked'
  BY <1>0 DEF Goes, EnvBase, Apart, EnvTyped, EnvTypeOK, Locked, Inside, OrNone
<1>2. Owning'
  <2>1. ASSUME h \in Acts PROVE Owning'
    <3>1. owner' \in [Transactions -> OrNone(Configures)] /\ t.txn \in Transactions /\ owner'[t.txn] = p
          /\ \A y \in Transactions \ {t.txn} : owner'[y] = owner[y]
      BY <2>1 DEF EnvBase, Apart, EnvTyped, EnvTypeOK, Tasks, OrNone
    <3>2. \A y \in Transactions \ {t.txn} : owner[y] # p
      BY <2>1 DEF EnvBase, Apart, Owning
    <3>3. \A q \in Configures, x \in Transactions : owner'[x] = q <=> helper'[q] \in Acts /\ task'[q].txn = x
      <4>1. ASSUME NEW q \in Configures \ {p}, NEW x \in Transactions, x # t.txn
            PROVE  owner'[x] = q <=> helper'[q] \in Acts /\ task'[q].txn = x
        BY <4>1, <3>1, <1>0 DEF EnvBase, Apart, Owning
      <4>2. ASSUME NEW q \in Configures \ {p}
            PROVE  ~(helper'[q] \in Acts /\ task'[q].txn = t.txn)
        <5>1. owner[t.txn] # q
          BY <2>1, EnvAssumption DEF EnvAssumption
        <5> QED BY <5>1, <3>1, <1>0 DEF EnvBase, Apart, Owning
      <4>3. ASSUME NEW x \in Transactions
            PROVE  owner'[x] = p <=> helper'[p] \in Acts /\ task'[p].txn = x
        BY <2>1, <3>1, <3>2, <1>0
      <4> QED BY <4>1, <4>2, <4>3, <3>1
    <3>4. ASSUME NEW q \in Configures \ {p}, helper'[q] \in Acts
          PROVE  task'[q].txn # None /\ journal'[task'[q].txn] # None
      <4>1. helper[q] \in Acts /\ task'[q] = task[q] /\ owner[t.txn] # q
        BY <3>4, <2>1, <1>0, EnvAssumption DEF EnvAssumption
      <4>2. task[q].txn \in Transactions /\ journal[task[q].txn] # None /\ owner[task[q].txn] = q
        BY <4>1 DEF EnvBase, Apart, Owning, EnvTyped, Tasks, OrNone
      <4>3. \A y \in Transactions : owner[y] = q => journal'[y] = journal[y]
        BY <4>1
      <4>4. task[q].txn # None
        BY <4>1 DEF EnvBase, Apart, Owning
      <4> QED BY <4>1, <4>2, <4>3, <4>4
    <3> QED BY <3>3, <3>4, <2>1, <1>0 DEF Owning
  <2>2. ASSUME h \notin Acts PROVE Owning'
    <3>1. \A y \in Transactions : owner'[y] = IF owner[y] = p THEN None ELSE owner[y]
      BY <2>2 DEF Close
    <3>2. \A q \in Configures, x \in Transactions : owner'[x] = q <=> helper'[q] \in Acts /\ task'[q].txn = x
      <4>1. None \notin Configures
        BY EnvAssumption DEF EnvAssumption
      <4>2. ASSUME NEW q \in Configures \ {p}, NEW x \in Transactions
            PROVE  owner'[x] = q <=> helper'[q] \in Acts /\ task'[q].txn = x
        BY <4>1, <3>1, <1>0 DEF EnvBase, Apart, Owning
      <4>3. ASSUME NEW x \in Transactions PROVE owner'[x] # p /\ helper'[p] \notin Acts
        BY <4>1, <3>1, <1>0, <2>2
      <4> QED BY <4>2, <4>3
    <3>3. ASSUME NEW q \in Configures, helper'[q] \in Acts
          PROVE  task'[q].txn # None /\ journal'[task'[q].txn] # None
      <4>1. q # p /\ helper[q] \in Acts /\ task'[q] = task[q] /\ p # None /\ q # None
        BY <3>3, <2>2, <1>0, EnvAssumption DEF EnvAssumption
      <4>2. task[q].txn \in Transactions /\ journal[task[q].txn] # None /\ owner[task[q].txn] = q
        BY <4>1 DEF EnvBase, Apart, Owning, EnvTyped, Tasks, OrNone
      <4>3. \A y \in Transactions : owner[y] = q => journal'[y] = journal[y]
        BY <4>1, <2>2, EnvAssumption DEF EnvAssumption, Environments
      <4>4. task[q].txn # None
        BY <4>1 DEF EnvBase, Apart, Owning
      <4> QED BY <4>1, <4>2, <4>3, <4>4
    <3> QED BY <3>2, <3>3 DEF Owning
  <2> QED BY <2>1, <2>2
<1>3. \A q \in Configures : Fits(cmake[q], helper[q], task[q])'
  BY <1>0 DEF EnvBase, Apart, Goes
<1>4. Shaped'
  <2>1. owner \in [Transactions -> OrNone(Configures)]
    BY DEF EnvBase, Apart, EnvTyped, EnvTypeOK
  <2>2. owner' \in [Transactions -> OrNone(Configures)]
    <3>1. CASE h \in Acts
      BY <2>1, <3>1 DEF OrNone
    <3>2. CASE h \notin Acts
      BY <2>1, <3>2 DEF Close, OrNone
    <3> QED BY <3>1, <3>2
  <2> QED BY <1>0, <2>2 DEF Shaped, Goes, EnvBase, Apart, EnvTyped, EnvTypeOK
<1> QED BY <1>1, <1>2, <1>3, <1>4 DEF Apart

(* The request of one command.                                              *)
Request(cmd, x) ==
    [cmd |-> cmd, txn |-> x, todo |-> <<>>,
     left |-> IF cmd = "recover" THEN {y \in Transactions : journal[y] # None} ELSE {}]

(* What a configure may ask is a task.                                      *)
LEMMA Requests ==
    /\ \A cmd \in Commands, x \in Own : Request(cmd, x) \in Tasks
    /\ NoTask \in Tasks
BY Planned DEF Request, NoTask, Tasks, Own, OrNone

(* Whoever is in the section holds the lock, alone, and nothing of the      *)
(* helper it has called so far is left behind.                              *)
LEMMA Within ==
    ASSUME EnvBase, NEW p \in Configures, Inside(p)
    PROVE  /\ envLock = p /\ (\A q \in Configures \ {p} : ~Inside(q))
           /\ "orphans" \notin suffered => \A q \in Configures \ {p} : helper[q] = "none"
BY DEF EnvBase, Apart, Locked

(* Every step of a configure is a turn that the helpers can tell apart.     *)
LEMMA Turns ==
    ASSUME EnvBase, NEW p \in Configures,
           NEW c \in Stages, NEW h \in {"none", "claim"}, NEW t \in Tasks, NEW l,
           Turn(p, c, h, t, l), owner' = owner, journal' = journal, suffered \subseteq suffered',
           helper[p] \notin Acts, Inside(p), c = "lock" => FALSE,
           l = IF c \in Outside THEN None ELSE p,
           c \in Outside => h = "none",
           Fits(c, h, t)
    PROVE  Apart'
<1>1. envLock = p
  BY Within
<1>2. h \in Steps /\ h \notin Acts
  BY DEF Steps, Acts, Creating, Moving, Removing
<1>3. (\A x \in Transactions : journal'[x] = journal[x]) /\ (c \notin Outside <=> l = p)
  BY EnvAssumption DEF EnvAssumption
<1> QED BY Directed, <1>1, <1>2, <1>3

(* The turns a configure takes.                                             *)
LEMMA StepTurns ==
    ASSUME EnvBase, NEW p \in Configures
    PROVE  /\ Recovered(p) =>
                \/ IsReady /\ Turn(p, "done", "none", NoTask, None)
                \/ ~IsReady /\ Turn(p, "create", "claim", Request("create", None), p)
           /\ Created(p) => Turn(p, "venv", "none", task[p], p)
           /\ CreateVenv(p) =>
                \/ live # None /\ Turn(p, "backup", "claim", Request("backup", task[p].txn), p)
                \/ live = None /\ Turn(p, "install", "none", task[p], p)
                \/ Turn(p, "restore", "claim", Request("restore", task[p].txn), p)
           /\ VenvFails(p) => Turn(p, "restore", "claim", Request("restore", task[p].txn), p)
           /\ BackedUp(p) => Turn(p, "install", "none", task[p], p)
           /\ Install(p) =>
                \/ Turn(p, "prepare", "claim", Request("prepare", task[p].txn), p)
                \/ /\ Turn(p, "restore", "claim", Request("restore", task[p].txn), p)
                   /\ UNCHANGED <<health, marked>>
           /\ Prepared(p) => Turn(p, "promote", "claim", Request("promote", task[p].txn), p)
           /\ Promoted(p) => Turn(p, "relocate", "none", task[p], p)
           /\ Relocate(p) =>
                \/ Turn(p, "commit", "claim", Request("commit", task[p].txn), p)
                \/ /\ Turn(p, "restore", "claim", Request("restore", task[p].txn), p)
                   /\ UNCHANGED health
           /\ Committed(p) => Turn(p, "cleanup", "claim", Request("cleanup", task[p].txn), p)
           /\ CleanedUp(p) => Turn(p, "done", "none", NoTask, None)
           /\ Fails(p) =>
                \/ /\ cmake[p] \in {"prepare", "promote"}
                   /\ Turn(p, "restore", "claim", Request("restore", task[p].txn), p)
                \/ Turn(p, "failed", "none", NoTask, None)
           /\ ConfigureStep(p) /\ ~Lock(p) =>
                Inside(p) /\ helper[p] \in {"none", "ok", "refused"} /\ owner' = owner /\ journal' = journal
<1> DEFINE x == task[p].txn
<1>1. /\ envLock = p <=> Inside(p)
      /\ Commands \cap Outside = {} /\ Building \cap Outside = {}
      /\ "claim" \in Steps /\ "none" \in Steps /\ Stages = Commands \cup Building \cup Outside
  BY DEF EnvBase, Apart, Locked, Commands, Owned, Building, Outside, Steps, Stages
<1>2. cmake[p] \in {"venv", "install", "relocate"} => helper[p] = "none"
  BY DEF EnvBase, Apart, Fits, Building
<1>3. /\ task = [task EXCEPT ![p] = task[p]] /\ helper = [helper EXCEPT ![p] = helper[p]]
      /\ cmake \in [Configures -> Stages] /\ helper \in [Configures -> Steps]
  BY DEF EnvBase, Apart, EnvTyped, EnvTypeOK
<1>4. \A q \in Commands \cup Building : cmake[p] = q => Inside(p)
  BY <1>1 DEF Inside
<1>5. Recovered(p) =>
                \/ IsReady /\ Turn(p, "done", "none", NoTask, None)
                \/ ~IsReady /\ Turn(p, "create", "claim", Request("create", None), p)
  BY <1>1, <1>4 DEF Recovered, Turn, Request, Leaves, Enter, Idle, Run, Commands
<1>6. Created(p) => Turn(p, "venv", "none", task[p], p)
  BY <1>1, <1>3, <1>4 DEF Created, Turn, Enter, Commands
<1>7. CreateVenv(p) =>
                \/ live # None /\ Turn(p, "backup", "claim", Request("backup", task[p].txn), p)
                \/ live = None /\ Turn(p, "install", "none", task[p], p)
                \/ Turn(p, "restore", "claim", Request("restore", task[p].txn), p)
  BY <1>1, <1>2, <1>3, <1>4 DEF CreateVenv, Turn, Request, Then, Rollback, Enter, Run, Building
<1>8. VenvFails(p) => Turn(p, "restore", "claim", Request("restore", task[p].txn), p)
  BY <1>1, <1>4 DEF VenvFails, Turn, Request, Rollback, Enter, Run, Building
<1>9. /\ BackedUp(p) => Turn(p, "install", "none", task[p], p)
      /\ Promoted(p) => Turn(p, "relocate", "none", task[p], p)
  BY <1>1, <1>3, <1>4 DEF BackedUp, Promoted, Turn, Enter, Commands, Owned
<1>10. Install(p) =>
                \/ Turn(p, "prepare", "claim", Request("prepare", task[p].txn), p)
                \/ /\ Turn(p, "restore", "claim", Request("restore", task[p].txn), p)
                   /\ UNCHANGED <<health, marked>>
  BY <1>1, <1>4 DEF Install, Turn, Request, Then, Rollback, Enter, Run, Building
<1>11. /\ Prepared(p) => Turn(p, "promote", "claim", Request("promote", task[p].txn), p)
       /\ Committed(p) => Turn(p, "cleanup", "claim", Request("cleanup", task[p].txn), p)
  BY <1>1, <1>4 DEF Prepared, Committed, Turn, Request, Then, Enter, Run, Commands, Owned
<1>12. Relocate(p) =>
                \/ Turn(p, "commit", "claim", Request("commit", task[p].txn), p)
                \/ /\ Turn(p, "restore", "claim", Request("restore", task[p].txn), p)
                   /\ UNCHANGED health
  BY <1>1, <1>4 DEF Relocate, Turn, Request, Then, Rollback, Enter, Run, Building
<1>13. CleanedUp(p) => Turn(p, "done", "none", NoTask, None)
  BY <1>1, <1>4 DEF CleanedUp, Turn, Leaves, Enter, Idle, Commands, Owned
<1>14. Fails(p) =>
                \/ /\ cmake[p] \in {"prepare", "promote"}
                   /\ Turn(p, "restore", "claim", Request("restore", task[p].txn), p)
                \/ Turn(p, "failed", "none", NoTask, None)
  BY <1>1, <1>4 DEF Fails, Turn, Request, Rollback, Leaves, Enter, Idle, Run, Commands, Owned
<1>15. ConfigureStep(p) /\ ~Lock(p) =>
                Inside(p) /\ helper[p] \in {"none", "ok", "refused"} /\ owner' = owner /\ journal' = journal
  BY <1>2, <1>4 DEF ConfigureStep, Recovered, Created, CreateVenv, VenvFails, BackedUp, Install, Prepared,
        Promoted, Relocate, Committed, CleanedUp, Fails, fsVars, Commands, Owned, Building
<1> QED BY <1>5, <1>6, <1>7, <1>8, <1>9, <1>10, <1>11, <1>12, <1>13, <1>14, <1>15

(* Where a turn leads is a place, and what it needs is there.               *)
LEMMA TurnFits ==
    ASSUME EnvBase, NEW p \in Configures
    PROVE  /\ Fits("lock", "none", task[p]) /\ Fits("recover", "claim", Request("recover", None))
           /\ Fits("create", "claim", Request("create", None))
           /\ Fits("done", "none", NoTask) /\ Fits("failed", "none", NoTask)
           /\ Created(p) => Fits("venv", "none", task[p])
           /\ cmake[p] = "venv" \/ BackedUp(p) => Fits("install", "none", task[p])
           /\ Promoted(p) => Fits("relocate", "none", task[p])
           /\ cmake[p] \in Building \cup Owned => task[p].txn \in Transactions
           /\ \A cmd \in Owned : cmake[p] \in Building \cup Owned => Fits(cmd, "claim", Request(cmd, task[p].txn))
<1>1. Fits(cmake[p], helper[p], task[p]) /\ task[p].txn \in OrNone(Transactions)
  BY DEF EnvBase, Apart, EnvTyped, Tasks
<1>2. /\ Fits("lock", "none", task[p]) /\ Fits("recover", "claim", Request("recover", None))
      /\ Fits("create", "claim", Request("create", None))
      /\ Fits("done", "none", NoTask) /\ Fits("failed", "none", NoTask)
  BY DEF Fits, Request, NoTask, Commands, Owned, Building, Creating, Moving, Removing
<1>3. Created(p) => Fits("venv", "none", task[p])
  BY <1>1 DEF Created, Fits, Commands, Owned, Building, Creating, Moving, Removing
<1>4. cmake[p] \in Building \cup Owned => task[p].txn \in Transactions /\ task[p].txn # None
  BY <1>1 DEF Fits, OrNone
<1>5. cmake[p] = "venv" \/ BackedUp(p) => Fits("install", "none", task[p])
  BY <1>4 DEF BackedUp, Fits, Commands, Owned, Building, Creating, Moving, Removing
<1>6. Promoted(p) => Fits("relocate", "none", task[p])
  BY <1>4 DEF Promoted, Fits, Commands, Owned, Building, Creating, Moving, Removing
<1>7. \A cmd \in Owned : cmake[p] \in Building \cup Owned => Fits(cmd, "claim", Request(cmd, task[p].txn))
  BY <1>4 DEF Fits, Request, Commands, Owned, Building, Creating, Moving, Removing
<1> QED BY <1>2, <1>3, <1>4, <1>5, <1>6, <1>7

(* What a configure does itself to directories, and to nothing else.        *)
LEMMA StepData ==
    ASSUME EnvBase, NEW p \in Configures, ConfigureStep(p), ~Lock(p)
    PROVE  LET x == task[p].txn IN
           /\ UNCHANGED <<live, journal, owner, luck>>
           /\ \/ UNCHANGED <<tree, health, marked>>
              \/ /\ CreateVenv(p) /\ x \in Transactions /\ tree[x].at = "path"
                 /\ tree' = [tree EXCEPT ![x].staging = x]
                 /\ health' = [health EXCEPT ![x] = "partial"] /\ marked' = marked
              \/ /\ Install(p) /\ x \in Transactions /\ tree[x].at = "path" /\ tree[x].staging = x
                 /\ health' = [health EXCEPT ![x] = "staged"] /\ marked' = marked \cup {x}
                 /\ tree' = tree
              \/ /\ Relocate(p) /\ live \in Transactions /\ health' = [health EXCEPT ![live] = "usable"]
                 /\ UNCHANGED <<tree, marked>>
<1>1. cmake[p] \in Building \cup Owned => task[p].txn \in Transactions
  BY TurnFits
<1>2. Recovered(p) \/ Created(p) \/ VenvFails(p) \/ BackedUp(p) \/ Prepared(p) \/ Promoted(p) \/ Committed(p)
      \/ CleanedUp(p) \/ Fails(p) => UNCHANGED <<live, journal, owner, luck, tree, health, marked>>
  BY DEF Recovered, Created, VenvFails, BackedUp, Prepared, Promoted, Committed, CleanedUp, Fails, fsVars
<1>3. CreateVenv(p) =>
         /\ UNCHANGED <<live, journal, owner, luck>>
         /\ task[p].txn \in Transactions /\ tree[task[p].txn].at = "path"
                 /\ tree' = [tree EXCEPT ![task[p].txn].staging = task[p].txn]
                 /\ health' = [health EXCEPT ![task[p].txn] = "partial"] /\ marked' = marked
  BY <1>1 DEF CreateVenv, Building
<1>4. Install(p) =>
         /\ UNCHANGED <<live, journal, owner, luck, tree>> /\ task[p].txn \in Transactions
         /\ \/ UNCHANGED <<health, marked>>
            \/ /\ tree[task[p].txn].at = "path" /\ tree[task[p].txn].staging = task[p].txn
               /\ health' = [health EXCEPT ![task[p].txn] = "staged"] /\ marked' = marked \cup {task[p].txn}
  BY <1>1 DEF Install, Building
<1>5. Relocate(p) =>
         /\ UNCHANGED <<live, journal, owner, luck, tree, marked>>
         /\ \/ UNCHANGED health
            \/ live \in Transactions /\ health' = [health EXCEPT ![live] = "usable"]
  BY DEF Relocate
<1> QED BY <1>2, <1>3, <1>4, <1>5 DEF ConfigureStep

(* The steps of a configure keep the helpers apart.                         *)
LEMMA ConfigureBase ==
    ASSUME EnvBase, NEW p \in Configures, StartConfiguring(p) \/ ConfigureStep(p)
    PROVE  EnvBase'
<1>0. /\ task[p] \in Tasks /\ cmake[p] \in Stages /\ helper[p] \in Steps /\ NoTask \in Tasks
      /\ Fits(cmake[p], helper[p], task[p]) /\ None \in Own
      /\ \A cmd \in Commands, x \in Own : Request(cmd, x) \in Tasks
  BY Requests DEF EnvBase, Apart, EnvTyped, EnvTypeOK, Own, OrNone
<1>1. CASE StartConfiguring(p)
  <2>1. Turn(p, "lock", "none", task[p], envLock) /\ helper[p] = "none" /\ ~Inside(p) /\ envLock # p
    BY <1>1, <1>0 DEF StartConfiguring, Turn, Enter, EnvBase, Apart, EnvTyped, EnvTypeOK, Locked, Inside, Outside
  <2>2. owner' = owner /\ journal' = journal /\ suffered \subseteq suffered' /\ "lock" \in Stages /\ "none" \in Steps
        /\ "none" \notin Acts /\ "lock" \in Outside
    BY <1>1 DEF StartConfiguring, Suffer, fsVars, Stages, Steps, Acts, Creating, Moving, Removing, Outside
  <2>3. Fits("lock", "none", task[p])
    BY TurnFits
  <2>4. Apart'
    BY <1>0, <2>1, <2>2, <2>3, Directed
  <2>5. EnvTyped' /\ Staged'
    BY <1>1, <2>1, <2>2, <1>0
       DEF StartConfiguring, Suffer, fsVars, Turn, EnvBase, Apart, EnvTyped, EnvTypeOK, Staged, Accidents, OrNone
  <2> QED BY <2>4, <2>5 DEF EnvBase
<1>2. CASE Lock(p)
  <2>1. Turn(p, "recover", "claim", Request("recover", None), p) /\ ~Inside(p) /\ envLock = None
    BY <1>2 DEF Lock, Run, Request, Turn, Enter, Inside, Outside
  <2>2. owner' = owner /\ journal' = journal /\ suffered \subseteq suffered' /\ "recover" \in Stages /\ "claim" \in Steps
        /\ "claim" \notin Acts /\ "recover" \notin Outside /\ "recover" \in Commands /\ helper[p] \notin Acts
    BY <1>2 DEF Lock, luck, fsVars, Stages, Steps, Acts, Creating, Moving, Removing, Outside, Commands,
                EnvBase, Apart, Locked, Inside
  <2>3. Fits("recover", "claim", Request("recover", None)) /\ Request("recover", None) \in Tasks
    BY TurnFits, <1>0, <2>2
  <2>4. Apart'
    BY <2>1, <2>2, <2>3, Directed
  <2>5. EnvTyped' /\ Staged'
    BY <1>2, <2>1, <2>2, <2>3
       DEF Lock, fsVars, luck, Turn, EnvBase, Apart, EnvTyped, EnvTypeOK, Staged, OrNone
  <2> QED BY <2>4, <2>5 DEF EnvBase
<1>3. CASE ConfigureStep(p) /\ ~Lock(p)
  <2>1. PICK c \in Stages, h \in {"none", "claim"}, t \in Tasks :
           /\ Turn(p, c, h, t, IF c \in Outside THEN None ELSE p) /\ Fits(c, h, t)
           /\ c # "lock" /\ (c \in Outside => h = "none")
    <3>1. \A c \in {"recover", "create", "venv", "backup", "install", "prepare", "promote", "relocate", "commit",
                    "cleanup", "restore"} : c \in Stages /\ c \notin Outside /\ c # "lock"
      BY DEF Stages, Outside
    <3>2. \A c \in {"done", "failed"} : c \in Stages /\ c \in Outside /\ c # "lock"
      BY DEF Stages, Outside
    <3>3. \A cmd \in {"backup", "restore", "prepare", "promote", "commit", "cleanup"} :
             cmake[p] \in Building \cup Owned =>
               Fits(cmd, "claim", Request(cmd, task[p].txn)) /\ Request(cmd, task[p].txn) \in Tasks
      BY TurnFits, <1>0 DEF Owned, Commands, Own, OrNone
    <3>4. CASE Recovered(p)
      <4>1. Request("create", None) \in Tasks
        BY <1>0 DEF Commands
      <4> QED BY <3>4, <1>0, <3>1, <3>2, <4>1, StepTurns, TurnFits
    <3>5. CASE Created(p)
      BY <3>5, <1>0, <3>1, StepTurns, TurnFits
    <3>6. CASE CreateVenv(p) \/ VenvFails(p)
      <4>1. cmake[p] = "venv" /\ cmake[p] \in Building
        BY <3>6 DEF CreateVenv, VenvFails, Building
      <4> QED BY <3>6, <4>1, <1>0, <3>1, <3>3, StepTurns, TurnFits
    <3>7. CASE BackedUp(p) \/ Promoted(p)
      BY <3>7, <1>0, <3>1, StepTurns, TurnFits
    <3>8. CASE Install(p) \/ Relocate(p)
      <4>1. cmake[p] \in Building
        BY <3>8 DEF Install, Relocate, Building
      <4> QED BY <3>8, <4>1, <1>0, <3>1, <3>3, StepTurns
    <3>9. CASE Prepared(p) \/ Committed(p)
      <4>1. cmake[p] \in Owned
        BY <3>9 DEF Prepared, Committed, Owned
      <4> QED BY <3>9, <4>1, <1>0, <3>1, <3>3, StepTurns
    <3>10. CASE CleanedUp(p)
      BY <3>10, <1>0, <3>2, StepTurns, TurnFits
    <3>11. CASE Fails(p)
      <4>1. cmake[p] \in {"prepare", "promote"} => cmake[p] \in Owned
        BY DEF Owned
      <4> QED BY <3>11, <4>1, <1>0, <3>1, <3>2, <3>3, StepTurns, TurnFits
    <3> QED BY <1>3, <3>4, <3>5, <3>6, <3>7, <3>8, <3>9, <3>10, <3>11 DEF ConfigureStep
  <2>2. /\ Inside(p) /\ helper[p] \notin Acts /\ owner' = owner /\ journal' = journal
        /\ UNCHANGED <<live, luck>>
    <3>1. Inside(p) /\ helper[p] \in {"none", "ok", "refused"}
      BY <1>3, StepTurns
    <3> QED BY <1>3, <3>1, StepData DEF Acts, Creating, Moving, Removing
  <2>3. suffered \subseteq suffered'
    BY <2>2 DEF luck
  <2>4. Apart'
    BY <2>1, <2>2, <2>3, Turns
  <2>5. h \in Steps
    BY DEF Steps
  <2>6. /\ cmake' \in [Configures -> Stages] /\ helper' \in [Configures -> Steps] /\ task' \in [Configures -> Tasks]
        /\ envLock' \in OrNone(Configures)
    BY <2>1, <2>5 DEF Turn, EnvBase, Apart, EnvTyped, EnvTypeOK, OrNone
  <2>7. /\ tree' \in [Transactions ->
             [at : OrNone({"path", "aside"}), print : BOOLEAN, staging : OrNone(Environments),
              previous : OrNone(Environments), discarded : OrNone(Environments)]]
        /\ health' \in [Environments -> OrNone(Builds)] /\ marked' \subseteq Environments
        /\ Theirs \notin marked' /\ Staged'
    <3>1. Transactions \subseteq Environments /\ Theirs \notin Transactions /\ {"partial", "staged", "usable"} \subseteq OrNone(Builds)
      BY EnvAssumption DEF EnvAssumption, Environments, OrNone, Builds
    <3>2. /\ tree \in [Transactions ->
             [at : OrNone({"path", "aside"}), print : BOOLEAN, staging : OrNone(Environments),
              previous : OrNone(Environments), discarded : OrNone(Environments)]]
          /\ health \in [Environments -> OrNone(Builds)] /\ marked \subseteq Environments
          /\ Theirs \notin marked /\ Staged
      BY DEF EnvBase, Apart, EnvTyped, EnvTypeOK
    <3>3. CASE UNCHANGED <<tree, health, marked>>
      BY <3>2, <3>3 DEF Staged
    <3>4. ASSUME NEW x \in Transactions, tree' = [tree EXCEPT ![x].staging = x],
                 health' = [health EXCEPT ![x] = "partial"], marked' = marked
          PROVE  /\ tree' \in [Transactions ->
                   [at : OrNone({"path", "aside"}), print : BOOLEAN, staging : OrNone(Environments),
                    previous : OrNone(Environments), discarded : OrNone(Environments)]]
                 /\ health' \in [Environments -> OrNone(Builds)] /\ marked' \subseteq Environments
                 /\ Theirs \notin marked' /\ Staged'
      BY <3>1, <3>2, <3>4 DEF Staged, OrNone
    <3>5. ASSUME NEW x \in Transactions, tree' = tree,
                 health' = [health EXCEPT ![x] = "staged"], marked' = marked \cup {x}
          PROVE  /\ health' \in [Environments -> OrNone(Builds)] /\ marked' \subseteq Environments
                 /\ Theirs \notin marked' /\ Staged'
      BY <3>1, <3>2, <3>5 DEF Staged
    <3>6. ASSUME live \in Transactions, tree' = tree,
                 health' = [health EXCEPT ![live] = "usable"], marked' = marked
          PROVE  health' \in [Environments -> OrNone(Builds)] /\ Staged'
      BY <3>1, <3>2, <3>6 DEF Staged
    <3> QED BY <1>3, <3>2, <3>3, <3>4, <3>5, <3>6, StepData
  <2>8. EnvTyped'
    BY <2>2, <2>6, <2>7 DEF luck, EnvBase, Apart, EnvTyped, EnvTypeOK
  <2> QED BY <2>4, <2>7, <2>8 DEF EnvBase
<1> QED BY <1>1, <1>2, <1>3

(* What a helper that goes on with ops on x is about to do.                 *)
After(p, x, ops) == [task[p] EXCEPT !.txn = x, !.todo = ops, !.left = @ \ {x}]
Label(p, ops) ==
    IF ops # <<>> THEN Head(ops).op
    ELSE IF task[p].cmd = "recover" THEN "claim" ELSE IF task[p].cmd = "abort" THEN "refused" ELSE "ok"

(* The ways in which a helper goes on.                                      *)
LEMMA HelperGoes ==
    ASSUME EnvBase, NEW p \in Configures
    PROVE  /\ \A label : GoTo(p, label) => Goes(p, label, task[p]) /\ UNCHANGED <<live, health, marked, luck>>
           /\ \A answer : Answers(p, answer) => Goes(p, answer, task[p]) /\ Close(p) /\ UNCHANGED luck
           /\ \A x \in Transactions, ops \in Todos : Continue(p, x, ops) =>
                 /\ Goes(p, Label(p, ops), After(p, x, ops)) /\ After(p, x, ops) \in Tasks
                 /\ ops = <<>> => Close(p)
                 /\ ops # <<>> => owner' = [owner EXCEPT ![x] = p]
                 /\ UNCHANGED <<health, marked, luck>>
<1>1. /\ task \in [Configures -> Tasks] /\ task = [task EXCEPT ![p] = task[p]]
      /\ task[p] \in Tasks
  BY DEF EnvBase, Apart, EnvTyped
<1>2. \A label : GoTo(p, label) => Goes(p, label, task[p]) /\ UNCHANGED <<live, health, marked, luck>>
  BY <1>1 DEF GoTo, Goes
<1>3. \A answer : Answers(p, answer) => Goes(p, answer, task[p]) /\ Close(p) /\ UNCHANGED luck
  BY <1>1 DEF Answers, Goes
<1>4. ASSUME NEW x \in Transactions, NEW ops \in Todos, Continue(p, x, ops)
      PROVE  /\ Goes(p, Label(p, ops), After(p, x, ops)) /\ After(p, x, ops) \in Tasks
             /\ ops = <<>> => Close(p)
             /\ ops # <<>> => owner' = [owner EXCEPT ![x] = p]
             /\ UNCHANGED <<health, marked, luck>>
  <2>1. After(p, x, ops) \in Tasks
    BY <1>1 DEF After, Tasks, OrNone
  <2>2. task' = [task EXCEPT ![p] = After(p, x, ops)]
    BY <1>1, <1>4 DEF Continue, After, Tasks
  <2> QED BY <2>1, <2>2, <1>4 DEF Continue, Goes, Label
<1> QED BY <1>2, <1>3, <1>4

(* A helper that goes on to the next line of its own transaction.           *)
LEMMA WentOn ==
    ASSUME EnvBase, NEW p \in Configures, NEW label \in Acts, GoTo(p, label), helper[p] \in Acts, owner' = owner,
           \A y \in Transactions \ {task[p].txn} : journal'[y] = journal[y], journal'[task[p].txn] # None,
           Fits(cmake[p], label, task[p])
    PROVE  Apart'
<1>1. task[p] \in Tasks /\ task[p].txn \in Transactions /\ owner[task[p].txn] = p /\ task[p].txn # None
  BY DEF EnvBase, Apart, EnvTyped, Tasks, Owning, OrNone
<1>2. owner' = [owner EXCEPT ![task[p].txn] = p]
  BY <1>1 DEF EnvBase, Apart, EnvTyped, EnvTypeOK
<1>3. Goes(p, label, task[p]) /\ suffered \subseteq suffered'
  BY HelperGoes DEF luck
<1>4. label \in Steps /\ label # "none" /\ helper[p] # "none"
  BY Labels
<1> QED BY <1>1, <1>2, <1>3, <1>4, Helped

(* A helper that answers.                                                   *)
LEMMA Answered ==
    ASSUME EnvBase, NEW p \in Configures, NEW answer \in {"ok", "refused"}, Goes(p, answer, task[p]), Close(p),
           helper[p] # "none", suffered \subseteq suffered',
           answer = "ok" => task[p].cmd \notin {"create", "abort"},
           \A y \in Transactions : journal'[y] = journal[y] \/ (y = task[p].txn /\ helper[p] \in Acts)
    PROVE  Apart'
<1>1. task[p] \in Tasks /\ Fits(cmake[p], helper[p], task[p]) /\ answer \in Steps /\ answer \notin Acts /\ answer # "none"
  BY Labels DEF EnvBase, Apart, EnvTyped, Steps
<1>2. Fits(cmake[p], answer, task[p])
  BY <1>1 DEF Fits, Commands, Owned, Building, Creating, Moving, Removing
<1>3. helper[p] \in Acts => owner[task[p].txn] = p
  BY <1>1 DEF EnvBase, Apart, Owning, Tasks, OrNone
<1>4. task[p].txn = None \/ journal'[task[p].txn] = journal[task[p].txn] \/ owner[task[p].txn] \in {None, p}
  BY <1>1, <1>3 DEF Tasks, OrNone
<1> QED BY <1>1, <1>2, <1>4, Helped

(* A helper that goes on with the next operation, or has done the last.     *)
LEMMA Continued ==
    ASSUME EnvBase, NEW p \in Configures, NEW x \in Transactions, NEW ops \in Todos, Continue(p, x, ops),
           helper[p] \in Acts \cup {"claim"}, helper[p] \in Acts => x = task[p].txn,
           helper[p] = "claim" => owner[x] = None,
           \A y \in Transactions \ {x} : journal'[y] = journal[y],
           ops # <<>> => journal'[x] # None /\ Head(ops).op \in Acts,
           Fits(cmake[p], Label(p, ops), After(p, x, ops))
    PROVE  Apart'
<1>1. /\ Goes(p, Label(p, ops), After(p, x, ops)) /\ After(p, x, ops) \in Tasks /\ suffered \subseteq suffered'
      /\ ops = <<>> => Close(p)
      /\ ops # <<>> => owner' = [owner EXCEPT ![x] = p]
  BY HelperGoes DEF luck
<1>2. /\ Label(p, ops) \in Steps /\ Label(p, ops) # "none" /\ helper[p] # "none"
      /\ (ops # <<>> => Label(p, ops) \in Acts) /\ (ops = <<>> => Label(p, ops) \notin Acts)
  BY Labels DEF Label, Steps
<1>3. After(p, x, ops).txn = x /\ x # None
  BY EnvAssumption DEF After, EnvAssumption, Environments, EnvBase, Apart, EnvTyped, Tasks
<1>4. owner[x] \in {None, p}
  BY DEF EnvBase, Apart, Owning
<1> QED BY <1>1, <1>2, <1>3, <1>4, Helped

(* What a command goes on with fits it.                                     *)
LEMMA Fitting ==
    ASSUME EnvBase, NEW p \in Configures, NEW x \in Transactions, helper[p] \in Acts \cup {"claim"}
    PROVE  /\ Fits(cmake[p], Label(p, <<>>), After(p, x, <<>>))
           /\ task[p].cmd \in {"restore", "recover", "cleanup", "abort"} =>
                 Fits(cmake[p], Label(p, Cleaning), After(p, x, Cleaning)) /\ Head(Cleaning).op \in Acts
           /\ \A e \in Somewhere :
                 /\ task[p].cmd = "backup" =>
                       /\ Fits(cmake[p], Label(p, Backing(e)), After(p, x, Backing(e))) /\ Head(Backing(e)).op \in Acts
                       /\ Fits(cmake[p], Label(p, Stashing(e)), After(p, x, Stashing(e))) /\ Head(Stashing(e)).op \in Acts
                 /\ task[p].cmd = "promote" =>
                       /\ Fits(cmake[p], Label(p, Promoting(e)), After(p, x, Promoting(e))) /\ Head(Promoting(e)).op \in Acts
                 /\ task[p].cmd = "commit" =>
                       /\ Fits(cmake[p], Label(p, Sealing(e)), After(p, x, Sealing(e))) /\ Head(Sealing(e)).op \in Acts
                 /\ task[p].cmd = "prepare" /\ e \in Own =>
                       /\ Fits(cmake[p], Label(p, Naming(e)), After(p, x, Naming(e))) /\ Head(Naming(e)).op \in Acts
                 /\ task[p].cmd \in {"restore", "recover"} =>
                       /\ Fits(cmake[p], Label(p, Discarding(e)), After(p, x, Discarding(e))) /\ Head(Discarding(e)).op \in Acts
                       /\ Fits(cmake[p], Label(p, Returning(e)), After(p, x, Returning(e))) /\ Head(Returning(e)).op \in Acts
                       /\ \A f \in Somewhere : /\ Fits(cmake[p], Label(p, Swapping(e, f)), After(p, x, Swapping(e, f)))
                                               /\ Head(Swapping(e, f)).op \in Acts
<1>1. /\ Fits(cmake[p], helper[p], task[p]) /\ x # None /\ cmake[p] \notin Building
      /\ cmake[p] \in Commands => task[p].cmd = cmake[p] \/ (cmake[p] = "create" /\ task[p].cmd = "abort")
      /\ \A ops : /\ After(p, x, ops).cmd = task[p].cmd /\ After(p, x, ops).txn = x /\ After(p, x, ops).todo = ops
                  /\ Label(p, ops) \in {Head(ops).op, "claim", "refused", "ok"}
                  /\ ops # <<>> => Label(p, ops) = Head(ops).op
  BY EnvAssumption DEF EnvBase, Apart, EnvAssumption, Environments, EnvTyped, Tasks, Fits, After, Label, Building, Acts, Creating, Moving, Removing
<1>2. /\ {"bind", "move", "cleanup"} \subseteq Acts
      /\ \A l, e : Bind(l, e).op = "bind"
      /\ \A s, d, e : Move(s, d, e).op = "move"
      /\ CleanUp.op = "cleanup"
  BY DEF Acts, Creating, Moving, Removing, Bind, Move, CleanUp
<1>3. ASSUME NEW h \in {"bind", "move", "cleanup", "claim", "refused", "ok"}, NEW ops, h \in {"claim", "ok", "refused"} => ops = <<>>,
             h = "claim" => task[p].cmd \in Commands,
             h = "bind" => \/ \E e \in Somewhere : ops = Backing(e) /\ task[p].cmd = "backup"
                           \/ \E e \in Own : ops = Naming(e) /\ task[p].cmd = "prepare"
                           \/ \E e \in Somewhere : ops = Sealing(e) /\ task[p].cmd = "commit",
             h = "move" =>
                 \/ \E e \in Somewhere : \/ ops = Stashing(e) /\ task[p].cmd = "backup"
                                         \/ ops = Promoting(e) /\ task[p].cmd = "promote"
                 \/ /\ task[p].cmd \in {"restore", "recover"}
                    /\ \E e, f \in Somewhere : ops \in {Discarding(e), Returning(e), Swapping(e, f)},
             h = "cleanup" => ops = Cleaning /\ task[p].cmd \in {"restore", "recover", "cleanup", "abort"}
      PROVE  Fits(cmake[p], h, After(p, x, ops))
  BY <1>1, <1>3 DEF Fits, Creating, Moving, Removing
<1>4. Fits(cmake[p], Label(p, <<>>), After(p, x, <<>>))
  <2>1. Label(p, <<>>) \in {"claim", "refused", "ok"} /\ (Label(p, <<>>) = "claim" => task[p].cmd = "recover")
    BY DEF Label
  <2> QED BY <2>1, <1>3 DEF Commands
<1>5. task[p].cmd \in {"restore", "recover", "cleanup", "abort"} =>
                 Fits(cmake[p], Label(p, Cleaning), After(p, x, Cleaning)) /\ Head(Cleaning).op \in Acts
  <2>1. Label(p, Cleaning) = "cleanup" /\ Head(Cleaning).op \in Acts
    BY <1>1, <1>2, Plans
  <2> QED BY <2>1, <1>3
<1>6. ASSUME NEW e \in Somewhere
      PROVE  /\ task[p].cmd = "backup" =>
                       /\ Fits(cmake[p], Label(p, Backing(e)), After(p, x, Backing(e))) /\ Head(Backing(e)).op \in Acts
                       /\ Fits(cmake[p], Label(p, Stashing(e)), After(p, x, Stashing(e))) /\ Head(Stashing(e)).op \in Acts
             /\ task[p].cmd = "promote" =>
                       /\ Fits(cmake[p], Label(p, Promoting(e)), After(p, x, Promoting(e))) /\ Head(Promoting(e)).op \in Acts
  <2>1. Label(p, Backing(e)) = "bind" /\ Label(p, Stashing(e)) = "move" /\ Label(p, Promoting(e)) = "move"
        /\ Head(Backing(e)).op \in Acts /\ Head(Stashing(e)).op \in Acts /\ Head(Promoting(e)).op \in Acts
    BY <1>1, <1>2, Plans
  <2>2. task[p].cmd = "backup" => Fits(cmake[p], "bind", After(p, x, Backing(e)))
    BY <1>3
  <2>3. task[p].cmd = "backup" => Fits(cmake[p], "move", After(p, x, Stashing(e)))
    BY <1>3
  <2>4. task[p].cmd = "promote" => Fits(cmake[p], "move", After(p, x, Promoting(e)))
    BY <1>3
  <2> QED BY <2>1, <2>2, <2>3, <2>4
<1>7. ASSUME NEW e \in Somewhere
      PROVE  /\ task[p].cmd = "commit" =>
                       /\ Fits(cmake[p], Label(p, Sealing(e)), After(p, x, Sealing(e))) /\ Head(Sealing(e)).op \in Acts
             /\ task[p].cmd = "prepare" /\ e \in Own =>
                       /\ Fits(cmake[p], Label(p, Naming(e)), After(p, x, Naming(e))) /\ Head(Naming(e)).op \in Acts
  <2>1. Label(p, Sealing(e)) = "bind" /\ Label(p, Naming(e)) = "bind"
        /\ Head(Sealing(e)).op \in Acts /\ Head(Naming(e)).op \in Acts
    BY <1>1, <1>2, Plans
  <2>2. task[p].cmd = "commit" => Fits(cmake[p], "bind", After(p, x, Sealing(e)))
    BY <1>1, <1>7 DEF Fits, Creating, Moving, Removing
  <2>3. task[p].cmd = "prepare" /\ e \in Own => Fits(cmake[p], "bind", After(p, x, Naming(e)))
    BY <1>1, <1>7 DEF Fits, Creating, Moving, Removing
  <2> QED BY <2>1, <2>2, <2>3
<1>8. ASSUME NEW e \in Somewhere, NEW f \in Somewhere, task[p].cmd \in {"restore", "recover"},
             NEW ops \in {Discarding(e), Returning(e), Swapping(e, f)}
      PROVE  Fits(cmake[p], Label(p, ops), After(p, x, ops)) /\ Head(ops).op \in Acts
  <2>1. Label(p, ops) = "move" /\ Head(ops).op \in Acts
    <3>1. ops # <<>> /\ (\E s, d, g : Head(ops) = Move(s, d, g))
      <4>1. CASE ops = Discarding(e)
        BY <4>1, Plans
      <4>2. CASE ops = Returning(e)
        BY <4>2, Plans
      <4>3. CASE ops = Swapping(e, f)
        <5>1. Swapping(e, f) # <<>> /\ Head(Swapping(e, f)) = Move("live", "discarded", e)
          BY Plans
        <5> QED BY <4>3, <5>1
      <4> QED BY <4>1, <4>2, <4>3
    <3>2. PICK s, d, g : Head(ops) = Move(s, d, g)
      BY <3>1
    <3> QED BY <1>1, <1>2, <3>1, <3>2
  <2>2. Fits(cmake[p], "move", After(p, x, ops))
    BY <1>3, <1>8
  <2> QED BY <2>1, <2>2
<1> QED BY <1>4, <1>5, <1>6, <1>7, <1>8

Trees ==
    [at : OrNone({"path", "aside"}), print : BOOLEAN, staging : OrNone(Environments),
     previous : OrNone(Environments), discarded : OrNone(Environments)]
Ways == {<<"live", "previous">>, <<"staging", "live">>, <<"live", "discarded">>, <<"previous", "live">>}

(* The types of a state, in the terms of these proofs.                      *)
LEMMA Typed ==
    ASSUME EnvBase
    PROVE  /\ tree \in [Transactions -> Trees] /\ journal \in [Transactions -> OrNone(Journals)]
           /\ live \in Somewhere /\ owner \in [Transactions -> OrNone(Configures)]
           /\ helper \in [Configures -> Steps] /\ cmake \in [Configures -> Stages]
           /\ task \in [Configures -> Tasks] /\ health \in [Environments -> OrNone(Builds)]
           /\ None \notin Journals /\ None \notin Environments /\ None \notin Configures /\ None \notin Builds
           /\ NoTree \in Trees /\ Unbound \in Journals
           /\ Transactions \subseteq Environments /\ Own \subseteq Somewhere /\ None \in Own
BY EnvAssumption
   DEF EnvBase, Apart, EnvTyped, EnvTypeOK, Trees, Somewhere, EnvAssumption, NoTree, Unbound, Journals, OrNone, Environments, Own

(* Who acts has a transaction, with a journal and an owner.                 *)
LEMMA Acting1 ==
    ASSUME EnvBase, NEW p \in Configures, helper[p] \in Acts
    PROVE  /\ task[p].txn \in Transactions /\ task[p].txn # None /\ owner[task[p].txn] = p
           /\ journal[task[p].txn] \in Journals /\ journal[task[p].txn] # None /\ task[p] \in Tasks
BY Typed DEF EnvBase, Apart, Owning, Tasks, OrNone

(* The move a helper is at goes one of four ways, and what follows it fits. *)
LEMMA Moved ==
    ASSUME EnvBase, NEW p \in Configures, helper[p] \in Moving
    PROVE  /\ MoveOf(p).src \in {"live", "staging", "previous"} /\ MoveOf(p).dst \in {"live", "previous", "discarded"}
           /\ (MoveOf(p).src = "live" <=> MoveOf(p).dst # "live")
           /\ LET ops == Tail(task[p].todo) IN
              /\ ops \in Todos /\ (ops # <<>> => Head(ops).op \in Acts)
              /\ Fits(cmake[p], Label(p, ops), After(p, task[p].txn, ops))
<1> DEFINE ops == Tail(task[p].todo)  x == task[p].txn
           Goal == /\ MoveOf(p).src \in {"live", "staging", "previous"} /\ MoveOf(p).dst \in {"live", "previous", "discarded"}
                   /\ (MoveOf(p).src = "live" <=> MoveOf(p).dst # "live")
                   /\ ops \in Todos /\ (ops # <<>> => Head(ops).op \in Acts)
                   /\ Fits(cmake[p], Label(p, ops), After(p, x, ops))
<1>0. helper[p] \in Acts /\ Fits(cmake[p], helper[p], task[p]) /\ MoveOf(p) = Head(task[p].todo)
  BY DEF Acts, EnvBase, Apart, MoveOf
<1>1. x \in Transactions
  BY <1>0, Acting1
<1>2. \A s, d, e : Move(s, d, e).src = s /\ Move(s, d, e).dst = d
  BY DEF Move
<1>3. \/ \E e \in Somewhere : \/ task[p].todo = Stashing(e) /\ task[p].cmd = "backup"
                              \/ task[p].todo = Promoting(e) /\ task[p].cmd = "promote"
      \/ /\ task[p].cmd \in {"restore", "recover"}
         /\ \E e, f \in Somewhere : task[p].todo \in {Discarding(e), Returning(e), Swapping(e, f)}
  BY <1>0 DEF Fits
<1>4. /\ Fits(cmake[p], Label(p, <<>>), After(p, x, <<>>)) /\ <<>> \in Todos /\ Cleaning \in Todos
      /\ task[p].cmd \in {"restore", "recover"} =>
            /\ Fits(cmake[p], Label(p, Cleaning), After(p, x, Cleaning)) /\ Head(Cleaning).op \in Acts
            /\ \A e \in Somewhere : /\ Fits(cmake[p], Label(p, Returning(e)), After(p, x, Returning(e)))
                                    /\ Head(Returning(e)).op \in Acts /\ Returning(e) \in Todos
  BY <1>0, <1>1, Fitting, Planned
<1>5. ASSUME NEW e \in Somewhere, task[p].todo = Stashing(e) \/ task[p].todo = Promoting(e) PROVE Goal
  <2>1. ops = <<>>
    BY <1>5, Plans
  <2>2. MoveOf(p) = Move("live", "previous", e) \/ MoveOf(p) = Move("staging", "live", e)
    BY <1>0, <1>5, Plans
  <2>3. /\ MoveOf(p).src \in {"live", "staging"} /\ MoveOf(p).dst \in {"live", "previous"}
        /\ MoveOf(p).src = "live" <=> MoveOf(p).dst # "live"
    BY <2>2, <1>2
  <2> QED BY <2>1, <2>3, <1>4
<1>6. ASSUME NEW e \in Somewhere, task[p].cmd \in {"restore", "recover"},
             task[p].todo = Discarding(e) \/ task[p].todo = Returning(e) PROVE Goal
  <2>1. ops = Cleaning
    BY <1>6, Plans
  <2>2. MoveOf(p) = Move("live", "discarded", e) \/ MoveOf(p) = Move("previous", "live", e)
    BY <1>0, <1>6, Plans
  <2>3. /\ MoveOf(p).src \in {"live", "previous"} /\ MoveOf(p).dst \in {"live", "discarded"}
        /\ MoveOf(p).src = "live" <=> MoveOf(p).dst # "live"
    BY <2>2, <1>2
  <2> QED BY <2>1, <2>3, <1>4, <1>6
<1>7. ASSUME NEW e \in Somewhere, NEW f \in Somewhere, task[p].cmd \in {"restore", "recover"}, task[p].todo = Swapping(e, f) PROVE Goal
  <2>1. Head(Swapping(e, f)) = Move("live", "discarded", e) /\ Tail(Swapping(e, f)) = Returning(f)
    BY Plans
  <2>2. MoveOf(p).src = "live" /\ MoveOf(p).dst = "discarded"
    BY <2>1, <1>0, <1>2, <1>7
  <2> QED BY <2>1, <2>2, <1>4, <1>7
<1> QED BY <1>3, <1>5, <1>6, <1>7

(* Joining nothing, and joining two elements.                               *)
LEMMA JoinPair ==
    ASSUME NEW S, NEW s \in Seq(S), NEW a \in S, NEW c \in S
    PROVE  <<>> \o s = s /\ s \o <<>> = s /\ <<a>> \o <<c>> = <<a, c>>
<1>1. <<>> \o s = s /\ s \o <<>> = s
  BY ConcatEmptySeq
<1>2. <<a>> \in Seq(S) /\ <<c>> \in Seq(S) /\ <<a, c>> \in Seq(S) /\ Len(<<a>>) = 1 /\ Len(<<c>>) = 1 /\ Len(<<a, c>>) = 2
  OBVIOUS
<1>3. /\ <<a>> \o <<c>> \in Seq(S) /\ Len(<<a>> \o <<c>>) = 2
      /\ \A i \in 1 .. 2 : (<<a>> \o <<c>>)[i] = IF i <= 1 THEN <<a>>[i] ELSE <<c>>[i - 1]
  BY <1>2, ConcatProperties
<1>4. \A i \in 1 .. 2 : (<<a>> \o <<c>>)[i] = <<a, c>>[i]
  BY <1>3
<1> QED BY <1>1, <1>2, <1>3, <1>4, SeqEqual

(* Joining a third element.                                                 *)
LEMMA JoinTriple ==
    ASSUME NEW S, NEW a \in S, NEW b \in S, NEW c \in S
    PROVE  <<a, b>> \o <<c>> = <<a, b, c>>
<1>2. <<a, b>> \in Seq(S) /\ <<c>> \in Seq(S) /\ <<a, b, c>> \in Seq(S) /\ Len(<<a, b>>) = 2 /\ Len(<<c>>) = 1 /\ Len(<<a, b, c>>) = 3
  OBVIOUS
<1>3. /\ <<a, b>> \o <<c>> \in Seq(S) /\ Len(<<a, b>> \o <<c>>) = 3
      /\ \A i \in 1 .. 3 : (<<a, b>> \o <<c>>)[i] = IF i <= 2 THEN <<a, b>>[i] ELSE <<c>>[i - 2]
  BY <1>2, ConcatProperties
<1>4. \A i \in 1 .. 3 : (<<a, b>> \o <<c>>)[i] = <<a, b, c>>[i]
  BY <1>3
<1> QED BY <1>2, <1>3, <1>4, SeqEqual

(* A plan is put together from its parts.                                   *)
LEMMA Joined ==
    ASSUME NEW e, NEW f
    PROVE  /\ <<>> \o <<>> \o <<CleanUp>> = Cleaning
           /\ <<Move("live", "discarded", e)>> \o <<>> \o <<CleanUp>> = Discarding(e)
           /\ <<>> \o <<Move("previous", "live", f)>> \o <<CleanUp>> = Returning(f)
           /\ <<Move("live", "discarded", e)>> \o <<Move("previous", "live", f)>> \o <<CleanUp>> = Swapping(e, f)
<1>1. ASSUME NEW a, NEW b, NEW c
      PROVE  /\ <<>> \o <<>> \o <<c>> = <<c>> /\ <<a>> \o <<>> \o <<c>> = <<a, c>>
             /\ <<>> \o <<b>> \o <<c>> = <<b, c>> /\ <<a>> \o <<b>> \o <<c>> = <<a, b, c>>
  <2> DEFINE S == {a, b, c}
  <2>1. a \in S /\ b \in S /\ c \in S /\ <<>> \in Seq(S) /\ <<a>> \in Seq(S) /\ <<b>> \in Seq(S) /\ <<c>> \in Seq(S)
    OBVIOUS
  <2> HIDE DEF S
  <2>2. \A s \in Seq(S) : <<>> \o s = s /\ s \o <<>> = s
    BY ConcatEmptySeq
  <2>3. <<a>> \o <<c>> = <<a, c>> /\ <<b>> \o <<c>> = <<b, c>> /\ <<a>> \o <<b>> = <<a, b>>
    BY <2>1, JoinPair
  <2>4. <<a, b>> \o <<c>> = <<a, b, c>>
    BY <2>1, JoinTriple
  <2> QED BY <2>1, <2>2, <2>3, <2>4
<1> QED BY <1>1 DEF Cleaning, Discarding, Returning, Swapping

(* What a command goes on with.                                             *)
LEMMA CommandGoes ==
    ASSUME EnvBase, NEW p \in Configures, helper[p] = "claim", task[p].cmd \in Owned,
           Claimable(task[p].txn), Demands(task[p].cmd, task[p].txn)
    PROVE  LET x == task[p].txn
               ops == Operations(task[p].cmd, x)
               j == journal[x]
           IN
           /\ x \in Transactions
           /\ \/ task[p].cmd = "backup" /\ ReadyLive /\ live \in Environments /\ ops = Backing(live)
              \/ task[p].cmd = "prepare" /\ tree[x].staging = x /\ x \in marked /\ ops = Naming(x)
              \/ task[p].cmd = "promote" /\ j.candidate # None /\ j.candidate \in Transactions /\ ops = Promoting(j.candidate)
              \/ task[p].cmd = "commit" /\ ReadyLive /\ live \in Environments /\ j.candidate = live /\ ops = Sealing(live)
              \/ task[p].cmd = "cleanup" /\ ops = Cleaning
              \/ /\ task[p].cmd = "restore" /\ (live # None => j.candidate # None /\ j.candidate \in Transactions)
                 /\ j.candidate \in Somewhere /\ j.previous \in Somewhere
                 /\ ops = IF live = None THEN IF j.previous = None THEN Cleaning ELSE Returning(j.previous)
                          ELSE IF j.previous = None THEN Discarding(j.candidate) ELSE Swapping(j.candidate, j.previous)
<1> DEFINE x == task[p].txn
<1>1. x \in Transactions /\ x # None
  BY DEF EnvBase, Apart, EnvTyped, Fits, Tasks, OrNone
<1>2. /\ journal[x] \in Journals /\ tree[x] \in Trees /\ marked \subseteq Environments /\ None \notin Environments
      /\ tree[x].staging \in {None, x} /\ live \in Somewhere /\ Transactions \subseteq Environments
  BY <1>1, Typed DEF Claimable, EnvBase, Apart, EnvTyped, EnvTypeOK, Staged, OrNone
<1>3. CASE task[p].cmd = "backup"
  BY <1>1, <1>2, <1>3 DEF Demands, Operations, Backing, ReadyLive
<1>4. CASE task[p].cmd = "prepare"
  BY <1>1, <1>2, <1>4 DEF Demands, Operations, Naming, ReadyLive
<1>5. CASE task[p].cmd = "promote"
  BY <1>1, <1>2, <1>5 DEF Demands, Operations, Promoting, Journals, OrNone
<1>6. CASE task[p].cmd = "commit"
  BY <1>1, <1>2, <1>6 DEF Demands, Operations, Sealing, ReadyLive, Journals, OrNone
<1>7. CASE task[p].cmd = "cleanup"
  BY <1>1, <1>2, <1>7 DEF Demands, Operations, Cleaning
<1>8. CASE task[p].cmd = "restore"
  <2>1. Operations("restore", x) = Restoring(x) /\ (live # None => journal[x].candidate # None)
    BY <1>8 DEF Operations, Demands
  <2>2. Restoring(x) = IF live = None THEN IF journal[x].previous = None THEN Cleaning ELSE Returning(journal[x].previous)
                       ELSE IF journal[x].previous = None THEN Discarding(journal[x].candidate)
                            ELSE Swapping(journal[x].candidate, journal[x].previous)
    BY Joined DEF Restoring
  <2>3. journal[x].candidate \in OrNone(Transactions) /\ journal[x].previous \in Somewhere
    BY <1>2 DEF Journals, Somewhere
  <2> QED BY <1>1, <1>2, <1>8, <2>1, <2>2, <2>3 DEF Somewhere, OrNone
<1> QED BY <1>3, <1>4, <1>5, <1>6, <1>7, <1>8 DEF Owned

(* What a recovery goes on with.                                            *)
LEMMA RecoveryGoes ==
    ASSUME EnvBase, NEW x \in Transactions, journal[x] # None
    PROVE  LET j == journal[x]
               discards == live # None /\ j.candidate # None /\ j.committed = None
                            /\ (j.previous = None \/ tree[x].previous # None)
               restores == j.previous # None /\ tree[x].previous # None /\ (live = None \/ j.committed = None)
           IN
           /\ j.candidate \in Somewhere /\ j.previous \in Somewhere
           /\ Recovering(x) = IF discards THEN IF restores THEN Swapping(j.candidate, j.previous) ELSE Discarding(j.candidate)
                              ELSE IF restores THEN Returning(j.previous) ELSE Cleaning
<1>1. journal[x] \in Journals /\ Own \subseteq Somewhere
  BY Typed DEF OrNone
<1>2. journal[x].candidate \in Own /\ journal[x].previous \in Somewhere
  BY <1>1 DEF Journals, Somewhere, Own
<1> QED BY <1>1, <1>2, Joined DEF Recovering

(* A new transaction has a name nobody uses.                                *)
LEMMA FreshName ==
    ASSUME EnvBase, Fresh # {}
    PROVE  LET x == CHOOSE y \in Fresh : TRUE IN
           x \in Transactions /\ journal[x] = None /\ tree[x] = NoTree /\ x \notin Present /\ owner[x] = None
<1> DEFINE x == CHOOSE y \in Fresh : TRUE
<1>1. x \in Fresh
  OBVIOUS
<1>2. x \in Transactions /\ journal[x] = None /\ tree[x] = NoTree /\ x \notin Present
  BY <1>1 DEF Fresh
<1>3. owner[x] \in OrNone(Configures)
  BY <1>2, Typed
<1>4. \A p \in Configures : owner[x] # p
  BY <1>2 DEF EnvBase, Apart, Owning
<1> QED BY <1>2, <1>3, <1>4 DEF OrNone

(* What a helper records is an identity of the right kind.                  *)
LEMMA Recorded ==
    ASSUME EnvBase, NEW p \in Configures, helper[p] = "bind"
    PROVE  LET op == Head(task[p].todo) IN
           /\ \/ op.label = "previous" /\ op.env \in Somewhere
              \/ op.label = "candidate" /\ op.env \in Own
              \/ op.label = "committed" /\ op.env \in Somewhere
           /\ \A j \in Journals : [j EXCEPT ![op.label] = op.env] \in Journals
<1> DEFINE op == Head(task[p].todo)
<1>1. \/ \E e \in Somewhere : task[p].todo = Backing(e)
      \/ \E e \in Own : task[p].todo = Naming(e)
      \/ \E e \in Somewhere : task[p].todo = Sealing(e)
  BY DEF EnvBase, Apart, Fits
<1>2. \/ \E e \in Somewhere : op = Bind("previous", e)
      \/ \E e \in Own : op = Bind("candidate", e)
      \/ \E e \in Somewhere : op = Bind("committed", e)
  BY <1>1, Plans
<1>3. \/ op.label = "previous" /\ op.env \in Somewhere
      \/ op.label = "candidate" /\ op.env \in Own
      \/ op.label = "committed" /\ op.env \in Somewhere
  <2>1. \A l, e : Bind(l, e).label = l /\ Bind(l, e).env = e
    BY DEF Bind
  <2> QED BY <1>2, <2>1
<1> QED BY <1>3 DEF Journals, Somewhere, Own

(* A step of a helper keeps the helpers apart.                              *)
LEMMA HelperApart ==
    ASSUME EnvBase, NEW p \in Configures, HelperStep(p)
    PROVE  Apart'
<1> DEFINE x == task[p].txn
<1>0. /\ task[p] \in Tasks /\ Fits(cmake[p], helper[p], task[p]) /\ helper[p] \in Steps
      /\ journal \in [Transactions -> OrNone(Journals)] /\ None \notin Journals /\ Unbound \in Journals
  BY Typed DEF EnvBase, Apart
<1>1. /\ helper[p] \in Acts => /\ x \in Transactions /\ x # None /\ owner[x] = p
                               /\ journal[x] \in Journals /\ journal[x] # None
      /\ {"mkdir", "print", "bind_print", "bind", "move", "rename", "moved", "cleanup", "aside", "erase", "forget"} = Acts
      /\ "none" \notin Acts
  BY Acting1 DEF Acts, Creating, Moving, Removing
<1>2. CASE CreateOwner(p)
  <2> DEFINE y == CHOOSE z \in Fresh : TRUE  t == [task[p] EXCEPT !.txn = y]
  <2>1. /\ helper[p] = "claim" /\ task[p].cmd = "create" /\ Fresh # {}
        /\ journal' = [journal EXCEPT ![y] = Unbound] /\ owner' = [owner EXCEPT ![y] = p]
        /\ Goes(p, "mkdir", t) /\ suffered' = suffered
    BY <1>2 DEF CreateOwner, Goes, luck, EnvBase, Apart, EnvTyped, Tasks
  <2>2. y \in Transactions /\ owner[y] = None /\ y # None
    BY <2>1, FreshName, EnvAssumption DEF EnvAssumption, Environments
  <2>3. t \in Tasks /\ t.txn = y /\ t.cmd = "create" /\ t.todo = <<>>
    BY <1>0, <2>1, <2>2 DEF Tasks, OrNone, Fits
  <2>4. Fits(cmake[p], "mkdir", t)
    BY <1>0, <2>1, <2>2, <2>3 DEF Fits, Commands, Owned, Building, Creating, Moving, Removing
  <2>5. "mkdir" \in Steps /\ "mkdir" \in Acts /\ helper[p] \notin Acts /\ journal'[y] # None
        /\ \A z \in Transactions \ {y} : journal'[z] = journal[z]
    BY <1>0, <1>1, <2>1, <2>2 DEF Steps
  <2> QED BY <2>1, <2>2, <2>3, <2>4, <2>5, <1>1, Helped
<1>3. CASE CreateDirectory(p)
  <2>1. /\ helper[p] = "mkdir" /\ GoTo(p, "print") /\ owner' = owner
        /\ journal' = [journal EXCEPT ![x].loc = "original"]
    BY <1>3 DEF CreateDirectory
  <2>2. journal'[x] # None /\ \A z \in Transactions \ {x} : journal'[z] = journal[z]
    BY <1>0, <1>1, <2>1 DEF Journals
  <2>3. Fits(cmake[p], "print", task[p])
    BY <1>0, <2>1 DEF Fits, Commands, Owned, Building, Creating, Moving, Removing
  <2> QED BY <2>1, <2>2, <2>3, <1>1, WentOn
<1>4. CASE CreateFingerprint(p)
  <2>1. /\ helper[p] = "print" /\ GoTo(p, "bind_print") /\ owner' = owner /\ journal' = journal
    BY <1>4 DEF CreateFingerprint
  <2>3. Fits(cmake[p], "bind_print", task[p])
    BY <1>0, <2>1 DEF Fits, Commands, Owned, Building, Creating, Moving, Removing
  <2> QED BY <2>1, <2>3, <1>1, WentOn
<1>5. CASE BindFingerprint(p)
  <2>1. /\ helper[p] = "bind_print" /\ Continue(p, x, <<>>)
        /\ journal' = [journal EXCEPT ![x].print = TRUE]
    BY <1>5 DEF BindFingerprint
  <2>2. \A z \in Transactions \ {x} : journal'[z] = journal[z]
    BY <1>0, <1>1, <2>1
  <2>3. Fits(cmake[p], Label(p, <<>>), After(p, x, <<>>)) /\ <<>> \in Todos
    BY <1>1, <2>1, Fitting, Planned
  <2> QED BY <2>1, <2>2, <2>3, <1>1, Continued
<1>6. ASSUME Refuses(p), helper[p] \in Acts \cup {"claim"} PROVE Apart'
  <2>1. Goes(p, "refused", task[p]) /\ Close(p) /\ journal' = journal /\ suffered' = suffered
    BY <1>6, HelperGoes DEF Refuses, luck
  <2> QED BY <1>1, <1>6, <2>1, Answered
<1>7. CASE Command(p)
  <2>1. CASE Claimable(x) /\ Demands(task[p].cmd, x)
    <3> DEFINE ops == Operations(task[p].cmd, x)
    <3>1. helper[p] = "claim" /\ task[p].cmd \in Owned /\ Continue(p, x, ops) /\ journal' = journal
      BY <1>0, <1>7, <2>1 DEF Command, Fits, Commands
    <3>2. x \in Transactions
      BY <2>1, <3>1, CommandGoes
    <3>3. ops \in Todos /\ Fits(cmake[p], Label(p, ops), After(p, x, ops)) /\ Head(ops).op \in Acts
      <4>1. /\ \/ task[p].cmd = "backup" /\ live \in Environments /\ ops = Backing(live)
               \/ task[p].cmd = "prepare" /\ ops = Naming(x)
               \/ task[p].cmd = "promote" /\ journal[x].candidate \in Transactions /\ ops = Promoting(journal[x].candidate)
               \/ task[p].cmd = "commit" /\ live \in Environments /\ ops = Sealing(live)
               \/ task[p].cmd = "cleanup" /\ ops = Cleaning
               \/ /\ task[p].cmd = "restore" /\ journal[x].candidate \in Somewhere /\ journal[x].previous \in Somewhere
                  /\ \/ ops = Cleaning \/ ops = Returning(journal[x].previous) \/ ops = Discarding(journal[x].candidate)
                     \/ ops = Swapping(journal[x].candidate, journal[x].previous)
        BY <2>1, <3>1, CommandGoes
      <4>2. Environments \subseteq Somewhere /\ Transactions \subseteq Own /\ Own \subseteq Somewhere
        BY Typed DEF Somewhere, Own, OrNone
      <4>3. CASE task[p].cmd \in {"backup", "prepare", "promote", "commit", "cleanup"}
        BY <4>1, <4>2, <4>3, <3>1, <3>2, Fitting, Planned
      <4>4. CASE task[p].cmd = "restore"
        BY <4>1, <4>2, <4>4, <3>1, <3>2, Fitting, Planned
      <4> QED BY <4>3, <4>4, <3>1 DEF Owned
    <3>4. owner[x] = None /\ journal[x] # None
      BY <2>1 DEF Claimable
    <3> QED BY <3>1, <3>2, <3>3, <3>4, <1>1, Continued
  <2>2. CASE ~(Claimable(x) /\ Demands(task[p].cmd, x))
    BY <1>7, <2>2, <1>6 DEF Command
  <2> QED BY <2>1, <2>2
<1>8. CASE BindIdentity(p)
  <2> DEFINE ops == Tail(task[p].todo)
  <2>1. /\ helper[p] = "bind" /\ Continue(p, x, ops)
        /\ journal' = [journal EXCEPT ![x][Head(task[p].todo).label] = Head(task[p].todo).env]
    BY <1>8 DEF BindIdentity
  <2>2. ops \in Todos /\ Fits(cmake[p], Label(p, ops), After(p, x, ops)) /\ (ops # <<>> => Head(ops).op \in Acts)
    <3>1. \/ \E e \in Somewhere : task[p].todo = Backing(e) /\ task[p].cmd = "backup"
          \/ \E e \in Own : task[p].todo = Naming(e) /\ task[p].cmd = "prepare"
          \/ \E e \in Somewhere : task[p].todo = Sealing(e) /\ task[p].cmd = "commit"
      BY <1>0, <2>1 DEF Fits
    <3>2. ASSUME NEW e \in Somewhere, task[p].todo = Backing(e), task[p].cmd = "backup"
          PROVE  ops = Stashing(e) /\ Fits(cmake[p], Label(p, Stashing(e)), After(p, x, Stashing(e)))
                 /\ Head(Stashing(e)).op \in Acts /\ Stashing(e) \in Todos
      BY <3>2, <2>1, <1>1, Plans, Fitting, Planned
    <3>3. Fits(cmake[p], Label(p, <<>>), After(p, x, <<>>)) /\ <<>> \in Todos
      BY <2>1, <1>1, Fitting, Planned
    <3>4. \A e : (task[p].todo = Naming(e) \/ task[p].todo = Sealing(e)) => ops = <<>>
      BY Plans
    <3> QED BY <3>1, <3>2, <3>3, <3>4
  <2>3. journal'[x] # None /\ \A z \in Transactions \ {x} : journal'[z] = journal[z]
    BY <1>0, <1>1, <2>1, Recorded
  <2> QED BY <2>1, <2>2, <2>3, <1>1, Continued
<1>9. CASE CheckMove(p)
  <2>1. CASE Refuses(p)
    BY <1>9, <2>1, <1>1, <1>6 DEF CheckMove
  <2>2. CASE ~Refuses(p)
    <3>1. helper[p] = "move" /\ GoTo(p, "rename") /\ owner' = owner /\ journal' = journal
      BY <1>9, <2>2 DEF CheckMove, GoTo
    <3>2. Fits(cmake[p], "rename", task[p])
      BY <1>0, <3>1 DEF Fits, Commands, Owned, Building, Creating, Moving, Removing
    <3> QED BY <3>1, <3>2, <1>1, WentOn
  <2> QED BY <2>1, <2>2
<1>10. CASE Rename(p)
  <2>1. CASE Refuses(p)
    BY <1>10, <2>1, <1>1, <1>6 DEF Rename
  <2>2. CASE ~Refuses(p)
    <3>1. helper[p] = "rename" /\ Goes(p, "moved", task[p]) /\ owner' = owner /\ journal' = journal /\ suffered' = suffered
      BY <1>10, <2>2 DEF Rename, Goes, luck, EnvBase, Apart, EnvTyped
    <3>2. Fits(cmake[p], "moved", task[p])
      BY <1>0, <3>1 DEF Fits, Commands, Owned, Building, Creating, Moving, Removing
    <3>3. owner' = [owner EXCEPT ![x] = p] /\ "moved" \in Steps /\ "moved" \in Acts
      BY <3>1, <1>1, Typed DEF Steps
    <3> QED BY <3>1, <3>2, <3>3, <1>0, <1>1, Helped
  <2> QED BY <2>1, <2>2
<1>11. CASE CheckMoved(p)
  <2>0. helper[p] = "moved" /\ helper[p] \in Moving /\ helper[p] \in Acts
    BY <1>11, <1>1 DEF CheckMoved, Moving
  <2>1. CASE Refuses(p)
    BY <2>0, <2>1, <1>6
  <2>2. CASE Continue(p, x, Tail(task[p].todo)) /\ journal' = journal
    BY <2>0, <2>2, <1>1, Moved, Continued
  <2>3. CASE journal' = [journal EXCEPT ![x].tainted = TRUE] /\ Answers(p, "refused")
    <3>1. Goes(p, "refused", task[p]) /\ Close(p) /\ suffered' = suffered
      BY <2>3, HelperGoes DEF luck
    <3>2. \A z \in Transactions : journal'[z] = journal[z] \/ z = x
      BY <2>3, <1>0
    <3> QED BY <3>1, <3>2, <2>0, <1>1, Answered
  <2> QED BY <1>11, <2>1, <2>2, <2>3 DEF CheckMoved
<1>12. CASE Cleanup(p)
  <2>1. CASE Refuses(p)
    BY <1>12, <2>1, <1>1, <1>6 DEF Cleanup
  <2>2. CASE ~Refuses(p)
    <3>1. helper[p] = "cleanup" /\ GoTo(p, "aside") /\ owner' = owner /\ journal' = [journal EXCEPT ![x].loc = "detaching"]
      BY <1>12, <2>2 DEF Cleanup
    <3>2. Fits(cmake[p], "aside", task[p])
      BY <1>0, <3>1 DEF Fits, Commands, Owned, Building, Creating, Moving, Removing
    <3>3. journal'[x] # None /\ \A z \in Transactions \ {x} : journal'[z] = journal[z]
      BY <1>0, <1>1, <3>1 DEF Journals
    <3> QED BY <3>1, <3>2, <3>3, <1>1, WentOn
  <2> QED BY <2>1, <2>2
<1>13. CASE SetAside(p)
  <2>1. helper[p] = "aside" /\ GoTo(p, "erase") /\ owner' = owner /\ journal' = [journal EXCEPT ![x].loc = "cleanup"]
    BY <1>13 DEF SetAside
  <2>2. Fits(cmake[p], "erase", task[p])
    BY <1>0, <2>1 DEF Fits, Commands, Owned, Building, Creating, Moving, Removing
  <2>3. journal'[x] # None /\ \A z \in Transactions \ {x} : journal'[z] = journal[z]
    BY <1>0, <1>1, <2>1 DEF Journals
  <2> QED BY <2>1, <2>2, <2>3, <1>1, WentOn
<1>14. CASE Erase(p)
  <2>1. helper[p] = "erase" /\ GoTo(p, "forget") /\ owner' = owner /\ journal' = journal
    BY <1>14 DEF Erase
  <2>2. Fits(cmake[p], "forget", task[p])
    BY <1>0, <2>1 DEF Fits, Commands, Owned, Building, Creating, Moving, Removing
  <2> QED BY <2>1, <2>2, <1>1, WentOn
<1>15. CASE Forget(p)
  <2>1. helper[p] = "forget" /\ Continue(p, x, <<>>) /\ journal' = [journal EXCEPT ![x] = None]
    <3>1. helper[p] = "forget" /\ task[p].todo \in {<<>>, Cleaning}
      BY <1>15, <1>0 DEF Forget, Fits, Removing
    <3> QED BY <1>15, <3>1, Plans DEF Forget
  <2>2. \A z \in Transactions \ {x} : journal'[z] = journal[z]
    BY <1>0, <1>1, <2>1
  <2>3. Fits(cmake[p], Label(p, <<>>), After(p, x, <<>>)) /\ <<>> \in Todos
    BY <1>1, <2>1, Fitting, Planned
  <2> QED BY <2>1, <2>2, <2>3, <1>1, Continued
<1>16. CASE RecoverOwner(p)
  <2>1. CASE Refuses(p)
    BY <1>16, <2>1, <1>6 DEF RecoverOwner
  <2>2. CASE ~Refuses(p)
    <3>1. PICK y \in Dead(p) : Continue(p, y, Recovering(y))
      BY <1>16, <2>2 DEF RecoverOwner
    <3>2. helper[p] = "claim" /\ task[p].cmd = "recover" /\ journal' = journal
      BY <1>16, <2>2 DEF RecoverOwner
    <3>3. y \in Transactions /\ journal[y] # None /\ owner[y] = None
      BY <1>0 DEF Dead, Tasks
    <3>4. /\ Recovering(y) \in Todos /\ Fits(cmake[p], Label(p, Recovering(y)), After(p, y, Recovering(y)))
          /\ Head(Recovering(y)).op \in Acts
      <4>1. /\ journal[y].candidate \in Somewhere /\ journal[y].previous \in Somewhere
            /\ \/ Recovering(y) = Swapping(journal[y].candidate, journal[y].previous)
               \/ Recovering(y) = Discarding(journal[y].candidate)
               \/ Recovering(y) = Returning(journal[y].previous) \/ Recovering(y) = Cleaning
        BY <3>3, RecoveryGoes
      <4> QED BY <4>1, <3>2, <3>3, Fitting, Planned
    <3> QED BY <3>1, <3>2, <3>3, <3>4, <1>1, Continued
  <2> QED BY <2>1, <2>2
<1>17. CASE ResumeCleanup(p)
  <2>1. CASE Refuses(p)
    BY <1>17, <2>1, <1>6 DEF ResumeCleanup
  <2>2. CASE ~Refuses(p)
    <3>1. helper[p] = "claim" /\ task[p].cmd = "recover" /\ journal' = journal /\ suffered' = suffered
      BY <1>17, <2>2 DEF ResumeCleanup, luck
    <3>2. PICK y \in Dead(p), h \in {"forget", "cleanup", "aside", "erase"} :
             Goes(p, h, [task[p] EXCEPT !.txn = y, !.left = @ \ {y}]) /\ owner' = [owner EXCEPT ![y] = p]
      <4>1. \A y \in Dead(p) : journal[y].loc \in {"creating", "original", "detaching", "cleanup"}
        BY <1>0, Typed DEF Dead, Tasks, Journals, OrNone
      <4> QED BY <1>17, <2>2, <4>1 DEF ResumeCleanup, Goes, EnvBase, Apart, EnvTyped, Tasks
    <3> DEFINE t == [task[p] EXCEPT !.txn = y, !.left = @ \ {y}]
    <3>3. y \in Transactions /\ journal[y] # None /\ owner[y] = None /\ y # None
      BY <1>0, EnvAssumption DEF Dead, Tasks, EnvAssumption, Environments
    <3>4. t \in Tasks /\ t.txn = y /\ t.cmd = "recover" /\ t.todo = <<>>
      BY <1>0, <3>1, <3>3 DEF Tasks, OrNone, Fits
    <3>5. Fits(cmake[p], h, t)
      BY <1>0, <3>1, <3>3, <3>4 DEF Fits, Commands, Owned, Building, Creating, Moving, Removing
    <3>6. h \in Steps /\ h \in Acts /\ helper[p] \notin Acts /\ h # "none"
      BY <1>1, <3>1 DEF Steps
    <3> QED BY <3>1, <3>2, <3>3, <3>4, <3>5, <3>6, Helped
  <2> QED BY <2>1, <2>2
<1>18. CASE NothingToRecover(p)
  <2>1. helper[p] = "claim" /\ task[p].cmd = "recover" /\ Goes(p, "ok", task[p]) /\ Close(p) /\ journal' = journal /\ suffered' = suffered
    BY <1>18, HelperGoes DEF NothingToRecover, luck
  <2> QED BY <2>1, <1>1, Answered
<1> QED BY <1>2, <1>3, <1>4, <1>5, <1>7, <1>8, <1>9, <1>10, <1>11, <1>12, <1>13, <1>14, <1>15, <1>16, <1>17, <1>18
       DEF HelperStep

(* The steps of a helper keep the helpers apart, and every type.            *)
LEMMA HelperBase ==
    ASSUME EnvBase, NEW p \in Configures, HelperStep(p)
    PROVE  EnvBase'
<1> DEFINE x == task[p].txn
           Data == /\ live' \in Somewhere /\ tree' \in [Transactions -> Trees] /\ Staged'
                   /\ journal' \in [Transactions -> OrNone(Journals)]
                   /\ health' = health /\ marked' = marked /\ envBudget' = envBudget /\ suffered' = suffered
           Kept == live' = live /\ tree' = tree /\ health' = health /\ marked' = marked /\ envBudget' = envBudget /\ suffered' = suffered
                   /\ journal' = journal
<1>0. /\ tree \in [Transactions -> Trees] /\ journal \in [Transactions -> OrNone(Journals)] /\ live \in Somewhere
      /\ owner \in [Transactions -> OrNone(Configures)] /\ task \in [Configures -> Tasks] /\ task[p] \in Tasks
      /\ None \notin Journals /\ Unbound \in Journals /\ NoTree \in Trees
      /\ helper \in [Configures -> Steps]
      /\ Staged /\ Transactions \subseteq Environments
  BY Typed DEF EnvBase, Apart
<1>1. /\ helper[p] \in Acts => x \in Transactions /\ journal[x] \in Journals
      /\ {"mkdir", "print", "bind_print", "bind", "move", "rename", "moved", "cleanup", "aside", "erase", "forget"} = Acts
  BY Acting1 DEF Acts, Creating, Moving, Removing
<1>2. Kept => Data
  BY <1>0 DEF Staged
<1>3. ASSUME NEW j \in OrNone(Journals), NEW y \in Transactions, journal' = [journal EXCEPT ![y] = j],
             live' = live, tree' = tree, health' = health, marked' = marked, envBudget' = envBudget, suffered' = suffered
      PROVE  Data
  BY <1>0, <1>3 DEF Staged
<1>4. ASSUME NEW t \in Trees, NEW y \in Transactions, tree' = [tree EXCEPT ![y] = t], t.staging \in {None, y},
             live' = live, journal' \in [Transactions -> OrNone(Journals)], health' = health, marked' = marked, envBudget' = envBudget, suffered' = suffered
      PROVE  Data
  BY <1>0, <1>4 DEF Staged
<1>5. ASSUME CreateOwner(p) PROVE Data
  <2> DEFINE y == CHOOSE z \in Fresh : TRUE
  <2>1. y \in Transactions
    BY <1>5, FreshName DEF CreateOwner
  <2> QED BY <1>0, <1>3, <1>5, <2>1 DEF CreateOwner, OrNone, luck
<1>6. ASSUME CreateDirectory(p) PROVE Data
  <2>1. x \in Transactions /\ journal[x] \in Journals
    BY <1>6, <1>1 DEF CreateDirectory
  <2>2. [journal[x] EXCEPT !.loc = "original"] \in Journals /\ [tree[x] EXCEPT !.at = "path"] \in Trees
        /\ [tree[x] EXCEPT !.at = "path"].staging = tree[x].staging /\ tree[x].staging \in {None, x}
    BY <1>0, <2>1 DEF Journals, Trees, OrNone, Staged
  <2>3. journal' \in [Transactions -> OrNone(Journals)]
    BY <1>0, <1>6, <2>1, <2>2 DEF CreateDirectory, OrNone
  <2>4. tree' = [tree EXCEPT ![x] = [tree[x] EXCEPT !.at = "path"]]
    BY <1>0, <1>6, <2>1 DEF CreateDirectory
  <2> QED BY <1>4, <1>6, <2>1, <2>2, <2>3, <2>4 DEF CreateDirectory, GoTo, luck
<1>7. ASSUME CreateFingerprint(p) PROVE Data
  <2>1. x \in Transactions
    BY <1>7, <1>1 DEF CreateFingerprint
  <2>2. [tree[x] EXCEPT !.print = TRUE] \in Trees
        /\ [tree[x] EXCEPT !.print = TRUE].staging = tree[x].staging /\ tree[x].staging \in {None, x}
    BY <1>0, <2>1 DEF Trees, OrNone, Staged
  <2>4. tree' = [tree EXCEPT ![x] = [tree[x] EXCEPT !.print = TRUE]]
    BY <1>0, <1>7, <2>1 DEF CreateFingerprint
  <2> QED BY <1>0, <1>4, <1>7, <2>1, <2>2, <2>4 DEF CreateFingerprint, GoTo, luck
<1>8. ASSUME BindFingerprint(p) PROVE Data
  <2>1. x \in Transactions /\ journal[x] \in Journals
    BY <1>8, <1>1 DEF BindFingerprint
  <2>2. [journal[x] EXCEPT !.print = TRUE] \in OrNone(Journals)
    BY <2>1 DEF Journals, OrNone
  <2>3. journal' = [journal EXCEPT ![x] = [journal[x] EXCEPT !.print = TRUE]]
    BY <1>0, <1>8, <2>1 DEF BindFingerprint
  <2> QED BY <1>3, <1>8, <2>1, <2>2, <2>3 DEF BindFingerprint, Continue, luck
<1>9. ASSUME Command(p) PROVE Data
  BY <1>2, <1>9 DEF Command, Continue, Refuses, Answers, luck
<1>10. ASSUME BindIdentity(p) PROVE Data
  <2> DEFINE op == Head(task[p].todo)
  <2>1. x \in Transactions /\ journal[x] \in Journals /\ helper[p] = "bind"
    BY <1>10, <1>1 DEF BindIdentity
  <2>2. [journal[x] EXCEPT ![op.label] = op.env] \in OrNone(Journals)
    BY <2>1, Recorded DEF OrNone
  <2>3. journal' = [journal EXCEPT ![x] = [journal[x] EXCEPT ![op.label] = op.env]]
    BY <1>0, <1>10, <2>1 DEF BindIdentity
  <2> QED BY <1>3, <1>10, <2>1, <2>2, <2>3 DEF BindIdentity, Continue, luck
<1>11. ASSUME CheckMove(p) PROVE Data
  BY <1>2, <1>11 DEF CheckMove, GoTo, Refuses, Answers, luck
<1>12. ASSUME Rename(p) PROVE Data
  <2>1. CASE Refuses(p)
    BY <1>2, <2>1 DEF Refuses, Answers, luck
  <2>2. CASE ~Refuses(p)
    <3> DEFINE m == MoveOf(p)
               t == [slot \in DOMAIN tree[x] |-> IF slot = m.src THEN None ELSE IF slot = m.dst THEN At(x, m.src) ELSE tree[x][slot]]
    <3>1. helper[p] \in Acts /\ helper[p] \in Moving
      BY <1>12, <1>1 DEF Rename, Moving
    <3>2. /\ m.src \in {"live", "staging", "previous"} /\ m.dst \in {"live", "previous", "discarded"}
          /\ (m.src = "live" <=> m.dst # "live")
      BY <3>1, Moved
    <3>3. x \in Transactions /\ tree[x] \in Trees /\ tree[x].staging \in {None, x}
      BY <1>0, <1>1, <3>1 DEF Staged
    <3>4. /\ live' = IF m.src = "live" THEN None ELSE IF m.dst = "live" THEN At(x, m.src) ELSE live
          /\ tree' = [tree EXCEPT ![x] = t] /\ journal' = journal /\ health' = health /\ marked' = marked /\ envBudget' = envBudget /\ suffered' = suffered
      BY <1>0, <1>12, <2>2, <3>3 DEF Rename, Renamed, luck
    <3>5. At(x, m.src) \in Somewhere
      BY <1>0, <3>2, <3>3 DEF At, Trees, Somewhere
    <3>6. t \in Trees /\ t.staging \in {None, x}
      BY <3>2, <3>3, <3>5 DEF Trees, Somewhere, OrNone
    <3>7. live' \in Somewhere
      BY <1>0, <3>4, <3>5 DEF Somewhere, OrNone
    <3> QED BY <1>0, <3>3, <3>4, <3>6, <3>7 DEF Staged
  <2> QED BY <2>1, <2>2
<1>13. ASSUME CheckMoved(p) PROVE Data
  <2>1. CASE journal' = journal
    BY <1>2, <1>13, <2>1 DEF CheckMoved, Continue, Refuses, Answers, luck
  <2>2. CASE journal' # journal
    <3>1. x \in Transactions /\ journal[x] \in Journals
      BY <1>13, <1>1 DEF CheckMoved
    <3>2. [journal[x] EXCEPT !.tainted = TRUE] \in OrNone(Journals)
      BY <3>1 DEF Journals, OrNone
    <3>3. journal' = [journal EXCEPT ![x] = [journal[x] EXCEPT !.tainted = TRUE]]
      BY <1>0, <1>13, <2>2, <3>1 DEF CheckMoved, Refuses
    <3> QED BY <1>3, <1>13, <2>2, <3>1, <3>2, <3>3 DEF CheckMoved, Refuses, Answers, luck
  <2> QED BY <2>1, <2>2
<1>14. ASSUME Cleanup(p) PROVE Data
  <2>1. CASE Refuses(p)
    BY <1>2, <2>1 DEF Refuses, Answers, luck
  <2>2. CASE ~Refuses(p)
    <3>1. x \in Transactions /\ journal[x] \in Journals
      BY <1>14, <1>1 DEF Cleanup
    <3>2. [journal[x] EXCEPT !.loc = "detaching"] \in OrNone(Journals)
      BY <3>1 DEF Journals, OrNone
    <3>3. journal' = [journal EXCEPT ![x] = [journal[x] EXCEPT !.loc = "detaching"]]
      BY <1>0, <1>14, <2>2, <3>1 DEF Cleanup
    <3> QED BY <1>3, <1>14, <2>2, <3>1, <3>2, <3>3 DEF Cleanup, GoTo, luck
  <2> QED BY <2>1, <2>2
<1>15. ASSUME SetAside(p) PROVE Data
  <2>1. x \in Transactions /\ journal[x] \in Journals
    BY <1>15, <1>1 DEF SetAside
  <2>2. [journal[x] EXCEPT !.loc = "cleanup"] \in Journals /\ [tree[x] EXCEPT !.at = "aside"] \in Trees
        /\ [tree[x] EXCEPT !.at = "aside"].staging = tree[x].staging /\ tree[x].staging \in {None, x}
    BY <1>0, <2>1 DEF Journals, Trees, OrNone, Staged
  <2>3. journal' \in [Transactions -> OrNone(Journals)]
    BY <1>0, <1>15, <2>1, <2>2 DEF SetAside, OrNone
  <2>4. tree' = [tree EXCEPT ![x] = [tree[x] EXCEPT !.at = "aside"]]
    BY <1>0, <1>15, <2>1 DEF SetAside
  <2> QED BY <1>4, <1>15, <2>1, <2>2, <2>3, <2>4 DEF SetAside, GoTo, luck
<1>16. ASSUME Erase(p) PROVE Data
  <2>1. x \in Transactions /\ NoTree.staging = None
    BY <1>16, <1>1 DEF Erase, NoTree
  <2> QED BY <1>0, <1>4, <1>16, <2>1 DEF Erase, GoTo, luck
<1>17. ASSUME Forget(p) PROVE Data
  <2>1. x \in Transactions
    BY <1>17, <1>1 DEF Forget
  <2> QED BY <1>3, <1>17, <2>1 DEF Forget, Continue, luck, OrNone
<1>18. ASSUME RecoverOwner(p) PROVE Data
  BY <1>2, <1>18 DEF RecoverOwner, Continue, Refuses, Answers, luck
<1>19. ASSUME ResumeCleanup(p) PROVE Data
  BY <1>2, <1>19 DEF ResumeCleanup, Refuses, Answers, luck
<1>20. ASSUME NothingToRecover(p) PROVE Data
  BY <1>2, <1>20 DEF NothingToRecover, Answers, luck
<1>21. Data
  BY <1>5, <1>6, <1>7, <1>8, <1>9, <1>10, <1>11, <1>12, <1>13, <1>14, <1>15, <1>16, <1>17, <1>18, <1>19, <1>20
     DEF HelperStep
<1>22. Apart'
  BY HelperApart
<1> QED BY <1>21, <1>22 DEF EnvBase, EnvTyped, EnvTypeOK, Apart, Shaped, Trees, Somewhere, luck

(* A helper that is cut short, fails, outlives its configure or dies with   *)
(* it stays apart from the others.                                          *)
LEMMA AccidentBase ==
    ASSUME EnvBase, NEW p \in Configures,
           TimesOut(p) \/ OperationFails(p) \/ KillConfigure(p) \/ OrphanHelper(p) \/ OrphanEnds(p)
    PROVE  EnvBase'
<1>0. /\ task[p] \in Tasks /\ Fits(cmake[p], helper[p], task[p]) /\ helper[p] \in Steps /\ cmake[p] \in Stages
      /\ NoTask \in Tasks /\ None \notin Configures
      /\ \A q \in Configures : Fits(cmake[q], helper[q], task[q])
      /\ cmake \in [Configures -> Stages] /\ helper \in [Configures -> Steps] /\ task \in [Configures -> Tasks]
      /\ owner \in [Transactions -> OrNone(Configures)] /\ envLock \in OrNone(Configures)
  BY Typed, Requests DEF EnvBase, Apart, Shaped
<1>1. ASSUME Apart', UNCHANGED <<live, tree, journal, health, marked>>, envBudget' \in [Accidents -> Nat],
             suffered' \subseteq Accidents
      PROVE  EnvBase'
  BY <1>1 DEF EnvBase, EnvTyped, EnvTypeOK, Apart, Shaped, Staged
<1>2. \A kind \in Accidents : Suffer(kind) =>
         /\ envBudget' \in [Accidents -> Nat] /\ suffered' \subseteq Accidents /\ suffered \subseteq suffered'
         /\ kind \in suffered'
  BY DEF Suffer, EnvBase, EnvTyped, EnvTypeOK
<1>3. {"timeouts", "kills", "orphans", "fails"} \subseteq Accidents
  BY DEF Accidents
<1>4. CASE TimesOut(p)
  <2>1. Goes(p, "refused", task[p]) /\ Close(p) /\ helper[p] # "none"
    BY <1>4, <1>0 DEF TimesOut, Goes, Working
  <2>2. Apart'
    BY <1>2, <1>3, <1>4, <2>1, Answered DEF TimesOut
  <2> QED BY <1>1, <1>2, <1>3, <1>4, <2>2 DEF TimesOut
<1>5. CASE OperationFails(p)
  <2>1. CASE task[p].cmd = "create" /\ helper[p] \in {"print", "bind_print"}
    <3> DEFINE t == [task[p] EXCEPT !.cmd = "abort"]
    <3>1. Goes(p, "cleanup", t) /\ owner' = owner /\ journal' = journal
      BY <1>5, <1>0, <2>1 DEF OperationFails, Goes
    <3>2. t \in Tasks /\ t.txn = task[p].txn /\ t.cmd = "abort" /\ t.todo = <<>> /\ helper[p] \in Acts /\ "cleanup" \in Acts
      BY <1>0, <2>1 DEF Tasks, Fits, Acts, Creating, Removing, Commands
    <3>3. Fits(cmake[p], "cleanup", t)
      BY <1>0, <2>1, <3>2 DEF Fits, Commands, Owned, Building, Creating, Moving, Removing
    <3>4. task[p].txn \in Transactions /\ task[p].txn # None /\ owner[task[p].txn] = p /\ journal[task[p].txn] # None
      BY <3>2, Acting1
    <3>5. owner' = [owner EXCEPT ![task[p].txn] = p]
      BY <1>0, <3>1, <3>4
    <3>6. "cleanup" \in Steps /\ "cleanup" # "none" /\ helper[p] # "none" /\ suffered \subseteq suffered'
      BY <1>2, <1>3, <1>5, <2>1 DEF Steps, OperationFails
    <3>7. Apart'
      BY <3>1, <3>2, <3>3, <3>4, <3>5, <3>6, Helped
    <3> QED BY <1>1, <1>2, <1>3, <1>5, <3>7 DEF OperationFails
  <2>2. CASE ~(task[p].cmd = "create" /\ helper[p] \in {"print", "bind_print"})
    <3>1. Goes(p, "refused", task[p]) /\ Close(p) /\ helper[p] # "none"
      BY <1>5, <1>0, <2>2 DEF OperationFails, Goes, Working
    <3>2. Apart'
      BY <1>2, <1>3, <1>5, <3>1, Answered DEF OperationFails
    <3> QED BY <1>1, <1>2, <1>3, <1>5, <3>2 DEF OperationFails
  <2> QED BY <2>1, <2>2
<1>6. CASE KillConfigure(p)
  <2>1. /\ cmake'[p] = "failed" /\ helper'[p] = "none" /\ task'[p] = NoTask
        /\ envLock' = (IF envLock = p THEN None ELSE envLock)
        /\ \A q \in Configures \ {p} : cmake'[q] = cmake[q] /\ helper'[q] = helper[q] /\ task'[q] = task[q]
        /\ \A x \in Transactions : owner'[x] = IF owner[x] = p THEN None ELSE owner[x]
        /\ journal' = journal /\ suffered \subseteq suffered'
    BY <1>0, <1>2, <1>3, <1>6 DEF KillConfigure, Leaves, Enter, Idle, Close
  <2>2. Shaped'
    <3>1. owner' \in [Transactions -> OrNone(Configures)]
      BY <1>0, <1>6 DEF KillConfigure, Close, OrNone
    <3>2. cmake' \in [Configures -> Stages] /\ helper' \in [Configures -> Steps] /\ task' \in [Configures -> Tasks]
          /\ envLock' \in OrNone(Configures)
      BY <1>0, <1>6 DEF KillConfigure, Leaves, Enter, Idle, Stages, Steps, OrNone
    <3> QED BY <3>1, <3>2 DEF Shaped
  <2>3. Locked'
    BY <1>0, <2>1 DEF EnvBase, Apart, Locked, Inside, Outside
  <2>4. Owning'
    <3>1. ASSUME NEW q \in Configures, NEW x \in Transactions
          PROVE  owner'[x] = q <=> helper'[q] \in Acts /\ task'[q].txn = x
      BY <1>0, <2>1 DEF EnvBase, Apart, Owning, Acts, Creating, Moving, Removing
    <3>2. ASSUME NEW q \in Configures, helper'[q] \in Acts PROVE task'[q].txn # None /\ journal'[task'[q].txn] # None
      BY <2>1, <3>2 DEF EnvBase, Apart, Owning, Acts, Creating, Moving, Removing
    <3> QED BY <3>1, <3>2 DEF Owning
  <2>5. \A q \in Configures : Fits(cmake[q], helper[q], task[q])'
    BY <1>0, <2>1, TurnFits
  <2>6. Apart'
    BY <2>2, <2>3, <2>4, <2>5 DEF Apart
  <2> QED BY <1>1, <1>2, <1>3, <1>6, <2>6 DEF KillConfigure
<1>7. CASE OrphanHelper(p)
  <2>1. /\ cmake'[p] = "failed" /\ helper' = helper /\ task' = task /\ owner' = owner /\ journal' = journal
        /\ envLock' = (IF envLock = p THEN None ELSE envLock)
        /\ \A q \in Configures \ {p} : cmake'[q] = cmake[q]
        /\ "orphans" \in suffered' /\ suffered \subseteq suffered'
    BY <1>0, <1>2, <1>3, <1>7 DEF OrphanHelper, Leaves, Enter, fsVars
  <2>2. Shaped'
    BY <1>0, <1>7 DEF OrphanHelper, Leaves, Enter, Stages, OrNone, Shaped, fsVars
  <2>3. Locked'
    BY <1>0, <2>1 DEF EnvBase, Apart, Locked, Inside, Outside
  <2>4. Owning'
    BY <2>1 DEF EnvBase, Apart, Owning
  <2>5. Fits("failed", helper[p], task[p])
    BY <1>0 DEF Fits, Commands, Owned, Building
  <2>6. Apart'
    BY <1>0, <2>1, <2>2, <2>3, <2>4, <2>5 DEF Apart
  <2> QED BY <1>1, <1>2, <1>3, <1>7, <2>6 DEF OrphanHelper, fsVars
<1>8. CASE OrphanEnds(p)
  <2>1. /\ Turn(p, "failed", "none", NoTask, envLock) /\ owner' = owner /\ journal' = journal
        /\ envBudget' = envBudget /\ suffered' = suffered /\ ~Inside(p) /\ envLock # p
    BY <1>0, <1>8 DEF OrphanEnds, Idle, Turn, fsVars, luck, Inside, Outside, EnvBase, Apart, Locked
  <2>2. helper[p] \notin Acts /\ "none" \notin Acts /\ "none" \in Steps /\ "failed" \in Stages /\ "failed" \in Outside
    BY <1>8 DEF OrphanEnds, Acts, Creating, Moving, Removing, Steps, Stages, Outside
  <2>3. Fits("failed", "none", NoTask)
    BY TurnFits
  <2>4. Apart'
    BY <1>0, <2>1, <2>2, <2>3, Directed
  <2> QED BY <1>1, <1>8, <2>1, <2>4 DEF OrphanEnds, fsVars, EnvBase, EnvTyped, EnvTypeOK
<1> QED BY <1>4, <1>5, <1>6, <1>7, <1>8

(* At first nothing is locked or owned, and no helper runs.                 *)
LEMMA FirstBase == ASSUME NEW s \in EnvScenarios, EnvInit(s) PROVE EnvBase
<1>1. /\ s.live \in OrNone({Old}) /\ s.health \in OrNone(Builds) /\ s.marked \subseteq {Old} /\ s.budget \in [Accidents -> Nat]
      /\ None \notin Configures
  BY EnvAssumption DEF EnvAssumption
<1>2. NoTask \in Tasks /\ NoTree \in Trees /\ NoTask.txn = None /\ NoTree.staging = None
  BY Requests DEF NoTree, Trees, NoTask, OrNone
<1>3. Shaped
  BY <1>2 DEF EnvInit, Shaped, Stages, Steps, OrNone
<1>4. Locked /\ Owning
  BY <1>1 DEF EnvInit, Locked, Owning, Inside, Outside, Acts, Creating, Moving, Removing
<1>5. \A q \in Configures : Fits(cmake[q], helper[q], task[q])
  BY DEF EnvInit, Fits, NoTask, Commands, Owned, Building, Creating, Moving, Removing
<1>6. Staged
  BY <1>2 DEF EnvInit, Staged
<1>7. EnvTyped
  <2>1. tree \in [Transactions -> Trees] /\ journal \in [Transactions -> OrNone(Journals)]
    BY <1>2 DEF EnvInit, OrNone
  <2>2. health \in [Environments -> OrNone(Builds)]
    BY <1>1 DEF EnvInit, OrNone
  <2>3. live \in OrNone(Environments) /\ marked \subseteq Environments /\ Theirs \notin marked
    BY <1>1, EnvAssumption DEF EnvAssumption, EnvInit, OrNone, Environments
  <2> QED BY <1>1, <1>3, <2>1, <2>2, <2>3 DEF EnvInit, EnvTyped, EnvTypeOK, Shaped, Trees
<1> QED BY <1>3, <1>4, <1>5, <1>6, <1>7 DEF EnvBase, Apart

(* So does what the user does.                                             *)
LEMMA UserBase == ASSUME EnvBase, NEW e \in {Theirs, None}, UserReplaces(e) PROVE EnvBase'
<1>1. live' \in OrNone(Environments)
  BY DEF UserReplaces, OrNone, Environments
<1>2. envBudget' \in [Accidents -> Nat] /\ suffered' \subseteq Accidents /\ suffered \subseteq suffered'
  BY DEF UserReplaces, Suffer, EnvBase, EnvTyped, EnvTypeOK, Accidents
<1>3. Apart' /\ Staged'
  BY <1>2 DEF UserReplaces, EnvBase, Apart, Shaped, Locked, Inside, Owning, Staged
<1> QED BY <1>1, <1>2, <1>3 DEF UserReplaces, EnvBase, EnvTyped, EnvTypeOK

(* So does every step.                                                      *)
LEMMA BaseKept == ASSUME EnvBase, [EnvNext]_envVars PROVE EnvBase'
<1>1. CASE UNCHANGED envVars
  BY <1>1 DEF envVars, fsVars, luck, EnvBase, EnvTyped, EnvTypeOK, Apart, Shaped, Locked, Inside, Owning, Staged
<1>2. CASE EnvNext
  BY <1>2, ConfigureBase, HelperBase, AccidentBase, UserBase DEF EnvNext
<1> QED BY <1>1, <1>2

(* A step is free of accidents or suffers one, and none is forgotten.       *)
LEMMA Luck == ASSUME [EnvNext]_envVars PROVE UNCHANGED luck \/ \E kind \in Accidents : Suffer(kind)
<1>1. CASE UNCHANGED envVars
  BY <1>1 DEF envVars, luck
<1>2. ASSUME NEW p \in Configures, ConfigureStep(p) PROVE UNCHANGED luck
  BY <1>2 DEF luck, ConfigureStep, Lock, Recovered, Created, CreateVenv, VenvFails, BackedUp, Install, Prepared, Promoted,
     Relocate, Committed, CleanedUp, Fails
<1>3. ASSUME NEW p \in Configures, HelperStep(p) PROVE UNCHANGED luck
  <2>1. ASSUME NEW h, GoTo(p, h) PROVE UNCHANGED luck
    BY <2>1 DEF GoTo
  <2>2. ASSUME NEW x, NEW ops, Continue(p, x, ops) PROVE UNCHANGED luck
    BY <2>2 DEF Continue
  <2>3. ASSUME NEW h, Answers(p, h) PROVE UNCHANGED luck
    BY <2>3 DEF Answers
  <2> QED BY <1>3, <2>1, <2>2, <2>3 DEF HelperStep, CreateOwner, CreateDirectory, CreateFingerprint, BindFingerprint,
             Command, BindIdentity, CheckMove, Rename, CheckMoved, Cleanup, SetAside, Erase, Forget, RecoverOwner, ResumeCleanup,
             NothingToRecover, Refuses
<1>4. ASSUME NEW p \in Configures, StartConfiguring(p) \/ TimesOut(p) \/ OperationFails(p) \/ KillConfigure(p)
             \/ OrphanHelper(p) \/ OrphanEnds(p)
      PROVE  UNCHANGED luck \/ \E kind \in Accidents : Suffer(kind)
  <2>1. {"configures", "timeouts", "kills", "orphans", "fails"} \subseteq Accidents
    BY DEF Accidents
  <2> QED BY <1>4, <2>1 DEF StartConfiguring, TimesOut, OperationFails, KillConfigure, OrphanHelper, OrphanEnds
<1>5. ASSUME NEW e \in {Theirs, None}, UserReplaces(e) PROVE \E kind \in Accidents : Suffer(kind)
  BY <1>5 DEF UserReplaces, Accidents
<1> QED BY <1>1, <1>2, <1>3, <1>4, <1>5 DEF EnvNext

(* No accident is forgotten.                                                *)
LEMMA Suffering == ASSUME [EnvNext]_envVars PROVE suffered \subseteq suffered'
BY Luck DEF luck, Suffer

(* Helpers that stay apart exclude each other.                              *)
LEMMA BaseExcludes == ASSUME EnvBase PROVE EnvTypeOK /\ OneHelper
<1>1. ASSUME NEW p \in Configures, NEW q \in Configures, p # q,
             {helper[p], helper[q]} \cap {"none", "claim", "ok", "refused"} = {}
      PROVE  task[p].txn # task[q].txn
  <2>1. helper[p] \in Acts /\ helper[q] \in Acts
    BY <1>1, Typed, Labels
  <2> QED BY <1>1, <2>1, Acting1
<1>2. "orphans" \notin suffered => \A p \in Configures : helper[p] # "none" => envLock = p
  BY DEF EnvBase, Apart, Locked
<1> QED BY <1>1, <1>2 DEF OneHelper, EnvBase, EnvTyped

(* However configures, helpers and users interleave, and whatever is killed *)
(* or left running: two helpers never act on one transaction, and without   *)
(* orphans only the holder of the lock has a helper at all, for any number  *)
(* of configures and transactions.                                          *)
THEOREM HelpersExclude == EnvSpec => [](EnvTypeOK /\ OneHelper)
<1>1. (\E s \in EnvScenarios : EnvInit(s)) => EnvBase
  BY FirstBase
<1>2. EnvBase /\ [EnvNext]_envVars => EnvBase'
  BY BaseKept
<1>3. EnvBase => EnvTypeOK /\ OneHelper
  BY BaseExcludes
<1> QED BY <1>1, <1>2, <1>3, PTL DEF EnvSpec

---------------------------------------------------------------------------
(* The transaction of the one configure that is in the section *)

Unedited == "edits" \notin suffered
Smooth == suffered \cap {"timeouts", "kills", "fails"} = {}
Txn(p) == task[p].txn
Begun == {"venv", "backup", "install", "prepare", "promote", "relocate"}

(* What the journal of a transaction says of its directory.                 *)
Consistent(x) ==
    LET j == journal[x]
        t == tree[x]
    IN
    /\ j = None => t = NoTree
    /\ j # None =>
          /\ j.loc = "creating" => j = Unbound /\ t = NoTree
          /\ j.loc \in {"original", "detaching"} => t.at = "path"
          /\ j.loc = "cleanup" => t.at = "aside" \/ t = NoTree
          /\ j.loc = "original" =>
                IF j.print THEN t.print
                ELSE /\ t.staging = None /\ t.previous = None /\ t.discarded = None
                     /\ j.previous = None /\ j.candidate = None /\ j.committed = None /\ ~j.tainted
          /\ j.loc \in {"detaching", "cleanup"} => ~j.tainted /\ (t.previous = None \/ j.committed # None)
          /\ t.previous # None => j.previous # None
          /\ j.candidate \in {None, x} /\ j.committed \in {None, x} /\ j.previous \notin {x, Theirs}
          /\ j.committed # None => j.candidate = x /\ health[x] = "usable"
          /\ j.tainted => ~Unedited
(* There is one transaction at most, and the configure knows which: a       *)
(* recovery sees it, and leaves none.                                       *)
Single == \A x, y \in Transactions : journal[x] # None /\ journal[y] # None => x = y
Known(p) ==
    \A x \in Transactions : journal[x] # None =>
        IF cmake[p] = "recover"
        THEN helper[p] # "ok" /\ (helper[p] = "claim" => x \in task[p].left)
        ELSE x = Txn(p)
(* How far the configure has come with it.                                  *)
Advanced(p) ==
    LET x == Txn(p)
        j == journal[x]
        t == tree[x]
    IN
    /\ cmake[p] = "create" =>
          /\ helper[p] = "claim" => x = None
          /\ helper[p] \in Creating \cup {"ok"} => x \notin Present
          /\ helper[p] = "ok" => j # None /\ j.loc = "original" /\ j.print /\ j.previous = None
                                 /\ j.candidate = None /\ j.committed = None /\ t.discarded = None
    /\ cmake[p] = "venv" => x \notin Present
    /\ cmake[p] \in Begun \cup {"commit"} \/ (cmake[p] \in {"cleanup", "restore"} /\ helper[p] = "claim")
          => j # None /\ j.loc = "original" /\ j.print
    /\ cmake[p] \in Begun => j.committed = None /\ t.discarded = None
    /\ cmake[p] \in {"venv", "backup", "install"} => j.candidate = None
    /\ cmake[p] = "venv" \/ (cmake[p] = "backup" /\ helper[p] \in {"claim", "bind"}) => j.previous = None
    /\ cmake[p] = "backup" => live # x
    /\ cmake[p] = "backup" /\ helper[p] = "ok" => j.previous # None
    /\ cmake[p] = "relocate" \/ (cmake[p] = "promote" /\ helper[p] = "ok") => live \in {x, None, Theirs}
    /\ cmake[p] = "commit" => health[x] = "usable" /\ (helper[p] = "ok" => j.committed # None)
    /\ cmake[p] = "cleanup" /\ j # None => j.committed # None
    /\ cmake[p] = "restore" /\ j # None => j.committed = None
(* What its helper is about to do.                                          *)
Planning(p) ==
    LET x == Txn(p)
        j == journal[x]
        t == tree[x]
        todo == task[p].todo
    IN
    /\ helper[p] = "mkdir" => j = Unbound
    /\ helper[p] \in {"print", "bind_print"} => j.loc = "original" /\ ~j.print
    /\ helper[p] = "bind_print" => t.print
    /\ helper[p] \in {"bind"} \cup Moving => j.loc = "original" /\ j.print /\ ~j.tainted
    /\ helper[p] = "bind" =>
          \/ \E e \in Environments \ {Theirs, x} : todo = Backing(e) /\ task[p].cmd = "backup"
          \/ todo = Naming(x) /\ task[p].cmd = "prepare"
          \/ todo = Sealing(x) /\ task[p].cmd = "commit" /\ j.candidate = x
    /\ helper[p] \in Moving =>
          \/ todo = Stashing(j.previous) /\ task[p].cmd = "backup" /\ j.previous # None
          \/ todo = Promoting(x) /\ task[p].cmd = "promote" /\ j.candidate = x
          \/ /\ task[p].cmd \in {"restore", "recover"}
             /\ \/ todo = Discarding(x) /\ t.previous = None /\ j.committed = None
                \/ todo = Swapping(x, j.previous) /\ j.previous # None /\ j.committed = None
                \/ todo = Returning(j.previous) /\ j.previous # None
    /\ helper[p] = "cleanup" => j.loc = "original" /\ ~j.tainted /\ (t.previous = None \/ j.committed # None)
    /\ helper[p] = "aside" => j.loc = "detaching"
    /\ helper[p] = "erase" => j.loc = "cleanup"
    /\ helper[p] = "forget" => t = NoTree

(* Unless the user interferes: where the directories are, and what the      *)
(* helper finds.                                                            *)
Situated(x) ==
    LET j == journal[x]
        t == tree[x]
    IN
    j # None /\ j.loc = "original" =>
        /\ t.discarded \in {None, x} /\ t.previous \in {None, j.previous}
        /\ j.previous = None => j.candidate = None \/ live \in {None, x}
        /\ j.previous # None => IF t.previous = None THEN live = j.previous ELSE live \in {None, x}
        /\ live = x => j.candidate = x /\ t.discarded = None /\ t.staging = None
        /\ j.committed # None => live = x
        /\ t.discarded = x => j.candidate = x
Finds(p) ==
    LET x == Txn(p)
        j == journal[x]
        t == tree[x]
        m == Head(task[p].todo)
    IN
    /\ cmake[p] \in {"install", "prepare"} \/ (cmake[p] = "promote" /\ helper[p] \in {"claim", "move", "rename"})
          => live # x
    /\ cmake[p] \in {"install", "prepare"} /\ j.previous = None => live = None
    /\ cmake[p] \in {"prepare", "promote", "relocate", "commit", "cleanup"} => x \in marked
    /\ (cmake[p] = "promote" /\ helper[p] = "ok") \/ cmake[p] \in {"relocate", "commit", "cleanup"} => live = x
    /\ cmake[p] = "cleanup" => health[x] = "usable"
    /\ helper[p] = "bind" /\ task[p].cmd # "prepare" => live = m.env
    /\ helper[p] = "rename" \/ (helper[p] = "move" /\ task[p].cmd = "recover") =>
          At(x, m.src) = m.env /\ At(x, m.dst) = None /\ m.env # None
    /\ helper[p] = "moved" => At(x, m.src) = None /\ At(x, m.dst) = m.env /\ m.env # None
    /\ helper[p] \in Moving /\ task[p].cmd = "recover" /\ task[p].todo = Swapping(x, j.previous) =>
          t.previous = j.previous
(* What the user put at the path is in a transaction only while its helper  *)
(* has yet to look at what it renamed.                                      *)
Spared ==
    \A x \in Transactions, slot \in Slots :
        journal[x] # None /\ ~journal[x].tainted /\ tree[x][slot] = Theirs =>
            \E p \in Configures : helper[p] = "moved" /\ Txn(p) = x /\ MoveOf(p).dst = slot
Aware(p) == Known(p) /\ Advanced(p) /\ Planning(p) /\ (Unedited => Finds(p))
Accounted ==
    /\ Single /\ UsedIsUsable
    /\ \A x \in Transactions : Consistent(x) /\ (Unedited => Situated(x))
    /\ \A p \in Configures : Inside(p) => Aware(p)
    /\ Smooth => Spared
EnvInv == EnvBase /\ ("orphans" \notin suffered => Accounted)

Quiet == EnvBase /\ Accounted /\ "orphans" \notin suffered

(* Without orphans the configure in the section is alone.                   *)
LEMMA Sole ==
    ASSUME Quiet, NEW p \in Configures, Inside(p) \/ helper[p] # "none"
    PROVE  /\ Inside(p) /\ envLock = p /\ Aware(p) /\ Fits(cmake[p], helper[p], task[p]) /\ task[p] \in Tasks
           /\ \A q \in Configures \ {p} : ~Inside(q) /\ helper[q] = "none"
BY DEF Quiet, EnvBase, EnvTyped, Apart, Locked, Accounted

(* So a step of it accounts for everything when it accounts for its own.    *)
LEMMA Focus ==
    ASSUME Quiet, NEW p \in Configures, Inside(p) \/ helper[p] # "none",
           \A q \in Configures \ {p} : cmake'[q] = cmake[q],
           Single', UsedIsUsable', \A x \in Transactions : Consistent(x)' /\ (Unedited' => Situated(x)'),
           Inside(p)' => Aware(p)',
           Smooth' => Spared'
    PROVE  Accounted'
<1>1. \A q \in Configures \ {p} : ~Inside(q)'
  BY Sole DEF Inside
<1> QED BY <1>1 DEF Accounted

(* Nothing is disturbed where nothing is written.                           *)
LEMMA Still ==
    ASSUME Quiet, UNCHANGED <<live, tree, journal>>, suffered \subseteq suffered',
           \A x \in Transactions : journal[x] # None => health'[x] = health[x]
    PROVE  /\ Single'
           /\ \A x \in Transactions : Consistent(x)' /\ (Unedited' => Situated(x)')
BY DEF Quiet, Accounted, Single, Consistent, Situated, Unedited

(* Nothing of the user's is in a transaction unless a helper has moved it   *)
(* a moment ago.                                                            *)
LEMMA SparedStill ==
    ASSUME Quiet, NEW p \in Configures, Inside(p) \/ helper[p] # "none", helper[p] # "moved",
           \A x \in Transactions : journal'[x] # None /\ ~journal'[x].tainted =>
              \/ /\ journal[x] # None /\ ~journal[x].tainted
                 /\ \A slot \in Slots : tree'[x][slot] = Theirs => tree[x][slot] = Theirs
              \/ \A slot \in Slots : tree'[x][slot] # Theirs,
           suffered \subseteq suffered'
    PROVE  Smooth' => Spared'
<1>1. \A q \in Configures : helper[q] # "moved"
  BY Sole
<1>2. Smooth' => Smooth
  BY DEF Smooth
<1> QED BY <1>1, <1>2 DEF Quiet, Accounted, Spared

(* A used environment is asked for only when nobody works.                  *)
LEMMA NotUsed ==
    ASSUME NEW p \in Configures, cmake'[p] \notin {"idle", "done"}
    PROVE  UsedIsUsable'
BY DEF UsedIsUsable

(* A turn of the configure that writes nothing.                             *)
LEMMA QuietTurn ==
    ASSUME Quiet, NEW p \in Configures, NEW c, NEW h, NEW t, NEW l, Turn(p, c, h, t, l),
           Inside(p) \/ c = "recover", helper[p] \in {"none", "ok", "refused"},
           c = "recover" => \A q \in Configures : ~Inside(q),
           UNCHANGED <<live, tree, journal, health>>, suffered' = suffered,
           c # "idle", c = "done" => IsReady' \/ ~Unedited,
           c \notin {"done", "failed"} => Aware(p)'
    PROVE  Accounted'
<1>1. /\ cmake'[p] = c /\ helper'[p] = h /\ task'[p] = t
      /\ \A q \in Configures \ {p} : cmake'[q] = cmake[q] /\ helper'[q] = helper[q] /\ task'[q] = task[q]
  BY DEF Turn, Quiet, EnvBase, EnvTyped, EnvTypeOK
<1>2. \A q \in Configures \ {p} : ~Inside(q) /\ helper[q] = "none"
  BY Sole DEF Quiet, EnvBase, Apart, Locked
<1>3. Single' /\ \A x \in Transactions : Consistent(x)' /\ (Unedited' => Situated(x)')
  BY Still
<1>4. Smooth' => Spared'
  <2>1. \A q \in Configures : helper[q] # "moved"
    BY <1>2
  <2> QED BY <2>1 DEF Quiet, Accounted, Spared, Smooth
<1>5. UsedIsUsable'
  <2>1. CASE c = "done"
    BY <2>1 DEF UsedIsUsable, Unedited
  <2>2. CASE c # "done"
    BY <1>1, <2>2, NotUsed
  <2> QED BY <2>1, <2>2
<1>6. \A q \in Configures : Inside(q)' => Aware(q)'
  BY <1>1, <1>2 DEF Inside, Outside
<1> QED BY <1>3, <1>4, <1>5, <1>6 DEF Accounted

(* The turns that write nothing keep account.                               *)
LEMMA TurnsKeepAccount ==
    ASSUME Quiet, NEW p \in Configures,
           Lock(p) \/ Recovered(p) \/ Created(p) \/ VenvFails(p) \/ BackedUp(p) \/ Prepared(p) \/ Promoted(p)
           \/ Committed(p) \/ CleanedUp(p) \/ Fails(p)
    PROVE  Accounted'
<1> DEFINE x == Txn(p)
<1>0. /\ EnvBase /\ cmake \in [Configures -> Stages] /\ helper \in [Configures -> Steps] /\ task \in [Configures -> Tasks]
      /\ None \notin Environments
  BY Typed DEF Quiet
<1>1. ASSUME NEW c, NEW h, NEW t, NEW l, Turn(p, c, h, t, l)
      PROVE  cmake'[p] = c /\ helper'[p] = h /\ task'[p] = t
  BY <1>0, <1>1 DEF Turn
<1>2. \A c, y : Request(c, y).txn = y /\ Request(c, y).cmd = c
  BY DEF Request
<1>3. CASE Lock(p)
  <2>1. /\ Turn(p, "recover", "claim", Request("recover", None), p) /\ envLock = None /\ cmake[p] = "lock"
        /\ UNCHANGED <<live, tree, journal, health, marked>> /\ suffered' = suffered
    BY <1>3 DEF Lock, Run, Request, Turn, Enter, fsVars, luck
  <2>2. \A q \in Configures : ~Inside(q)
    BY <2>1, EnvAssumption DEF Quiet, EnvBase, Apart, Locked, EnvAssumption
  <2>3. helper[p] = "none"
    BY <2>2 DEF Quiet, EnvBase, Apart, Locked
  <2>4. cmake'[p] = "recover" /\ helper'[p] = "claim" /\ task'[p] = Request("recover", None)
        /\ Request("recover", None).left = {y \in Transactions : journal[y] # None}
        /\ Request("recover", None).todo = <<>> /\ Request("recover", None).txn = None
    BY <1>1, <2>1 DEF Request
  <2>5. Known(p)'
    BY <2>1, <2>4 DEF Known
  <2>6. Advanced(p)' /\ Planning(p)' /\ Finds(p)'
    BY <2>4 DEF Advanced, Planning, Finds, Begun, Creating, Moving
  <2>7. Aware(p)'
    BY <2>5, <2>6 DEF Aware
  <2> QED BY <2>1, <2>2, <2>3, <2>7, QuietTurn
<1>4. CASE Recovered(p)
  <2>0. /\ cmake[p] = "recover" /\ helper[p] = "ok" /\ Inside(p)
        /\ UNCHANGED <<live, tree, journal, health, marked>> /\ suffered' = suffered
    BY <1>4 DEF Recovered, fsVars, luck, Inside, Outside
  <2>1. \A y \in Transactions : journal[y] = None
    BY <2>0, Sole DEF Aware, Known
  <2>2. CASE IsReady /\ Turn(p, "done", "none", NoTask, None)
    <3>1. IsReady'
      BY <2>0, <2>2 DEF IsReady, ReadyLive
    <3> QED BY <2>0, <2>2, <3>1, QuietTurn
  <2>3. CASE Turn(p, "create", "claim", Request("create", None), p)
    <3>1. cmake'[p] = "create" /\ helper'[p] = "claim" /\ task'[p].txn = None
      BY <1>1, <1>2, <2>3
    <3>2. Known(p)' /\ Advanced(p)' /\ Planning(p)' /\ Finds(p)'
      BY <2>0, <2>1, <3>1 DEF Known, Advanced, Planning, Finds, Txn, Begun, Creating, Moving
    <3> QED BY <2>0, <2>3, <3>2, QuietTurn DEF Aware
  <2> QED BY <1>0, <1>4, <2>2, <2>3, StepTurns
<1>5. ASSUME cmake[p] \in Building \cup (Commands \ {"recover"}), helper[p] \in {"none", "ok", "refused"},
             UNCHANGED <<live, tree, journal, health, marked>>, suffered' = suffered,
             NEW c \in (Building \cup Owned), NEW h \in {"none", "claim"}, NEW t, t.txn = x, Turn(p, c, h, t, p),
             /\ c \in {"venv", "install", "relocate"} => h = "none"
             /\ c \in Owned => h = "claim",
             Advanced(p)', Unedited => Finds(p)'
      PROVE  Accounted'
  <2>1. cmake'[p] = c /\ helper'[p] = h /\ task'[p] = t
    BY <1>1, <1>5
  <2>2. Inside(p)
    BY <1>5 DEF Inside, Outside, Building, Commands, Owned
  <2>3. Known(p)'
    BY <1>5, <2>1, <2>2, Sole DEF Aware, Known, Txn, Building, Commands, Owned
  <2>4. Planning(p)'
    BY <1>5, <2>1 DEF Planning, Creating, Moving
  <2>5. Aware(p)'
    BY <1>5, <2>3, <2>4 DEF Aware, Unedited
  <2>6. c # "recover" /\ c # "idle" /\ c # "done"
    BY <1>5 DEF Building, Owned
  <2> QED BY <1>5, <2>2, <2>5, <2>6, QuietTurn
<1>6. ASSUME NEW c, NEW h, NEW t, NEW l, Turn(p, c, h, t, l), t.txn = x, UNCHANGED <<live, tree, journal, health, marked>>,
             suffered' = suffered
      PROVE  /\ cmake'[p] = c /\ helper'[p] = h /\ Txn(p)' = x /\ journal'[x] = journal[x] /\ tree'[x] = tree[x]
             /\ live' = live /\ marked' = marked /\ health'[x] = health[x] /\ Present' = Present
  BY <1>1, <1>6 DEF Txn, Present
<1>7. ASSUME Inside(p) PROVE Advanced(p) /\ (Unedited => Finds(p))
  BY <1>7, Sole DEF Aware
<1>8. CASE Created(p)
  <2>1. /\ Turn(p, "venv", "none", task[p], p) /\ cmake[p] = "create" /\ helper[p] = "ok" /\ Inside(p)
        /\ UNCHANGED <<live, tree, journal, health, marked>> /\ suffered' = suffered /\ task[p].txn = x
    BY <1>0, <1>8, StepTurns DEF Created, fsVars, luck, Inside, Outside, Txn
  <2>2. /\ cmake'[p] = "venv" /\ helper'[p] = "none" /\ Txn(p)' = x /\ journal'[x] = journal[x] /\ tree'[x] = tree[x]
        /\ live' = live /\ Present' = Present
    BY <1>6, <2>1
  <2>3. Advanced(p)' /\ Finds(p)'
    BY <1>7, <2>1, <2>2 DEF Advanced, Finds, Begun, Moving, Creating
  <2> QED BY <1>5, <2>1, <2>3 DEF Building, Commands, Owned
<1>9. CASE VenvFails(p)
  <2>1. /\ Turn(p, "restore", "claim", Request("restore", x), p) /\ cmake[p] = "venv" /\ helper[p] = "none" /\ Inside(p)
        /\ UNCHANGED <<live, tree, journal, health, marked>> /\ suffered' = suffered /\ Request("restore", x).txn = x
    BY <1>0, <1>2, <1>9, StepTurns DEF VenvFails, fsVars, luck, Inside, Outside, Txn, EnvBase, Apart, Fits, Building
  <2>2. /\ cmake'[p] = "restore" /\ helper'[p] = "claim" /\ Txn(p)' = x /\ journal'[x] = journal[x]
    BY <1>6, <2>1
  <2>3. Advanced(p)' /\ Finds(p)'
    BY <1>7, <2>1, <2>2 DEF Advanced, Finds, Begun, Moving, Creating
  <2> QED BY <1>5, <2>1, <2>3 DEF Building, Owned
<1>10. CASE BackedUp(p)
  <2>1. /\ Turn(p, "install", "none", task[p], p) /\ cmake[p] = "backup" /\ helper[p] = "ok" /\ Inside(p)
        /\ UNCHANGED <<live, tree, journal, health, marked>> /\ suffered' = suffered /\ task[p].txn = x
    BY <1>0, <1>10, StepTurns DEF BackedUp, fsVars, luck, Inside, Outside, Txn
  <2>2. /\ cmake'[p] = "install" /\ helper'[p] = "none" /\ Txn(p)' = x /\ journal'[x] = journal[x] /\ tree'[x] = tree[x]
        /\ live' = live
    BY <1>6, <2>1
  <2>3. Advanced(p)' /\ Finds(p)'
    BY <1>7, <2>1, <2>2 DEF Advanced, Finds, Begun, Moving, Creating
  <2> QED BY <1>5, <2>1, <2>3 DEF Building, Commands, Owned
<1>11. CASE Prepared(p)
  <2>1. /\ Turn(p, "promote", "claim", Request("promote", x), p) /\ cmake[p] = "prepare" /\ helper[p] = "ok" /\ Inside(p)
        /\ UNCHANGED <<live, tree, journal, health, marked>> /\ suffered' = suffered /\ Request("promote", x).txn = x
    BY <1>0, <1>2, <1>11, StepTurns DEF Prepared, fsVars, luck, Inside, Outside, Txn
  <2>2. /\ cmake'[p] = "promote" /\ helper'[p] = "claim" /\ Txn(p)' = x /\ journal'[x] = journal[x] /\ tree'[x] = tree[x]
        /\ live' = live /\ marked' = marked
    BY <1>6, <2>1
  <2>3. Advanced(p)' /\ (Unedited => Finds(p)')
    BY <1>7, <2>1, <2>2 DEF Advanced, Finds, Begun, Moving, Creating
  <2> QED BY <1>5, <2>1, <2>3 DEF Owned, Commands
<1>12. CASE Promoted(p)
  <2>1. /\ Turn(p, "relocate", "none", task[p], p) /\ cmake[p] = "promote" /\ helper[p] = "ok" /\ Inside(p)
        /\ UNCHANGED <<live, tree, journal, health, marked>> /\ suffered' = suffered /\ task[p].txn = x
    BY <1>0, <1>12, StepTurns DEF Promoted, fsVars, luck, Inside, Outside, Txn
  <2>2. /\ cmake'[p] = "relocate" /\ helper'[p] = "none" /\ Txn(p)' = x /\ journal'[x] = journal[x] /\ tree'[x] = tree[x]
        /\ live' = live /\ marked' = marked
    BY <1>6, <2>1
  <2>3. Advanced(p)' /\ (Unedited => Finds(p)')
    BY <1>7, <2>1, <2>2 DEF Advanced, Finds, Begun, Moving, Creating
  <2> QED BY <1>5, <2>1, <2>3 DEF Building, Commands, Owned
<1>13. CASE Committed(p)
  <2>1. /\ Turn(p, "cleanup", "claim", Request("cleanup", x), p) /\ cmake[p] = "commit" /\ helper[p] = "ok" /\ Inside(p)
        /\ UNCHANGED <<live, tree, journal, health, marked>> /\ suffered' = suffered /\ Request("cleanup", x).txn = x
    BY <1>0, <1>2, <1>13, StepTurns DEF Committed, fsVars, luck, Inside, Outside, Txn
  <2>2. /\ cmake'[p] = "cleanup" /\ helper'[p] = "claim" /\ Txn(p)' = x /\ journal'[x] = journal[x] /\ tree'[x] = tree[x]
        /\ live' = live /\ marked' = marked /\ health'[x] = health[x]
    BY <1>6, <2>1
  <2>3. Advanced(p)' /\ (Unedited => Finds(p)')
    BY <1>7, <2>1, <2>2 DEF Advanced, Finds, Begun, Moving, Creating
  <2> QED BY <1>5, <2>1, <2>3 DEF Owned, Commands
<1>14. CASE CleanedUp(p)
  <2>1. /\ Turn(p, "done", "none", NoTask, None) /\ cmake[p] = "cleanup" /\ helper[p] = "ok" /\ Inside(p)
        /\ UNCHANGED <<live, tree, journal, health, marked>> /\ suffered' = suffered
    BY <1>0, <1>14, StepTurns DEF CleanedUp, fsVars, luck, Inside, Outside
  <2>2. Unedited => IsReady'
    BY <1>7, <2>1 DEF Finds, IsReady, ReadyLive
  <2> QED BY <2>1, <2>2, QuietTurn
<1>15. CASE Fails(p)
  <2>0. UNCHANGED <<live, tree, journal, health, marked>> /\ suffered' = suffered /\ helper[p] \in {"ok", "refused"}
        /\ cmake[p] \in Commands /\ Inside(p)
    BY <1>15 DEF Fails, fsVars, luck, Commands, Owned, Inside, Outside
  <2>1. CASE cmake[p] \in {"prepare", "promote"} /\ Turn(p, "restore", "claim", Request("restore", x), p)
    <3>1. Request("restore", x).txn = x
      BY <1>2
    <3>2. /\ cmake'[p] = "restore" /\ helper'[p] = "claim" /\ Txn(p)' = x /\ journal'[x] = journal[x]
      BY <1>6, <2>0, <2>1, <3>1
    <3>3. Advanced(p)' /\ Finds(p)'
      BY <1>7, <2>0, <2>1, <3>2 DEF Advanced, Finds, Begun, Moving, Creating
    <3>4. cmake[p] # "recover"
      BY <2>1
    <3> QED BY <1>5, <2>0, <2>1, <3>1, <3>3, <3>4 DEF Owned
  <2>2. CASE Turn(p, "failed", "none", NoTask, None)
    BY <2>0, <2>2, QuietTurn
  <2> QED BY <1>0, <1>15, <2>1, <2>2, StepTurns DEF Txn
<1> QED BY <1>3, <1>4, <1>8, <1>9, <1>10, <1>11, <1>12, <1>13, <1>14, <1>15

(* The journal of every other transaction is empty, and so is its           *)
(* directory.                                                               *)
LEMMA Alone ==
    ASSUME Quiet, NEW p \in Configures, Inside(p), cmake[p] # "recover"
    PROVE  \A y \in Transactions \ {Txn(p)} : journal[y] = None /\ tree[y] = NoTree
BY Sole DEF Aware, Known, Quiet, Accounted, Consistent

(* A configure that starts disturbs nobody.                                 *)
LEMMA StartKeepsAccount ==
    ASSUME Quiet, NEW p \in Configures, StartConfiguring(p)
    PROVE  Accounted'
<1>1. /\ ~Inside(p) /\ cmake'[p] = "lock" /\ helper' = helper /\ task' = task
      /\ \A q \in Configures \ {p} : cmake'[q] = cmake[q]
      /\ UNCHANGED <<live, tree, journal, owner, health, marked>>
      /\ suffered' = suffered \cup {"configures"}
  BY DEF StartConfiguring, Suffer, Enter, fsVars, Inside, Outside, Quiet, EnvBase, EnvTyped, EnvTypeOK
<1>2. (Unedited' <=> Unedited) /\ (Smooth' <=> Smooth)
  BY <1>1 DEF Unedited, Smooth
<1>3. Single' /\ \A x \in Transactions : Consistent(x)' /\ (Unedited' => Situated(x)')
  BY <1>1, <1>2, Still
<1>4. UsedIsUsable'
  BY <1>1, NotUsed
<1>5. ~Inside(p)'
  BY <1>1 DEF Inside, Outside
<1>6. ASSUME NEW q \in Configures \ {p}, Inside(q)' PROVE Aware(q)'
  <2>1. Inside(q) /\ Aware(q) /\ cmake'[q] = cmake[q] /\ Present' = Present
    BY <1>1, <1>6 DEF Inside, Quiet, Accounted, Present
  <2>2. Known(q)'
    BY <1>1, <2>1 DEF Aware, Known, Txn
  <2>3. Advanced(q)'
    BY <1>1, <2>1 DEF Aware, Advanced, Txn
  <2>4. Planning(q)'
    BY <1>1, <2>1 DEF Aware, Planning, Txn
  <2>5. Unedited' => Finds(q)'
    BY <1>1, <1>2, <2>1 DEF Aware, Finds, Txn, At
  <2> QED BY <2>2, <2>3, <2>4, <2>5 DEF Aware
<1>7. Smooth' => Spared'
  BY <1>1, <1>2 DEF Quiet, Accounted, Spared, MoveOf, Txn
<1> QED BY <1>3, <1>4, <1>5, <1>6, <1>7 DEF Accounted

(* What a configure builds in staging, or finishes in place, disturbs no    *)
(* other directory.                                                         *)
LEMMA BuildKeepsAccount ==
    ASSUME Quiet, NEW p \in Configures, CreateVenv(p) \/ Install(p) \/ Relocate(p)
    PROVE  Accounted'
<1>0. /\ EnvBase /\ cmake \in [Configures -> Stages] /\ helper \in [Configures -> Steps] /\ task \in [Configures -> Tasks]
      /\ None \notin Environments /\ Transactions \subseteq Environments
      /\ tree \in [Transactions -> Trees] /\ health \in [Environments -> OrNone(Builds)]
  BY Typed DEF Quiet
<1>1. PICK x \in Transactions : x = Txn(p)
  <2>1. cmake[p] \in Building
    BY DEF CreateVenv, Install, Relocate, Building
  <2> QED BY <1>0, <2>1, TurnFits DEF Txn
<1>2. ASSUME NEW c, NEW h, NEW t, NEW l, Turn(p, c, h, t, l), t.txn = x
      PROVE  cmake'[p] = c /\ helper'[p] = h /\ Txn(p)' = x /\ \A q \in Configures \ {p} : cmake'[q] = cmake[q]
  BY <1>0, <1>2 DEF Turn, Txn
<1>3. \A c : Request(c, x).txn = x
  BY DEF Request
<1>4. /\ Inside(p) /\ helper[p] = "none" /\ x = Txn(p) /\ cmake[p] \in Building /\ cmake[p] # "recover"
      /\ Advanced(p) /\ Known(p) /\ (Unedited => Finds(p))
      /\ UNCHANGED <<live, journal, owner, luck>> /\ suffered' = suffered
  <2>1. cmake[p] \in Building
    BY DEF CreateVenv, Install, Relocate, Building
  <2>2. Inside(p)
    BY <2>1 DEF Building, Inside, Outside
  <2>3. UNCHANGED <<live, journal, owner, luck>> /\ suffered' = suffered
    BY DEF CreateVenv, Install, Relocate, luck
  <2> QED BY <1>0, <1>1, <2>1, <2>2, <2>3, Sole DEF Aware, Building, Fits
<1>5. \A y \in Transactions \ {x} : journal[y] = None /\ tree[y] = NoTree
  BY <1>4, Alone
<1>6. /\ journal[x] # None /\ journal[x].loc = "original" /\ journal[x].print /\ journal[x].committed = None
      /\ tree[x].discarded = None
      /\ Consistent(x) /\ (Unedited => Situated(x)) /\ Single
  BY <1>4 DEF Advanced, Begun, Building, Quiet, Accounted
<1>7. ASSUME NEW c \in (Building \cup Owned) \ {"venv"}, NEW h \in {"none", "claim"}, NEW t, NEW l, Turn(p, c, h, t, l), t.txn = x,
             Advanced(p)', Unedited => Finds(p)',
             Consistent(x)', Unedited => Situated(x)',
             \A y \in Transactions \ {x} : tree'[y] = tree[y],
             \A slot \in Slots : tree'[x][slot] = Theirs => tree[x][slot] = Theirs
      PROVE  Accounted'
  <2>1. /\ cmake'[p] = c /\ helper'[p] = h /\ Txn(p)' = x /\ \A q \in Configures \ {p} : cmake'[q] = cmake[q]
        /\ c # "idle" /\ c # "done" /\ c # "recover"
    BY <1>2, <1>7 DEF Building, Owned
  <2>2. Known(p)'
    BY <1>4, <1>5, <2>1 DEF Known
  <2>3. Planning(p)'
    BY <1>7, <2>1 DEF Planning, Creating, Moving
  <2>4. Aware(p)'
    BY <1>4, <1>7, <2>2, <2>3 DEF Aware, Unedited
  <2>5. UsedIsUsable'
    BY <2>1, NotUsed
  <2>6. Single'
    BY <1>4, <1>6 DEF Single
  <2>7. \A y \in Transactions : Consistent(y)' /\ (Unedited' => Situated(y)')
    <3>1. ASSUME NEW y \in Transactions \ {x} PROVE Consistent(y)' /\ Situated(y)'
      BY <1>4, <1>5, <1>7 DEF Consistent, Situated
    <3> QED BY <1>4, <1>7, <3>1 DEF Unedited
  <2>8. Smooth' => Spared'
    BY <1>4, <1>5, <1>7, SparedStill
  <2> QED BY <1>4, <2>1, <2>4, <2>5, <2>6, <2>7, <2>8, Focus
<1>8. ASSUME UNCHANGED <<tree, health, marked>>, Turn(p, "restore", "claim", Request("restore", x), p) PROVE Accounted'
  <2>1. /\ cmake'[p] = "restore" /\ helper'[p] = "claim" /\ Txn(p)' = x /\ journal'[x] = journal[x]
    BY <1>2, <1>3, <1>4, <1>8
  <2>2. Advanced(p)' /\ Finds(p)'
    BY <1>4, <1>6, <2>1 DEF Advanced, Finds, Begun, Moving, Creating
  <2>3. Consistent(x)' /\ (Unedited => Situated(x)')
    BY <1>4, <1>6, <1>8 DEF Consistent, Situated, Unedited
  <2> QED BY <1>3, <1>7, <1>8, <2>2, <2>3 DEF Owned
<1>9. CASE CreateVenv(p)
  <2>1. /\ cmake[p] = "venv" /\ tree[x].at = "path" /\ tree' = [tree EXCEPT ![x].staging = x]
        /\ health' = [health EXCEPT ![x] = "partial"] /\ marked' = marked
    BY <1>4, <1>9 DEF CreateVenv, Txn
  <2>2. x \notin Present /\ journal[x].candidate = None /\ journal[x].previous = None
    BY <1>4, <2>1 DEF Advanced
  <2>3. live # x /\ \A slot \in Slots : tree[x][slot] # x
    <3>1. x # None
      BY <1>0, <1>4
    <3> QED BY <1>4, <2>2, <3>1 DEF Present
  <2>4. /\ journal'[x] = journal[x] /\ tree'[x].at = tree[x].at /\ tree'[x].print = tree[x].print /\ tree'[x].staging = x
        /\ tree'[x].previous = tree[x].previous /\ tree'[x].discarded = tree[x].discarded
        /\ \A y \in Transactions \ {x} : tree'[y] = tree[y]
        /\ live' = live
    BY <1>0, <1>4, <2>1 DEF Trees
  <2>5. Consistent(x)'
    BY <1>4, <1>6, <2>1, <2>4 DEF Consistent, Unedited
  <2>6. Unedited => Situated(x)'
    BY <1>6, <2>3, <2>4 DEF Situated
  <2>7. x # Theirs
    BY <1>4, EnvAssumption DEF EnvAssumption
  <2>8. \A slot \in Slots : tree'[x][slot] = Theirs => tree[x][slot] = Theirs
    BY <2>4, <2>7 DEF Slots
  <2>9. CASE live # None /\ Turn(p, "backup", "claim", Request("backup", x), p)
    <3>1. /\ cmake'[p] = "backup" /\ helper'[p] = "claim" /\ Txn(p)' = x
      BY <1>2, <1>3, <2>9
    <3>2. Advanced(p)' /\ Finds(p)'
      BY <1>4, <1>6, <2>2, <2>3, <2>4, <3>1 DEF Advanced, Finds, Begun, Moving, Creating
    <3> QED BY <1>3, <1>7, <2>4, <2>5, <2>6, <2>8, <2>9, <3>2 DEF Owned
  <2>10. CASE live = None /\ Turn(p, "install", "none", task[p], p)
    <3>1. /\ cmake'[p] = "install" /\ helper'[p] = "none" /\ Txn(p)' = x /\ task[p].txn = x
      BY <1>2, <1>4, <2>10 DEF Txn
    <3>2. Advanced(p)' /\ Finds(p)'
      BY <1>4, <1>6, <2>2, <2>3, <2>4, <2>10, <3>1 DEF Advanced, Finds, Begun, Moving, Creating
    <3> QED BY <1>7, <2>4, <2>5, <2>6, <2>8, <2>10, <3>1, <3>2 DEF Building
  <2>11. CASE Turn(p, "restore", "claim", Request("restore", x), p)
    <3>1. /\ cmake'[p] = "restore" /\ helper'[p] = "claim" /\ Txn(p)' = x
      BY <1>2, <1>3, <2>11
    <3>2. Advanced(p)' /\ Finds(p)'
      BY <1>4, <1>6, <2>4, <3>1 DEF Advanced, Finds, Begun, Moving, Creating
    <3> QED BY <1>3, <1>7, <2>4, <2>5, <2>6, <2>8, <2>11, <3>2 DEF Owned
  <2> QED BY <1>0, <1>4, <1>9, <2>9, <2>10, <2>11, StepTurns DEF Txn
<1>10. CASE Install(p)
  <2>0. tree' = tree /\ cmake[p] = "install"
    BY <1>10 DEF Install
  <2>1. CASE Turn(p, "restore", "claim", Request("restore", x), p) /\ UNCHANGED <<health, marked>>
    BY <1>8, <2>0, <2>1
  <2>2. CASE ~(Turn(p, "restore", "claim", Request("restore", x), p) /\ UNCHANGED <<health, marked>>)
    <3>1. Turn(p, "prepare", "claim", Request("prepare", x), p)
      BY <1>0, <1>4, <1>10, <2>2, StepTurns DEF Txn
    <3>2. /\ cmake'[p] = "prepare" /\ helper'[p] = "claim" /\ Txn(p)' = x
      BY <1>2, <1>3, <3>1
    <3>3. marked' = marked \cup {x}
      BY <1>0, <1>4, <1>10, <3>2 DEF Install, Rollback, Enter, Txn
    <3>4. Advanced(p)' /\ (Unedited => Finds(p)')
      BY <1>4, <1>6, <2>0, <3>2, <3>3 DEF Advanced, Finds, Begun, Moving, Creating
    <3>5. Consistent(x)' /\ (Unedited => Situated(x)')
      BY <1>4, <1>6, <2>0 DEF Consistent, Situated, Unedited
    <3> QED BY <1>3, <1>7, <2>0, <3>1, <3>4, <3>5 DEF Owned
  <2> QED BY <2>1, <2>2
<1>11. CASE Relocate(p)
  <2>0. tree' = tree /\ marked' = marked /\ cmake[p] = "relocate"
    BY <1>11 DEF Relocate
  <2>1. CASE Turn(p, "restore", "claim", Request("restore", x), p) /\ UNCHANGED health
    BY <1>8, <2>0, <2>1
  <2>2. CASE ~(Turn(p, "restore", "claim", Request("restore", x), p) /\ UNCHANGED health)
    <3>1. Turn(p, "commit", "claim", Request("commit", x), p)
      BY <1>0, <1>4, <1>11, <2>2, StepTurns DEF Txn
    <3>2. /\ cmake'[p] = "commit" /\ helper'[p] = "claim" /\ Txn(p)' = x
      BY <1>2, <1>3, <3>1
    <3>3. live \in Transactions /\ health' = [health EXCEPT ![live] = "usable"]
      BY <1>11, <3>2, <1>0 DEF Relocate, Rollback, Enter
    <3>4. live = x
      BY <1>0, <1>4, <2>0, <3>3, EnvAssumption DEF Advanced, EnvAssumption
    <3>5. health'[x] = "usable"
      BY <1>0, <3>3, <3>4
    <3>6. Advanced(p)' /\ (Unedited => Finds(p)')
      BY <1>4, <1>6, <2>0, <3>2, <3>5 DEF Advanced, Finds, Begun, Moving, Creating
    <3>7. Consistent(x)' /\ (Unedited => Situated(x)')
      BY <1>4, <1>6, <2>0 DEF Consistent, Situated, Unedited
    <3> QED BY <1>3, <1>7, <2>0, <3>1, <3>6, <3>7 DEF Owned
  <2> QED BY <2>1, <2>2
<1> QED BY <1>9, <1>10, <1>11

---------------------------------------------------------------------------
(* The steps of a helper *)

(* What is known of a configure whose helper acts or is about to.           *)
LEMMA Helping ==
    ASSUME Quiet, NEW p \in Configures, helper[p] # "none"
    PROVE  /\ EnvBase /\ Inside(p) /\ cmake[p] \in Commands /\ helper[p] \in Steps /\ task[p] \in Tasks
           /\ task[p].cmd = cmake[p] \/ (cmake[p] = "create" /\ task[p].cmd = "abort")
           /\ Fits(cmake[p], helper[p], task[p])
           /\ Known(p) /\ Advanced(p) /\ Planning(p) /\ (Unedited => Finds(p))
           /\ \A q \in Configures \ {p} : ~Inside(q) /\ helper[q] = "none"
<1>1. /\ Inside(p) /\ Aware(p) /\ Fits(cmake[p], helper[p], task[p]) /\ task[p] \in Tasks
      /\ \A q \in Configures \ {p} : ~Inside(q) /\ helper[q] = "none"
      /\ EnvBase /\ cmake[p] \in Stages /\ helper[p] \in Steps
  BY Sole, Typed DEF Quiet
<1>2. cmake[p] \in Commands
  BY <1>1, Labels DEF Inside, Fits
<1> QED BY <1>1, <1>2 DEF Aware, Fits

(* The journal of a transaction leaves no room for another.                 *)
LEMMA Lone ==
    ASSUME Quiet, NEW x \in Transactions, journal[x] # None
    PROVE  /\ \A z \in Transactions \ {x} : journal[z] = None /\ tree[z] = NoTree
           /\ Consistent(x) /\ (Unedited => Situated(x)) /\ journal[x] \in Journals
<1>1. journal[x] \in Journals
  BY Typed DEF Quiet, OrNone
<1> QED BY <1>1 DEF Quiet, Accounted, Single, Consistent

(* A step of a helper on x accounts for everything when it accounts for x.  *)
LEMMA HelperAccount ==
    ASSUME Quiet, NEW p \in Configures, helper[p] # "none", NEW x \in Transactions,
           \A z \in Transactions \ {x} : journal[z] = None /\ journal'[z] = journal[z] /\ tree'[z] = tree[z],
           cmake' = cmake, suffered' = suffered, health' = health,
           Aware(p)', Consistent(x)', Unedited => Situated(x)', Smooth => Spared'
    PROVE  Accounted'
<1>1. Inside(p) /\ cmake[p] \notin {"idle", "done"}
  BY Sole DEF Inside, Outside
<1>2. UsedIsUsable'
  BY <1>1, NotUsed
<1>3. Single'
  BY DEF Single
<1>4. \A y \in Transactions : Consistent(y)' /\ (Unedited' => Situated(y)')
  <2>1. ASSUME NEW y \in Transactions \ {x} PROVE Consistent(y)' /\ Situated(y)'
    <3>1. journal'[y] = None /\ tree'[y] = NoTree
      BY DEF Quiet, Accounted, Consistent
    <3> QED BY <3>1 DEF Consistent, Situated
  <2> QED BY <2>1 DEF Unedited
<1> QED BY <1>1, <1>2, <1>3, <1>4, Focus DEF Smooth

(* A helper that gives up, or is made to, leaves everything as it is.       *)
LEMMA RefusalAware ==
    ASSUME Quiet, NEW p \in Configures, helper[p] # "none", cmake' = cmake, helper'[p] = "refused",
           task'[p].txn = task[p].txn, \A x \in Transactions : journal'[x] # None => journal[x] # None,
           \A x \in Transactions : x = Txn(p) =>
              /\ journal[x] # None => /\ journal'[x] # None /\ journal'[x].loc = journal[x].loc /\ journal'[x].print = journal[x].print
                    /\ journal'[x].previous = journal[x].previous /\ journal'[x].candidate = journal[x].candidate
                    /\ journal'[x].committed = journal[x].committed
              /\ journal[x] = None => journal'[x] = None,
           UNCHANGED <<live, tree, health, marked>>, suffered \subseteq suffered'
    PROVE  Aware(p)'
<1>1. /\ cmake[p] \in Commands /\ Known(p) /\ Advanced(p) /\ (Unedited => Finds(p)) /\ task[p] \in Tasks
      /\ Fits(cmake[p], helper[p], task[p])
  BY Helping
<1>2. Txn(p)' = Txn(p)
  BY DEF Txn
<1>3. Known(p)'
  BY <1>1, <1>2 DEF Known
<1>4. CASE cmake[p] \in {"recover", "create"}
  <2>1. Advanced(p)' /\ Finds(p)' /\ Planning(p)'
    BY <1>2, <1>4 DEF Advanced, Finds, Planning, Begun, Creating, Moving
  <2> QED BY <1>3, <2>1 DEF Aware
<1>5. CASE cmake[p] \in Owned
  <2>1. PICK x \in Transactions : x = Txn(p)
    BY <1>1, <1>5 DEF Fits, Tasks, OrNone, Txn
  <2>2. Txn(p)' = x /\ tree'[x] = tree[x] /\ Present' = Present /\ (Unedited' => Unedited)
    BY <1>2, <2>1 DEF Present, Unedited
  <2>3. Advanced(p)'
    BY <1>1, <1>5, <2>1, <2>2 DEF Advanced, Begun, Creating, Moving, Owned
  <2>4. Planning(p)'
    BY <2>2 DEF Planning, Creating, Moving
  <2>5. Unedited' => Finds(p)'
    BY <1>1, <1>5, <2>1, <2>2 DEF Finds, Begun, Creating, Moving, Owned
  <2> QED BY <1>3, <2>3, <2>4, <2>5 DEF Aware
<1> QED BY <1>1, <1>4, <1>5 DEF Commands

(* So it accounts for everything as before.                                 *)
LEMMA RefusalKeepsAccount ==
    ASSUME Quiet, NEW p \in Configures, helper[p] # "none", cmake' = cmake, helper'[p] = "refused",
           task'[p].txn = task[p].txn, UNCHANGED <<live, tree, journal, health, marked>>, suffered \subseteq suffered',
           Smooth' => Spared'
    PROVE  Accounted'
<1>1. Aware(p)'
  BY RefusalAware
<1>2. Single' /\ \A x \in Transactions : Consistent(x)' /\ (Unedited' => Situated(x)')
  BY Still
<1>3. cmake[p] \notin {"idle", "done"}
  BY Helping DEF Inside, Outside
<1>4. UsedIsUsable'
  BY <1>3, NotUsed
<1> QED BY <1>1, <1>2, <1>4, Focus

(* A helper that acts has a transaction, its own and the only one.          *)
LEMMA ActingQuiet ==
    ASSUME Quiet, NEW p \in Configures, helper[p] \in Acts
    PROVE  \E x \in Transactions :
              /\ x = Txn(p) /\ x # None /\ x # Theirs /\ journal[x] # None /\ journal[x] \in Journals /\ tree[x] \in Trees
              /\ \A z \in Transactions \ {x} : journal[z] = None /\ tree[z] = NoTree
              /\ Consistent(x) /\ (Unedited => Situated(x))
              /\ helper[p] # "none"
<1>1. task[p].txn \in Transactions /\ task[p].txn # None /\ journal[task[p].txn] # None /\ tree[task[p].txn] \in Trees
  BY Acting1, Typed DEF Quiet
<1>2. \A x \in Transactions : x # Theirs
  BY EnvAssumption DEF EnvAssumption
<1> QED BY <1>1, <1>2, Lone DEF Txn, Acts, Creating, Moving, Removing

(* Making the directory of a new transaction and what belongs in it.        *)
LEMMA CreatingKeepsAccount ==
    ASSUME Quiet, NEW p \in Configures,
           CreateOwner(p) \/ CreateDirectory(p) \/ CreateFingerprint(p) \/ BindFingerprint(p)
    PROVE  Accounted'
<1>0. /\ EnvBase /\ None \notin Environments /\ Transactions \subseteq Environments
      /\ tree \in [Transactions -> Trees] /\ journal \in [Transactions -> OrNone(Journals)]
      /\ helper \in [Configures -> Steps] /\ task \in [Configures -> Tasks] /\ None \notin Journals
  BY Typed DEF Quiet
<1>1. /\ helper[p] # "none" /\ cmake[p] = "create" /\ cmake' = cmake /\ health' = health /\ suffered' = suffered /\ live' = live
      /\ task[p].cmd = "create" /\ helper[p] # "moved"
      /\ Known(p) /\ Advanced(p) /\ Planning(p)
  <2>1. helper[p] \in {"claim"} \cup Creating /\ (helper[p] = "claim" => task[p].cmd = "create")
    BY DEF CreateOwner, CreateDirectory, CreateFingerprint, BindFingerprint, Creating
  <2>2. helper[p] \in Creating => task[p].cmd = "create"
    BY <2>1, Helping DEF Fits, Creating
  <2>3. cmake' = cmake /\ health' = health /\ suffered' = suffered /\ live' = live
    BY DEF CreateOwner, CreateDirectory, CreateFingerprint, BindFingerprint, GoTo, Continue, luck
  <2> QED BY <2>1, <2>2, <2>3, Helping DEF Creating
<1>2. ASSUME NEW x \in Transactions, Txn(p)' = x,
             \A z \in Transactions \ {x} : journal[z] = None /\ journal'[z] = journal[z] /\ tree'[z] = tree[z],
             Advanced(p)', Planning(p)', helper'[p] \notin Moving \cup {"bind"}, Consistent(x)', Unedited => Situated(x)',
             \A slot \in Slots : tree'[x][slot] # Theirs
      PROVE  Accounted'
  <2>1. Known(p)'
    BY <1>1, <1>2 DEF Known
  <2>2. Finds(p)'
    BY <1>1, <1>2 DEF Finds, Moving
  <2>3. Smooth => Spared'
    <3>1. Inside(p)
      BY <1>1, Helping
    <3> QED BY <1>1, <1>2, <3>1, SparedStill DEF Smooth
  <2> QED BY <1>1, <1>2, <2>1, <2>2, <2>3, HelperAccount DEF Aware
<1>3. None # Theirs /\ \A x \in Transactions : x # Theirs /\ x # None
  BY <1>0, EnvAssumption DEF EnvAssumption, Environments
<1>4. CASE CreateOwner(p)
  <2>1. PICK x \in Transactions : x = CHOOSE y \in Fresh : TRUE
    BY <1>0, <1>4, FreshName DEF CreateOwner
  <2>2. journal[x] = None /\ tree[x] = NoTree /\ x \notin Present
    BY <1>0, <1>4, <2>1, FreshName DEF CreateOwner
  <2>3. /\ journal' = [journal EXCEPT ![x] = Unbound] /\ tree' = tree /\ helper'[p] = "mkdir" /\ Txn(p)' = x
        /\ helper[p] = "claim"
    BY <1>0, <1>4, <2>1 DEF CreateOwner, Txn, Tasks
  <2>4. \A z \in Transactions : journal[z] = None
    BY <1>0, <1>1, <2>3 DEF Known, Advanced
  <2>5. journal'[x] = Unbound /\ tree'[x] = NoTree /\ Present' = Present
    BY <1>0, <1>1, <2>2, <2>3 DEF Present
  <2>6. Advanced(p)'
    BY <1>1, <2>2, <2>3, <2>5 DEF Advanced, Begun
  <2>7. Planning(p)'
    BY <2>3, <2>5 DEF Planning, Creating, Moving
  <2>8. Consistent(x)' /\ Situated(x)'
    <3>1. journal'[x] # None
      BY <1>0, <2>5, Typed
    <3> QED BY <1>3, <2>5, <3>1 DEF Consistent, Situated, Unbound, NoTree
  <2>9. \A slot \in Slots : tree'[x][slot] # Theirs
    BY <1>0, <2>5 DEF Slots, NoTree, Environments
  <2> QED BY <1>2, <2>3, <2>4, <2>6, <2>7, <2>8, <2>9 DEF Moving
<1>5. ASSUME ~CreateOwner(p)
      PROVE  \E x \in Transactions :
              /\ x = Txn(p) /\ journal[x] # None /\ journal[x] \in Journals /\ tree[x] \in Trees
              /\ \A z \in Transactions \ {x} : journal[z] = None /\ tree[z] = NoTree
              /\ Consistent(x)
  <2>1. helper[p] \in Acts
    BY <1>5 DEF CreateDirectory, CreateFingerprint, BindFingerprint, Acts, Creating
  <2> QED BY <2>1, ActingQuiet
<1>6. CASE ~CreateOwner(p) /\ CreateDirectory(p)
  <2>1. PICK x \in Transactions :
              /\ x = Txn(p) /\ journal[x] # None /\ journal[x] \in Journals /\ tree[x] \in Trees
              /\ \A z \in Transactions \ {x} : journal[z] = None /\ tree[z] = NoTree
              /\ Consistent(x)
    BY <1>5, <1>6
  <2>2. /\ helper[p] = "mkdir" /\ helper'[p] = "print" /\ Txn(p)' = x
        /\ tree' = [tree EXCEPT ![x].at = "path"] /\ journal' = [journal EXCEPT ![x].loc = "original"]
    BY <1>0, <1>6, <2>1 DEF CreateDirectory, GoTo, Txn
  <2>3. journal[x] = Unbound /\ tree[x] = NoTree /\ x \notin Present
    <3>1. journal[x] = Unbound
      BY <1>1, <2>1, <2>2 DEF Planning
    <3>2. journal[x].loc = "creating"
      BY <3>1 DEF Unbound
    <3>3. tree[x] = NoTree
      BY <2>1, <3>2 DEF Consistent
    <3> QED BY <1>1, <2>1, <2>2, <3>1, <3>3 DEF Advanced, Creating
  <2>4. /\ tree'[x].at = "path" /\ tree'[x].staging = None /\ tree'[x].previous = None /\ tree'[x].discarded = None
        /\ journal'[x].loc = "original" /\ ~journal'[x].print /\ journal'[x].previous = None /\ journal'[x].candidate = None
        /\ journal'[x].committed = None /\ ~journal'[x].tainted /\ journal'[x] # None
    <3>1. journal'[x] = [Unbound EXCEPT !.loc = "original"] /\ tree'[x] = [NoTree EXCEPT !.at = "path"]
      BY <1>0, <2>1, <2>2, <2>3
    <3>2. journal'[x] \in Journals
      BY <2>1, <2>3, <3>1 DEF Journals
    <3> QED BY <1>0, <3>1, <3>2 DEF Unbound, NoTree
  <2>5. Present' = Present
    <3>1. \A z \in Transactions, slot \in Slots : tree'[z][slot] = tree[z][slot]
      BY <1>0, <2>2 DEF Trees, Slots
    <3> QED BY <1>1, <3>1 DEF Present
  <2>6. Advanced(p)' /\ Planning(p)'
    BY <1>1, <2>2, <2>3, <2>4, <2>5 DEF Advanced, Planning, Begun, Creating, Moving
  <2>7. live # x
    BY <1>3, <2>3 DEF Present
  <2>8. Consistent(x)' /\ Situated(x)'
    BY <1>1, <1>3, <2>4, <2>7 DEF Consistent, Situated
  <2>9. \A slot \in Slots : tree'[x][slot] # Theirs
    BY <1>0, <2>4 DEF Slots, Environments
  <2>10. \A z \in Transactions \ {x} : journal[z] = None /\ journal'[z] = journal[z] /\ tree'[z] = tree[z]
    BY <1>0, <2>1, <2>2
  <2> QED BY <1>2, <2>2, <2>6, <2>8, <2>9, <2>10 DEF Moving
<1>7. CASE ~CreateOwner(p) /\ (CreateFingerprint(p) \/ BindFingerprint(p))
  <2>1. PICK x \in Transactions :
              /\ x = Txn(p) /\ journal[x] # None /\ journal[x] \in Journals /\ tree[x] \in Trees
              /\ \A z \in Transactions \ {x} : journal[z] = None /\ tree[z] = NoTree
              /\ Consistent(x)
    BY <1>5, <1>7
  <2>2. helper[p] \in {"print", "bind_print"} /\ journal[x].loc = "original" /\ ~journal[x].print /\ x \notin Present
        /\ tree[x].at = "path" /\ tree[x].staging = None /\ tree[x].previous = None /\ tree[x].discarded = None
        /\ journal[x].previous = None /\ journal[x].candidate = None /\ journal[x].committed = None /\ ~journal[x].tainted
    <3>1. helper[p] \in {"print", "bind_print"}
      BY <1>7 DEF CreateFingerprint, BindFingerprint
    <3>2. journal[x].loc = "original" /\ ~journal[x].print
      BY <1>1, <2>1, <3>1 DEF Planning
    <3>3. x \notin Present
      BY <1>1, <2>1, <3>1 DEF Advanced, Creating
    <3> QED BY <2>1, <3>1, <3>2, <3>3 DEF Consistent
  <2>3. live # x
    BY <1>3, <2>2 DEF Present
  <2>4. CASE CreateFingerprint(p)
    <3>1. /\ helper'[p] = "bind_print" /\ Txn(p)' = x /\ journal' = journal /\ tree' = [tree EXCEPT ![x].print = TRUE]
      BY <1>0, <2>1, <2>4 DEF CreateFingerprint, GoTo, Txn
    <3>2. /\ tree'[x].print /\ tree'[x].at = "path" /\ \A slot \in Slots : tree'[x][slot] = None
      BY <1>0, <2>2, <3>1 DEF Trees, Slots
    <3>3. \A z \in Transactions \ {x} : journal[z] = None /\ journal'[z] = journal[z] /\ tree'[z] = tree[z]
      BY <1>0, <2>1, <3>1
    <3>4. Present' = Present
      <4>1. \A z \in Transactions, slot \in Slots : tree'[z][slot] = tree[z][slot]
        BY <1>0, <3>1 DEF Trees, Slots
      <4> QED BY <1>1, <4>1 DEF Present
    <3>5. Advanced(p)' /\ Planning(p)'
      BY <1>1, <2>2, <3>1, <3>2, <3>4 DEF Advanced, Planning, Begun, Creating, Moving
    <3>6. Consistent(x)' /\ Situated(x)'
      BY <1>1, <1>3, <2>1, <2>2, <2>3, <3>1, <3>2 DEF Consistent, Situated, Slots
    <3>7. \A slot \in Slots : tree'[x][slot] # Theirs
      BY <1>0, <3>2 DEF Environments
    <3> QED BY <1>2, <3>1, <3>3, <3>5, <3>6, <3>7 DEF Moving
  <2>5. CASE BindFingerprint(p)
    <3>1. /\ helper[p] = "bind_print" /\ helper'[p] = "ok" /\ Txn(p)' = x /\ tree' = tree
          /\ journal' = [journal EXCEPT ![x].print = TRUE]
      BY <1>0, <1>1, <2>1, <2>5 DEF BindFingerprint, Continue, Txn, Tasks
    <3>2. /\ journal'[x] # None /\ journal'[x].print /\ journal'[x].loc = "original" /\ journal'[x].previous = None
          /\ journal'[x].candidate = None /\ journal'[x].committed = None /\ ~journal'[x].tainted /\ tree[x].print
      <4>1. journal'[x] = [journal[x] EXCEPT !.print = TRUE] /\ journal'[x] \in Journals
        BY <1>0, <2>1, <3>1 DEF Journals
      <4> QED BY <1>0, <1>1, <2>1, <2>2, <3>1, <4>1 DEF Journals, Planning
    <3>3. \A z \in Transactions \ {x} : journal[z] = None /\ journal'[z] = journal[z] /\ tree'[z] = tree[z]
      BY <1>0, <2>1, <3>1
    <3>4. Present' = Present
      BY <1>1, <3>1 DEF Present
    <3>5. Advanced(p)' /\ Planning(p)'
      BY <1>1, <2>2, <3>1, <3>2, <3>4 DEF Advanced, Planning, Begun, Creating, Moving
    <3>6. Consistent(x)' /\ Situated(x)'
      BY <1>1, <1>3, <2>1, <2>2, <2>3, <3>1, <3>2 DEF Consistent, Situated
    <3>7. \A slot \in Slots : tree'[x][slot] # Theirs
      BY <1>0, <2>2, <3>1 DEF Slots, Environments
    <3> QED BY <1>2, <3>1, <3>3, <3>5, <3>6, <3>7 DEF Moving
  <2> QED BY <1>7, <2>4, <2>5
<1> QED BY <1>4, <1>6, <1>7

(* Where a helper goes with a plan.                                         *)
LEMMA Continuing ==
    ASSUME Quiet, NEW p \in Configures, NEW x \in Transactions, NEW ops \in Todos, Continue(p, x, ops)
    PROVE  /\ helper'[p] = Label(p, ops) /\ Txn(p)' = x /\ task'[p].txn = x /\ task'[p].todo = ops /\ task'[p].cmd = task[p].cmd
           /\ MoveOf(p)' = Head(ops) /\ cmake' = cmake /\ UNCHANGED <<health, marked>> /\ suffered' = suffered
           /\ task'[p].left = task[p].left \ {x}
BY Typed DEF Quiet, Continue, Label, Txn, MoveOf, luck, Tasks

(* The label of each plan.                                                  *)
LEMMA PlanLabels ==
    ASSUME NEW p, NEW e
    PROVE  /\ Label(p, Backing(e)) = "bind" /\ Label(p, Naming(e)) = "bind" /\ Label(p, Sealing(e)) = "bind"
           /\ Label(p, Stashing(e)) = "move" /\ Label(p, Promoting(e)) = "move" /\ Label(p, Discarding(e)) = "move"
           /\ Label(p, Returning(e)) = "move" /\ Label(p, Cleaning) = "cleanup"
           /\ \A f : Label(p, Swapping(e, f)) = "move"
<1>1. \A l, f : Bind(l, f).op = "bind"
  BY DEF Bind
<1>2. \A s, d, f : Move(s, d, f).op = "move"
  BY DEF Move
<1>3. CleanUp.op = "cleanup"
  BY DEF CleanUp
<1>4. ASSUME NEW ops, ops # <<>> PROVE Label(p, ops) = Head(ops).op
  BY <1>4, Zenon DEF Label
<1>5. /\ Label(p, Backing(e)) = "bind" /\ Label(p, Naming(e)) = "bind" /\ Label(p, Sealing(e)) = "bind"
  <2>1. Label(p, Backing(e)) = "bind"
    <3>1. Backing(e) # <<>> /\ Head(Backing(e)) = Bind("previous", e)
      BY Plans
    <3>2. Label(p, Backing(e)) = Head(Backing(e)).op
      BY <1>4, <3>1
    <3> QED BY <1>1, <3>1, <3>2
  <2>2. Label(p, Naming(e)) = "bind"
    <3>1. Naming(e) # <<>> /\ Head(Naming(e)) = Bind("candidate", e)
      BY Plans
    <3>2. Label(p, Naming(e)) = Head(Naming(e)).op
      BY <1>4, <3>1
    <3> QED BY <1>1, <3>1, <3>2
  <2>3. Label(p, Sealing(e)) = "bind"
    <3>1. Sealing(e) # <<>> /\ Head(Sealing(e)) = Bind("committed", e)
      BY Plans
    <3>2. Label(p, Sealing(e)) = Head(Sealing(e)).op
      BY <1>4, <3>1
    <3> QED BY <1>1, <3>1, <3>2
  <2> QED BY <2>1, <2>2, <2>3
<1>6. /\ Label(p, Stashing(e)) = "move" /\ Label(p, Promoting(e)) = "move" /\ Label(p, Discarding(e)) = "move"
      /\ Label(p, Returning(e)) = "move" /\ Label(p, Cleaning) = "cleanup"
  BY <1>2, <1>3, <1>4, Plans
<1>7. ASSUME NEW f PROVE Label(p, Swapping(e, f)) = "move"
  <2>1. Swapping(e, f) # <<>> /\ Head(Swapping(e, f)) = Move("live", "discarded", e)
    BY Plans
  <2> QED BY <1>2, <1>4, <2>1
<1> QED BY <1>5, <1>6, <1>7

(* The fields of an operation.                                              *)
LEMMA Fields ==
    ASSUME NEW e
    PROVE  /\ \A label : Bind(label, e).label = label /\ Bind(label, e).env = e
           /\ \A src, dst : Move(src, dst, e).src = src /\ Move(src, dst, e).dst = dst /\ Move(src, dst, e).env = e
BY DEF Bind, Move

(* A command that the journal allows leads to a plan that it allows.        *)
LEMMA CommandKeepsAccount ==
    ASSUME Quiet, NEW p \in Configures, Command(p)
    PROVE  Accounted'
<1>0. /\ EnvBase /\ None \notin Environments /\ Transactions \subseteq Environments /\ Environments \subseteq Somewhere
      /\ tree \in [Transactions -> Trees] /\ journal \in [Transactions -> OrNone(Journals)]
      /\ helper \in [Configures -> Steps] /\ task \in [Configures -> Tasks] /\ None \notin Journals
  BY Typed DEF Quiet, Somewhere, OrNone
<1>1. /\ helper[p] = "claim" /\ task[p].cmd = cmake[p] /\ cmake[p] \in Owned
      /\ Known(p) /\ Advanced(p) /\ Planning(p) /\ (Unedited => Finds(p))
  <2>1. helper[p] = "claim" /\ task[p].cmd \notin {"create", "recover"}
    BY DEF Command
  <2> QED BY <2>1, Helping DEF Fits, Commands, Owned
<1>2. PICK x \in Transactions : x = Txn(p)
  BY <1>0, <1>1, TurnFits DEF Txn
<1>3. CASE Claimable(x) /\ Demands(task[p].cmd, x)
  <2> DEFINE j == journal[x]  ops == Operations(task[p].cmd, x)
  <2>1. /\ journal[x] # None /\ ~journal[x].tainted /\ journal[x].print
        /\ Continue(p, x, ops) /\ UNCHANGED <<live, tree, journal>>
    BY <1>2, <1>3 DEF Command, Claimable, Txn
  <2>2. /\ \A z \in Transactions \ {x} : journal[z] = None
        /\ Consistent(x) /\ (Unedited => Situated(x)) /\ journal[x] \in Journals
    BY <2>1, Lone
  <2>3. ASSUME ops \in Todos, Advanced(p)', Planning(p)', Unedited => Finds(p)'
        PROVE  Accounted'
    <3>1. cmake' = cmake /\ UNCHANGED <<health, marked>> /\ suffered' = suffered /\ Txn(p)' = x
      BY <2>1, <2>3, Continuing
    <3>2. Known(p)'
      BY <1>1, <2>1, <2>2, <3>1 DEF Known, Owned
    <3>3. Aware(p)'
      BY <2>3, <3>1, <3>2 DEF Aware, Unedited
    <3>4. Consistent(x)' /\ (Unedited' => Situated(x)')
      BY <2>1, <3>1, Still
    <3>5. Smooth' => Spared'
      BY <1>1, <2>1, <3>1, SparedStill
    <3> QED BY <1>1, <2>1, <2>2, <3>1, <3>3, <3>4, <3>5, HelperAccount DEF Unedited, Smooth
  <2>4. /\ \/ task[p].cmd = "backup" /\ ReadyLive /\ live \in Environments /\ ops = Backing(live)
           \/ task[p].cmd = "prepare" /\ tree[x].staging = x /\ x \in marked /\ ops = Naming(x)
           \/ task[p].cmd = "promote" /\ j.candidate # None /\ j.candidate \in Transactions /\ ops = Promoting(j.candidate)
           \/ task[p].cmd = "commit" /\ ReadyLive /\ live \in Environments /\ j.candidate = live /\ ops = Sealing(live)
           \/ task[p].cmd = "cleanup" /\ ops = Cleaning
           \/ /\ task[p].cmd = "restore" /\ (live # None => j.candidate # None /\ j.candidate \in Transactions)
              /\ j.candidate \in Somewhere /\ j.previous \in Somewhere
              /\ ops = IF live = None THEN IF j.previous = None THEN Cleaning ELSE Returning(j.previous)
                       ELSE IF j.previous = None THEN Discarding(j.candidate) ELSE Swapping(j.candidate, j.previous)
    BY <1>0, <1>1, <1>2, <1>3, CommandGoes DEF Txn
  <2>5. ASSUME NEW plan \in Todos, ops = plan
        PROVE  /\ helper'[p] = Label(p, plan) /\ Txn(p)' = x /\ task'[p].todo = plan /\ task'[p].cmd = task[p].cmd
               /\ cmake'[p] = cmake[p] /\ journal'[x] = journal[x] /\ tree'[x] = tree[x] /\ live' = live /\ marked' = marked
               /\ health'[x] = health[x] /\ Present' = Present
    BY <2>1, <2>5, Continuing DEF Present
  <2>6. /\ j.loc = "original" /\ j.print
    BY <1>1, <1>2, <2>1 DEF Advanced, Begun, Owned
  <2>7. CASE task[p].cmd = "backup"
    <3>1. ops = Backing(live) /\ live \in Environments /\ live \in marked
      BY <2>4, <2>7 DEF ReadyLive
    <3>2. Backing(live) \in Todos /\ Head(Backing(live)).env = live /\ Label(p, Backing(live)) = "bind"
      BY <1>0, <3>1, Planned, Plans, PlanLabels, Fields
    <3>3. live # Theirs /\ live # x
      BY <1>0, <1>1, <1>2, <2>7, <3>1 DEF EnvBase, EnvTyped, Advanced
    <3>4. /\ helper'[p] = "bind" /\ Txn(p)' = x /\ task'[p].todo = Backing(live) /\ task'[p].cmd = "backup" /\ cmake'[p] = "backup"
          /\ journal'[x] = journal[x] /\ tree'[x] = tree[x] /\ live' = live /\ Present' = Present
      BY <1>1, <2>5, <2>7, <3>1, <3>2
    <3>5. Advanced(p)'
      BY <1>1, <1>2, <2>7, <3>4 DEF Advanced, Begun
    <3>6. Planning(p)'
      BY <2>1, <2>6, <3>1, <3>3, <3>4 DEF Planning, Creating, Moving
    <3>7. Finds(p)'
      BY <3>2, <3>4 DEF Finds, Moving
    <3> QED BY <2>3, <3>1, <3>2, <3>5, <3>6, <3>7
  <2>8. CASE task[p].cmd = "prepare"
    <3>1. ops = Naming(x) /\ Naming(x) \in Todos /\ Label(p, Naming(x)) = "bind"
      BY <2>4, <2>8, Planned, PlanLabels DEF Own, OrNone
    <3>2. /\ helper'[p] = "bind" /\ Txn(p)' = x /\ task'[p].todo = Naming(x) /\ task'[p].cmd = "prepare" /\ cmake'[p] = "prepare"
          /\ journal'[x] = journal[x] /\ tree'[x] = tree[x] /\ live' = live /\ marked' = marked
      BY <1>1, <2>5, <2>8, <3>1
    <3>3. Advanced(p)' /\ (Unedited => Finds(p)')
      BY <1>1, <1>2, <2>8, <3>2 DEF Advanced, Finds, Begun, Moving
    <3>4. Planning(p)'
      BY <2>1, <2>6, <3>2 DEF Planning, Creating, Moving
    <3> QED BY <2>3, <3>1, <3>3, <3>4
  <2>9. CASE task[p].cmd = "promote"
    <3>1. j.candidate = x /\ ops = Promoting(x) /\ Promoting(x) \in Todos /\ Label(p, Promoting(x)) = "move"
      BY <1>0, <2>1, <2>2, <2>4, <2>9, Planned, PlanLabels DEF Consistent
    <3>2. /\ helper'[p] = "move" /\ Txn(p)' = x /\ task'[p].todo = Promoting(x) /\ task'[p].cmd = "promote" /\ cmake'[p] = "promote"
          /\ journal'[x] = journal[x] /\ tree'[x] = tree[x] /\ live' = live /\ marked' = marked
      BY <1>1, <2>5, <2>9, <3>1
    <3>3. Advanced(p)' /\ (Unedited => Finds(p)')
      BY <1>1, <1>2, <2>9, <3>2 DEF Advanced, Finds, Begun, Moving
    <3>4. Planning(p)'
      BY <2>1, <2>6, <3>1, <3>2 DEF Planning, Creating, Moving
    <3> QED BY <2>3, <3>1, <3>3, <3>4
  <2>10. CASE task[p].cmd = "commit"
    <3>1. live = x /\ j.candidate = x /\ ops = Sealing(x) /\ Sealing(x) \in Todos /\ Label(p, Sealing(x)) = "bind"
          /\ Head(Sealing(x)).env = x
      <4>1. live = x /\ j.candidate = x /\ ops = Sealing(x) /\ x \in Somewhere
        BY <1>0, <2>1, <2>2, <2>4, <2>10 DEF Consistent
      <4> QED BY <4>1, Planned, Plans, PlanLabels, Fields
    <3>2. /\ helper'[p] = "bind" /\ Txn(p)' = x /\ task'[p].todo = Sealing(x) /\ task'[p].cmd = "commit" /\ cmake'[p] = "commit"
          /\ journal'[x] = journal[x] /\ tree'[x] = tree[x] /\ live' = live /\ marked' = marked /\ health'[x] = health[x]
      BY <1>1, <2>5, <2>10, <3>1
    <3>3. Advanced(p)' /\ (Unedited => Finds(p)')
      BY <1>1, <1>2, <2>10, <3>1, <3>2 DEF Advanced, Finds, Begun, Moving
    <3>4. Planning(p)'
      BY <2>1, <2>6, <3>1, <3>2 DEF Planning, Creating, Moving
    <3> QED BY <2>3, <3>1, <3>3, <3>4
  <2>11. CASE task[p].cmd = "cleanup"
    <3>1. ops = Cleaning /\ Cleaning \in Todos /\ Label(p, Cleaning) = "cleanup"
      BY <2>4, <2>11, Planned, PlanLabels
    <3>2. /\ helper'[p] = "cleanup" /\ Txn(p)' = x /\ cmake'[p] = "cleanup"
          /\ journal'[x] = journal[x] /\ tree'[x] = tree[x] /\ live' = live /\ marked' = marked /\ health'[x] = health[x]
      BY <1>1, <2>5, <2>11, <3>1
    <3>3. Advanced(p)' /\ (Unedited => Finds(p)')
      BY <1>1, <1>2, <2>11, <3>2 DEF Advanced, Finds, Begun, Moving
    <3>4. Planning(p)'
      BY <1>1, <1>2, <2>1, <2>6, <2>11, <3>2 DEF Planning, Advanced, Creating, Moving
    <3> QED BY <2>3, <3>1, <3>3, <3>4
  <2>12. CASE task[p].cmd = "restore"
    <3>1. /\ j.committed = None /\ (live # None => j.candidate = x)
          /\ (j.previous = None => tree[x].previous = None)
      BY <1>0, <1>1, <1>2, <2>1, <2>2, <2>4, <2>12 DEF Consistent, Advanced
    <3>2. \/ ops = Cleaning /\ j.previous = None
          \/ ops = Returning(j.previous) /\ j.previous # None
          \/ ops = Discarding(x) /\ j.previous = None
          \/ ops = Swapping(x, j.previous) /\ j.previous # None
      BY <2>4, <2>12, <3>1
    <3>3. j.previous \in Somewhere /\ x \in Somewhere
      BY <1>0, <2>4, <2>12
    <3>4. Cleaning \in Todos /\ Returning(j.previous) \in Todos /\ Discarding(x) \in Todos /\ Swapping(x, j.previous) \in Todos
      BY <3>3, Planned
    <3>5. ASSUME NEW h \in {"cleanup", "move"}, NEW plan \in Todos, ops = plan, Label(p, plan) = h
          PROVE  /\ helper'[p] = h /\ Txn(p)' = x /\ cmake'[p] = "restore" /\ task'[p].cmd = "restore" /\ task'[p].todo = plan
                 /\ journal'[x] = journal[x] /\ tree'[x] = tree[x]
                 /\ Advanced(p)' /\ Finds(p)'
      <4>1. /\ helper'[p] = h /\ Txn(p)' = x /\ cmake'[p] = "restore" /\ task'[p].cmd = "restore" /\ task'[p].todo = plan
            /\ journal'[x] = journal[x] /\ tree'[x] = tree[x]
        BY <1>1, <2>5, <2>12, <3>5
      <4>2. Advanced(p)' /\ Finds(p)'
        BY <3>1, <3>5, <4>1 DEF Advanced, Finds, Begun, Creating, Moving
      <4> QED BY <4>1, <4>2
    <3>6. CASE ops = Cleaning /\ j.previous = None
      <4>1. /\ helper'[p] = "cleanup" /\ Txn(p)' = x /\ journal'[x] = journal[x] /\ tree'[x] = tree[x] /\ Advanced(p)' /\ Finds(p)'
        BY <3>4, <3>5, <3>6, PlanLabels
      <4>2. Planning(p)'
        BY <2>1, <2>6, <3>1, <3>6, <4>1 DEF Planning, Creating, Moving
      <4> QED BY <2>3, <3>4, <3>6, <4>1, <4>2
    <3>7. CASE ops = Returning(j.previous) /\ j.previous # None
      <4>1. /\ helper'[p] = "move" /\ Txn(p)' = x /\ task'[p].cmd = "restore" /\ task'[p].todo = Returning(j.previous)
            /\ journal'[x] = journal[x] /\ tree'[x] = tree[x] /\ Advanced(p)' /\ Finds(p)'
        BY <3>4, <3>5, <3>7, PlanLabels
      <4>2. Planning(p)'
        BY <2>1, <2>6, <3>1, <3>7, <4>1 DEF Planning, Creating, Moving
      <4> QED BY <2>3, <3>4, <3>7, <4>1, <4>2
    <3>8. CASE ops = Discarding(x) /\ j.previous = None
      <4>1. /\ helper'[p] = "move" /\ Txn(p)' = x /\ task'[p].cmd = "restore" /\ task'[p].todo = Discarding(x)
            /\ journal'[x] = journal[x] /\ tree'[x] = tree[x] /\ Advanced(p)' /\ Finds(p)'
        BY <3>4, <3>5, <3>8, PlanLabels
      <4>2. Planning(p)'
        BY <2>1, <2>6, <3>1, <3>8, <4>1 DEF Planning, Creating, Moving
      <4> QED BY <2>3, <3>4, <3>8, <4>1, <4>2
    <3>9. CASE ops = Swapping(x, j.previous) /\ j.previous # None
      <4>0. Label(p, Swapping(x, j.previous)) = "move"
        BY PlanLabels
      <4>1. /\ helper'[p] = "move" /\ Txn(p)' = x /\ task'[p].cmd = "restore" /\ task'[p].todo = Swapping(x, j.previous)
            /\ journal'[x] = journal[x] /\ tree'[x] = tree[x] /\ Advanced(p)' /\ Finds(p)'
        BY <3>4, <3>5, <3>9, <4>0
      <4>2. Planning(p)'
        BY <2>1, <2>6, <3>1, <3>9, <4>1 DEF Planning, Creating, Moving
      <4> QED BY <2>3, <3>4, <3>9, <4>1, <4>2
    <3> QED BY <3>2, <3>6, <3>7, <3>8, <3>9
  <2> QED BY <1>1, <2>7, <2>8, <2>9, <2>10, <2>11, <2>12 DEF Owned
<1>4. CASE ~(Claimable(x) /\ Demands(task[p].cmd, x))
  <2>1. Refuses(p)
    BY <1>2, <1>4 DEF Command, Txn
  <2>2. cmake' = cmake /\ helper'[p] = "refused" /\ task' = task /\ UNCHANGED <<live, tree, journal, health, marked>>
        /\ suffered' = suffered
    BY <1>0, <2>1 DEF Refuses, Answers, luck
  <2>3. Smooth' => Spared'
    BY <1>1, <2>2, SparedStill
  <2> QED BY <1>1, <2>2, <2>3, RefusalKeepsAccount
<1> QED BY <1>3, <1>4

(* A helper that acts on x accounts for everything when it accounts for x,  *)
(* and for what its configure knows of x.                                   *)
LEMMA ActKeepsAccount ==
    ASSUME Quiet, NEW p \in Configures, helper[p] \in Acts, NEW x \in Transactions, x = Txn(p), Txn(p)' = x,
           cmake[p] = "recover" => helper'[p] # "ok" /\ (helper'[p] = "claim" => journal'[x] = None),
           \A z \in Transactions \ {x} : journal'[z] = journal[z] /\ tree'[z] = tree[z],
           cmake' = cmake, suffered' = suffered, health' = health,
           Advanced(p)', Planning(p)', Unedited => Finds(p)', Consistent(x)', Unedited => Situated(x)',
           Smooth => Spared'
    PROVE  Accounted'
<1>1. helper[p] # "none" /\ \A z \in Transactions \ {x} : journal[z] = None
  BY ActingQuiet
<1>2. Known(p)'
  BY <1>1 DEF Known
<1>3. Aware(p)'
  BY <1>2 DEF Aware, Unedited
<1> QED BY <1>1, <1>3, HelperAccount

(* What the helper records is what it found.                                *)
LEMMA BindKeepsAccount ==
    ASSUME Quiet, NEW p \in Configures, BindIdentity(p)
    PROVE  Accounted'
<1>0. /\ EnvBase /\ None \notin Environments /\ Transactions \subseteq Environments /\ Environments \subseteq Somewhere
      /\ tree \in [Transactions -> Trees] /\ journal \in [Transactions -> OrNone(Journals)]
      /\ helper \in [Configures -> Steps] /\ task \in [Configures -> Tasks] /\ None \notin Journals
  BY Typed DEF Quiet, Somewhere, OrNone
<1>1. /\ helper[p] = "bind" /\ helper[p] \in Acts /\ helper[p] # "moved" /\ task[p].cmd = cmake[p]
      /\ task[p].cmd \in {"backup", "prepare", "commit"} /\ Inside(p)
      /\ Advanced(p) /\ Planning(p) /\ (Unedited => Finds(p))
  <2>1. helper[p] = "bind" /\ helper[p] \in Acts
    BY DEF BindIdentity, Acts
  <2> QED BY <2>1, Helping DEF Fits
<1>2. PICK x \in Transactions :
              /\ x = Txn(p) /\ x # None /\ x # Theirs /\ journal[x] # None /\ journal[x] \in Journals /\ tree[x] \in Trees
              /\ \A z \in Transactions \ {x} : journal[z] = None /\ tree[z] = NoTree
              /\ Consistent(x) /\ (Unedited => Situated(x))
  BY <1>1, ActingQuiet
<1> DEFINE j == journal[x]
<1>3. /\ j.loc = "original" /\ j.print /\ ~j.tainted
      /\ \/ \E e \in Environments \ {Theirs, x} : task[p].todo = Backing(e) /\ task[p].cmd = "backup"
         \/ task[p].todo = Naming(x) /\ task[p].cmd = "prepare"
         \/ task[p].todo = Sealing(x) /\ task[p].cmd = "commit" /\ j.candidate = x
  BY <1>1, <1>2 DEF Planning
<1>4. ASSUME NEW label \in {"previous", "candidate", "committed"}, NEW e, NEW rest \in Todos, Head(task[p].todo) = Bind(label, e), Tail(task[p].todo) = rest
      PROVE  /\ journal'[x] \in Journals /\ journal'[x] # None /\ journal'[x].loc = "original" /\ journal'[x].print
             /\ ~journal'[x].tainted /\ journal'[x].tainted = j.tainted
             /\ journal'[x].previous = IF label = "previous" THEN e ELSE j.previous
             /\ journal'[x].candidate = IF label = "candidate" THEN e ELSE j.candidate
             /\ journal'[x].committed = IF label = "committed" THEN e ELSE j.committed
             /\ \A z \in Transactions \ {x} : journal'[z] = journal[z]
             /\ helper'[p] = Label(p, rest) /\ Txn(p)' = x /\ task'[p].todo = rest /\ task'[p].cmd = task[p].cmd
             /\ cmake' = cmake /\ tree' = tree /\ live' = live /\ marked' = marked /\ health' = health /\ suffered' = suffered
             /\ cmake'[p] = cmake[p] /\ tree'[x] = tree[x] /\ health'[x] = health[x]
  <2> DEFINE op == Head(task[p].todo)
  <2>1. op.label = label /\ op.env = e
    BY <1>4, Fields
  <2>2. /\ Continue(p, x, rest) /\ UNCHANGED <<live, tree>>
        /\ journal' = [journal EXCEPT ![x][op.label] = op.env]
    BY <1>2, <1>4 DEF BindIdentity, Txn
  <2>3. /\ journal'[x] = [journal[x] EXCEPT ![op.label] = op.env]
        /\ \A z \in Transactions \ {x} : journal'[z] = journal[z]
    BY <1>0, <2>2
  <2>4. journal'[x] \in Journals
    BY <1>0, <1>1, <1>2, <2>3, Recorded
  <2>5. /\ helper'[p] = Label(p, rest) /\ Txn(p)' = x /\ task'[p].todo = rest /\ task'[p].cmd = task[p].cmd
        /\ cmake' = cmake /\ UNCHANGED <<health, marked>> /\ suffered' = suffered
    BY <2>2, Continuing
  <2>6. /\ journal'[x].loc = j.loc /\ journal'[x].print = j.print /\ journal'[x].tainted = j.tainted
        /\ journal'[x].previous = IF label = "previous" THEN e ELSE j.previous
        /\ journal'[x].candidate = IF label = "candidate" THEN e ELSE j.candidate
        /\ journal'[x].committed = IF label = "committed" THEN e ELSE j.committed
    BY <1>2, <2>1, <2>3 DEF Journals
  <2> QED BY <1>0, <1>3, <2>2, <2>4, <2>5, <2>6
<1>5. ASSUME Txn(p)' = x, \A z \in Transactions \ {x} : journal'[z] = journal[z],
             cmake' = cmake, tree' = tree, suffered' = suffered, health' = health, journal'[x].tainted = journal[x].tainted,
             Advanced(p)', Planning(p)', Unedited => Finds(p)', Consistent(x)', Unedited => Situated(x)'
      PROVE  Accounted'
  <2>1. Smooth' => Spared'
    BY <1>1, <1>2, <1>5, SparedStill
  <2>2. cmake[p] # "recover"
    BY <1>1
  <2> QED BY <1>1, <1>2, <1>5, <2>1, <2>2, ActKeepsAccount DEF Smooth
<1>6. ASSUME NEW e \in Environments \ {Theirs, x}, task[p].todo = Backing(e), task[p].cmd = "backup" PROVE Accounted'
  <2>1. Head(task[p].todo) = Bind("previous", e) /\ Tail(task[p].todo) = Stashing(e) /\ Stashing(e) \in Todos
        /\ Label(p, Stashing(e)) = "move" /\ e # None /\ Head(task[p].todo).env = e
    BY <1>0, <1>6, Plans, PlanLabels, Planned, Fields
  <2>2. /\ journal'[x] # None /\ journal'[x].previous = e /\ journal'[x].loc = "original" /\ journal'[x].print
        /\ ~journal'[x].tainted /\ journal'[x].tainted = j.tainted
        /\ journal'[x].candidate = j.candidate
        /\ journal'[x].committed = j.committed
        /\ \A z \in Transactions \ {x} : journal'[z] = journal[z]
        /\ helper'[p] = "move" /\ Txn(p)' = x /\ task'[p].todo = Stashing(e) /\ task'[p].cmd = "backup" /\ cmake'[p] = "backup"
        /\ cmake' = cmake /\ tree' = tree /\ live' = live /\ health' = health /\ suffered' = suffered
        /\ tree'[x] = tree[x] /\ health'[x] = health[x]
    BY <1>1, <1>4, <1>6, <2>1
  <2>4. j.previous = None /\ j.candidate = None /\ j.committed = None /\ tree[x].discarded = None /\ tree[x].previous = None
        /\ live # x
    <3>1. j.previous = None /\ j.candidate = None /\ j.committed = None /\ tree[x].discarded = None /\ live # x
      BY <1>1, <1>2, <1>6 DEF Advanced, Begun
    <3> QED BY <1>2, <3>1 DEF Consistent
  <2>5. Unedited => live = e
    BY <1>1, <1>6, <2>1 DEF Finds
  <2>6. Advanced(p)' /\ Finds(p)'
    BY <1>1, <1>2, <1>3, <2>2, <2>4 DEF Advanced, Finds, Begun, Creating, Moving
  <2>7. Planning(p)'
    BY <2>1, <2>2 DEF Planning, Creating, Moving
  <2>8. Consistent(x)'
    BY <1>2, <1>6, <2>2, <2>4, <1>3 DEF Consistent
  <2>9. Unedited => Situated(x)'
    BY <1>2, <1>6, <2>1, <2>2, <2>4, <2>5 DEF Situated
  <2> QED BY <1>5, <2>2, <2>6, <2>7, <2>8, <2>9
<1>7. ASSUME task[p].todo = Naming(x), task[p].cmd = "prepare" PROVE Accounted'
  <2>1. Head(task[p].todo) = Bind("candidate", x) /\ Tail(task[p].todo) = <<>> /\ <<>> \in Todos
        /\ Label(p, <<>>) = "ok"
    BY <1>7, Plans, Planned DEF Label
  <2>2. /\ journal'[x] # None /\ journal'[x].candidate = x /\ journal'[x].loc = "original" /\ journal'[x].print
        /\ ~journal'[x].tainted /\ journal'[x].tainted = j.tainted
        /\ journal'[x].previous = j.previous
        /\ journal'[x].committed = j.committed
        /\ \A z \in Transactions \ {x} : journal'[z] = journal[z]
        /\ helper'[p] = "ok" /\ Txn(p)' = x /\ cmake'[p] = "prepare"
        /\ cmake' = cmake /\ tree' = tree /\ live' = live /\ marked' = marked /\ health' = health /\ suffered' = suffered
        /\ tree'[x] = tree[x] /\ health'[x] = health[x]
    BY <1>1, <1>4, <1>7, <2>1
  <2>4. j.committed = None /\ tree[x].discarded = None
    BY <1>1, <1>2, <1>7 DEF Advanced, Begun
  <2>5. Unedited => live # x /\ (j.previous = None => live = None) /\ x \in marked
    BY <1>1, <1>2, <1>7 DEF Finds
  <2>6. Advanced(p)' /\ (Unedited => Finds(p)')
    BY <1>1, <1>2, <1>3, <2>2, <2>4, <2>5 DEF Advanced, Finds, Begun, Creating, Moving
  <2>7. Planning(p)'
    BY <2>1, <2>2 DEF Planning, Creating, Moving
  <2>8. Consistent(x)'
    BY <1>2, <2>2, <2>4, <1>3 DEF Consistent
  <2>9. Unedited => Situated(x)'
    BY <1>2, <1>3, <2>1, <2>2, <2>4, <2>5 DEF Situated
  <2> QED BY <1>5, <2>2, <2>6, <2>7, <2>8, <2>9
<1>8. ASSUME task[p].todo = Sealing(x), task[p].cmd = "commit", j.candidate = x PROVE Accounted'
  <2>1. Head(task[p].todo) = Bind("committed", x) /\ Tail(task[p].todo) = <<>> /\ <<>> \in Todos
        /\ Label(p, <<>>) = "ok" /\ Head(task[p].todo).env = x
    BY <1>8, Plans, Planned, Fields DEF Label
  <2>2. /\ journal'[x] # None /\ journal'[x].committed = x /\ journal'[x].loc = "original" /\ journal'[x].print
        /\ ~journal'[x].tainted /\ journal'[x].tainted = j.tainted
        /\ journal'[x].previous = j.previous
        /\ journal'[x].candidate = j.candidate
        /\ \A z \in Transactions \ {x} : journal'[z] = journal[z]
        /\ helper'[p] = "ok" /\ Txn(p)' = x /\ cmake'[p] = "commit"
        /\ cmake' = cmake /\ tree' = tree /\ live' = live /\ marked' = marked /\ health' = health /\ suffered' = suffered
        /\ tree'[x] = tree[x] /\ health'[x] = health[x]
    BY <1>1, <1>4, <1>8, <2>1
  <2>4. health[x] = "usable"
    BY <1>1, <1>2, <1>8 DEF Advanced
  <2>5. Unedited => live = x /\ x \in marked
    BY <1>1, <1>2, <1>8, <2>1 DEF Finds
  <2>6. Advanced(p)' /\ (Unedited => Finds(p)')
    BY <1>1, <1>2, <1>3, <2>2, <2>4, <2>5 DEF Advanced, Finds, Begun, Creating, Moving
  <2>7. Planning(p)'
    BY <2>1, <2>2 DEF Planning, Creating, Moving
  <2>8. Consistent(x)'
    BY <1>2, <1>3, <1>8, <2>2, <2>4 DEF Consistent
  <2>9. Unedited => Situated(x)'
    BY <1>2, <1>3, <1>8, <2>1, <2>2, <2>4, <2>5 DEF Situated
  <2> QED BY <1>5, <2>2, <2>6, <2>7, <2>8, <2>9
<1> QED BY <1>3, <1>6, <1>7, <1>8

(* The move a helper is at, what it is for, and what follows it.            *)
LEMMA MoveKinds ==
    ASSUME Quiet, NEW p \in Configures, helper[p] \in Moving, NEW x \in Transactions, x = Txn(p)
    PROVE  LET j == journal[x]
               m == MoveOf(p)
               todo == task[p].todo
           IN
           /\ cmake[p] = task[p].cmd /\ j.loc = "original" /\ j.print /\ ~j.tainted /\ j.previous \in Somewhere
           /\ \/ /\ todo = Stashing(j.previous) /\ task[p].cmd = "backup" /\ j.previous # None
                 /\ m.src = "live" /\ m.dst = "previous" /\ m.env = j.previous /\ Tail(todo) = <<>>
              \/ /\ todo = Promoting(x) /\ task[p].cmd = "promote" /\ j.candidate = x
                 /\ m.src = "staging" /\ m.dst = "live" /\ m.env = x /\ Tail(todo) = <<>>
              \/ /\ todo = Discarding(x) /\ tree[x].previous = None /\ j.committed = None /\ task[p].cmd \in {"restore", "recover"}
                 /\ m.src = "live" /\ m.dst = "discarded" /\ m.env = x /\ Tail(todo) = Cleaning
              \/ /\ todo = Swapping(x, j.previous) /\ j.previous # None /\ j.committed = None /\ task[p].cmd \in {"restore", "recover"}
                 /\ m.src = "live" /\ m.dst = "discarded" /\ m.env = x /\ Tail(todo) = Returning(j.previous)
              \/ /\ todo = Returning(j.previous) /\ j.previous # None /\ task[p].cmd \in {"restore", "recover"}
                 /\ m.src = "previous" /\ m.dst = "live" /\ m.env = j.previous /\ Tail(todo) = Cleaning
<1> DEFINE j == journal[x]  m == MoveOf(p)  todo == task[p].todo
<1>1. helper[p] # "none" /\ helper[p] \in Acts
  BY DEF Moving, Acts
<1>2. /\ Planning(p) /\ Fits(cmake[p], helper[p], task[p]) /\ m = Head(todo)
      /\ task[p].cmd = cmake[p] \/ (cmake[p] = "create" /\ task[p].cmd = "abort")
  BY <1>1, Helping DEF MoveOf
<1>3. /\ j.loc = "original" /\ j.print /\ ~j.tainted
      /\ \/ todo = Stashing(j.previous) /\ task[p].cmd = "backup" /\ j.previous # None
         \/ todo = Promoting(x) /\ task[p].cmd = "promote" /\ j.candidate = x
         \/ /\ task[p].cmd \in {"restore", "recover"}
            /\ \/ todo = Discarding(x) /\ tree[x].previous = None /\ j.committed = None
               \/ todo = Swapping(x, j.previous) /\ j.previous # None /\ j.committed = None
               \/ todo = Returning(j.previous) /\ j.previous # None
  BY <1>2 DEF Planning
<1>4. j.previous \in Somewhere
  BY <1>1, ActingQuiet DEF Journals, Somewhere
<1>5. todo = Stashing(j.previous) =>
         m.src = "live" /\ m.dst = "previous" /\ m.env = j.previous /\ Tail(todo) = <<>>
  BY <1>2, Plans, Fields
<1>6. todo = Promoting(x) => m.src = "staging" /\ m.dst = "live" /\ m.env = x /\ Tail(todo) = <<>>
  BY <1>2, Plans, Fields
<1>7. todo = Discarding(x) => m.src = "live" /\ m.dst = "discarded" /\ m.env = x /\ Tail(todo) = Cleaning
  BY <1>2, Plans, Fields
<1>8. todo = Swapping(x, j.previous) =>
         m.src = "live" /\ m.dst = "discarded" /\ m.env = x /\ Tail(todo) = Returning(j.previous)
  <2>1. /\ Head(Swapping(x, j.previous)) = Move("live", "discarded", x)
        /\ Tail(Swapping(x, j.previous)) = Returning(j.previous)
    BY Plans
  <2> QED BY <1>2, <2>1, Fields
<1>9. todo = Returning(j.previous) =>
         m.src = "previous" /\ m.dst = "live" /\ m.env = j.previous /\ Tail(todo) = Cleaning
  BY <1>2, Plans, Fields
<1> QED BY <1>2, <1>3, <1>4, <1>5, <1>6, <1>7, <1>8, <1>9

(* A helper that looks before it renames.                                   *)
LEMMA CheckMoveKeepsAccount ==
    ASSUME Quiet, NEW p \in Configures, CheckMove(p)
    PROVE  Accounted'
<1>0. /\ EnvBase /\ helper \in [Configures -> Steps] /\ task \in [Configures -> Tasks]
  BY Typed DEF Quiet
<1>1. /\ helper[p] = "move" /\ helper[p] \in Acts /\ helper[p] # "moved" /\ helper[p] # "none" /\ Inside(p)
      /\ Advanced(p) /\ Planning(p) /\ (Unedited => Finds(p))
  <2>1. helper[p] = "move"
    BY DEF CheckMove
  <2> QED BY <2>1, Helping DEF Acts, Moving
<1>2. PICK x \in Transactions :
              /\ x = Txn(p) /\ x # None /\ x # Theirs /\ journal[x] # None /\ journal[x] \in Journals /\ tree[x] \in Trees
              /\ \A z \in Transactions \ {x} : journal[z] = None /\ tree[z] = NoTree
              /\ Consistent(x) /\ (Unedited => Situated(x))
  BY <1>1, ActingQuiet
<1>3. CASE ~Refuses(p)
  <2>1. /\ At(x, MoveOf(p).src) = MoveOf(p).env /\ MoveOf(p).env # None /\ At(x, MoveOf(p).dst) = None
        /\ helper'[p] = "rename" /\ task' = task /\ cmake' = cmake /\ UNCHANGED <<live, tree, journal, health, marked>>
        /\ suffered' = suffered
    BY <1>0, <1>2, <1>3 DEF CheckMove, GoTo, Txn, luck
  <2>2. Txn(p)' = x /\ journal'[x] = journal[x] /\ tree'[x] = tree[x] /\ Present' = Present /\ MoveOf(p)' = MoveOf(p)
    BY <1>2, <2>1 DEF Txn, Present, MoveOf
  <2>3. Advanced(p)'
    BY <1>1, <1>2, <2>1, <2>2 DEF Advanced, Begun, Creating
  <2>4. Planning(p)'
    BY <1>1, <1>2, <2>1, <2>2 DEF Planning, Moving, Creating
  <2>5. Unedited => Finds(p)'
    <3>1. /\ At(x, MoveOf(p).src)' = MoveOf(p).env /\ At(x, MoveOf(p).dst)' = None /\ MoveOf(p)' = Head(task'[p].todo)
      BY <2>1, <2>2 DEF At, MoveOf
    <3> QED BY <1>1, <1>2, <2>1, <2>2, <3>1 DEF Finds, Moving
  <2>6. Consistent(x)' /\ (Unedited' => Situated(x)')
    BY <2>1, Still
  <2>7. Smooth' => Spared'
    BY <1>1, <2>1, SparedStill
  <2> QED BY <1>1, <1>2, <2>1, <2>2, <2>3, <2>4, <2>5, <2>6, <2>7, ActKeepsAccount DEF Unedited, Smooth
<1>4. CASE Refuses(p)
  <2>2. cmake' = cmake /\ helper'[p] = "refused" /\ task' = task /\ UNCHANGED <<live, tree, journal, health, marked>>
        /\ suffered' = suffered
    BY <1>0, <1>4 DEF Refuses, Answers, luck
  <2>3. Smooth' => Spared'
    BY <1>1, <2>2, SparedStill
  <2> QED BY <1>1, <2>2, <2>3, RefusalKeepsAccount
<1> QED BY <1>3, <1>4

(* A helper that renames whatever has the name by then.                     *)
LEMMA RenameKeepsAccount ==
    ASSUME Quiet, NEW p \in Configures, Rename(p)
    PROVE  Accounted'
<1>0. /\ EnvBase /\ helper \in [Configures -> Steps] /\ task \in [Configures -> Tasks] /\ tree \in [Transactions -> Trees]
      /\ None \notin Environments /\ live \in Somewhere
  BY Typed DEF Quiet
<1>1. /\ helper[p] = "rename" /\ helper[p] \in Acts /\ helper[p] \in Moving /\ helper[p] # "none" /\ Inside(p)
      /\ Advanced(p) /\ Planning(p) /\ (Unedited => Finds(p)) /\ Fits(cmake[p], helper[p], task[p])
  <2>1. helper[p] = "rename"
    BY DEF Rename
  <2> QED BY <2>1, Helping DEF Acts, Moving
<1>2. PICK x \in Transactions :
              /\ x = Txn(p) /\ x # None /\ x # Theirs /\ journal[x] # None /\ journal[x] \in Journals /\ tree[x] \in Trees
              /\ \A z \in Transactions \ {x} : journal[z] = None /\ tree[z] = NoTree
              /\ Consistent(x) /\ (Unedited => Situated(x))
  BY <1>1, ActingQuiet
<1>3. CASE Refuses(p)
  <2>2. cmake' = cmake /\ helper'[p] = "refused" /\ task' = task /\ UNCHANGED <<live, tree, journal, health, marked>>
        /\ suffered' = suffered
    BY <1>0, <1>3 DEF Refuses, Answers, luck
  <2>3. Smooth' => Spared'
    BY <1>1, <2>2, SparedStill
  <2> QED BY <1>1, <2>2, <2>3, RefusalKeepsAccount
<1>4. CASE ~Refuses(p)
  <2> DEFINE j == journal[x]  t == tree[x]  u == tree'[x]  m == MoveOf(p)
  <2>1. /\ At(x, m.src) # None /\ At(x, m.dst) = None /\ Renamed(x, m)
        /\ helper'[p] = "moved" /\ task' = task /\ cmake' = cmake /\ UNCHANGED <<journal, health, marked>>
        /\ suffered' = suffered
    BY <1>0, <1>2, <1>4 DEF Rename, Txn, luck
  <2>2. /\ Txn(p)' = x /\ journal'[x] = j /\ MoveOf(p)' = m /\ Head(task[p].todo) = m /\ task'[p] = task[p] /\ cmake'[p] = cmake[p]
        /\ health'[x] = health[x]
    BY <1>2, <2>1 DEF Txn, MoveOf
  <2>3. /\ j.loc = "original" /\ j.print /\ ~j.tainted /\ cmake[p] = task[p].cmd
        /\ \/ /\ task[p].todo = Stashing(j.previous) /\ task[p].cmd = "backup" /\ j.previous # None
              /\ m.src = "live" /\ m.dst = "previous" /\ m.env = j.previous
           \/ /\ task[p].todo = Promoting(x) /\ task[p].cmd = "promote" /\ j.candidate = x
              /\ m.src = "staging" /\ m.dst = "live" /\ m.env = x
           \/ /\ task[p].todo = Discarding(x) /\ t.previous = None /\ j.committed = None /\ task[p].cmd \in {"restore", "recover"}
              /\ m.src = "live" /\ m.dst = "discarded" /\ m.env = x
           \/ /\ task[p].todo = Swapping(x, j.previous) /\ j.previous # None /\ j.committed = None /\ task[p].cmd \in {"restore", "recover"}
              /\ m.src = "live" /\ m.dst = "discarded" /\ m.env = x
           \/ /\ task[p].todo = Returning(j.previous) /\ j.previous # None /\ task[p].cmd \in {"restore", "recover"}
              /\ m.src = "previous" /\ m.dst = "live" /\ m.env = j.previous
    BY <1>1, <1>2, MoveKinds
  <2>4. /\ u.at = t.at /\ u.print = t.print
        /\ \A slot \in Slots : u[slot] = IF slot = m.src THEN None ELSE IF slot = m.dst THEN At(x, m.src) ELSE t[slot]
        /\ live' = IF m.src = "live" THEN None ELSE IF m.dst = "live" THEN At(x, m.src) ELSE live
        /\ \A z \in Transactions \ {x} : tree'[z] = tree[z] /\ journal'[z] = journal[z]
    <3>1. u = [slot \in DOMAIN t |-> IF slot = m.src THEN None ELSE IF slot = m.dst THEN At(x, m.src) ELSE t[slot]]
      BY <1>0, <2>1 DEF Renamed
    <3>2. m.src \in {"live", "staging", "previous"} /\ m.dst \in {"live", "previous", "discarded"}
      BY <2>3
    <3>3. DOMAIN t = {"at", "print", "staging", "previous", "discarded"}
      BY <1>2 DEF Trees
    <3>4. \A slot \in Slots : u[slot] = IF slot = m.src THEN None ELSE IF slot = m.dst THEN At(x, m.src) ELSE t[slot]
      BY <3>1, <3>3 DEF Slots
    <3>5. u.at = t.at /\ u.print = t.print
      BY <3>1, <3>2, <3>3
    <3> QED BY <1>0, <2>1, <3>4, <3>5 DEF Renamed
  <2>5. Smooth => Spared'
    <3>1. ASSUME Smooth, NEW z \in Transactions, NEW slot \in Slots, journal'[z] # None, ~journal'[z].tainted, tree'[z][slot] = Theirs
          PROVE  z = x /\ MoveOf(p)'.dst = slot
      <4>1. z = x
        BY <1>2, <2>1, <3>1
      <4>2. \A q \in Configures : helper[q] # "moved"
        BY <1>1, Sole
      <4>3. t[slot] # Theirs
        BY <2>3, <3>1, <4>1, <4>2, <1>2 DEF Quiet, Accounted, Spared
      <4>4. None # Theirs
        BY <1>0 DEF Environments
      <4> QED BY <2>2, <2>4, <3>1, <4>1, <4>3, <4>4
    <3> QED BY <2>1, <2>2, <3>1 DEF Spared
  <2>6. ASSUME Advanced(p)', Unedited => Finds(p)', Consistent(x)', Unedited => Situated(x)'
        PROVE  Accounted'
    <3>0. \/ j.previous # None /\ task[p].todo = Stashing(j.previous) /\ task[p].cmd = "backup"
          \/ task[p].todo = Promoting(x) /\ task[p].cmd = "promote" /\ j.candidate = x
          \/ /\ task[p].cmd \in {"restore", "recover"}
             /\ \/ task[p].todo = Discarding(x) /\ u.previous = None /\ j.committed = None
                \/ task[p].todo = Swapping(x, j.previous) /\ j.previous # None /\ j.committed = None
                \/ task[p].todo = Returning(j.previous) /\ j.previous # None
      BY <2>3, <2>4 DEF Slots
    <3>1. Planning(p)'
      BY <2>1, <2>2, <2>3, <3>0 DEF Planning, Moving, Creating
    <3> QED BY <1>1, <1>2, <2>1, <2>2, <2>4, <2>5, <2>6, <3>1, ActKeepsAccount
  <2>7. Unedited => At(x, m.src) = m.env
    BY <1>1, <1>2, <2>2 DEF Finds
  <2>8. j.previous # x /\ j.previous # Theirs
    BY <1>2 DEF Consistent
  <2>9. CASE task[p].cmd = "backup"
    <3>1. /\ task[p].todo = Stashing(j.previous) /\ j.previous # None /\ live # None /\ t.previous = None
          /\ live' = None /\ u.at = t.at /\ u.print = t.print /\ u.staging = t.staging /\ u.discarded = t.discarded /\ u.previous = live
          /\ m.src = "live" /\ m.dst = "previous" /\ m.env = j.previous
      BY <2>1, <2>3, <2>4, <2>9 DEF At, Slots
    <3>2. j.committed = None /\ j.candidate = None /\ t.discarded = None
      BY <1>1, <1>2, <2>3, <2>9 DEF Advanced, Begun
    <3>3. Unedited => live = j.previous
      BY <2>7, <3>1 DEF At
    <3>4. Advanced(p)'
      BY <1>1, <1>2, <2>1, <2>2, <2>3, <2>9, <3>1, <3>2 DEF Advanced, Begun
    <3>5. Unedited => Finds(p)'
      BY <2>1, <2>2, <2>3, <2>9, <3>1, <3>3 DEF Finds, At, Moving
    <3>6. Consistent(x)'
      BY <1>2, <2>2, <2>3, <3>1, <3>2, <2>1 DEF Consistent, Unedited
    <3>7. Unedited => Situated(x)'
      BY <1>2, <2>2, <2>3, <3>1, <3>2, <3>3 DEF Situated
    <3> QED BY <2>6, <3>4, <3>5, <3>6, <3>7
  <2>10. CASE task[p].cmd = "promote"
    <3>1. /\ task[p].todo = Promoting(x) /\ j.candidate = x /\ t.staging # None /\ live = None
          /\ live' = t.staging /\ u.at = t.at /\ u.print = t.print /\ u.staging = None /\ u.discarded = t.discarded /\ u.previous = t.previous
          /\ m.src = "staging" /\ m.dst = "live" /\ m.env = x
      BY <2>1, <2>3, <2>4, <2>10 DEF At, Slots
    <3>2. j.committed = None /\ t.discarded = None
      BY <1>1, <1>2, <2>3, <2>10 DEF Advanced, Begun
    <3>3. t.staging = x
      BY <1>0, <3>1 DEF EnvBase, Staged
    <3>4. Advanced(p)'
      BY <1>1, <1>2, <2>1, <2>2, <2>3, <2>10, <3>1, <3>2 DEF Advanced, Begun
    <3>5. Unedited => Finds(p)'
      BY <1>1, <1>2, <2>1, <2>2, <2>3, <2>10, <3>1, <3>3 DEF Finds, At, Moving
    <3>6. Consistent(x)'
      BY <1>2, <2>2, <2>3, <3>1, <3>2, <2>1 DEF Consistent, Unedited
    <3>7. Unedited => Situated(x)'
      BY <1>2, <2>2, <2>3, <3>1, <3>2, <3>3 DEF Situated
    <3> QED BY <2>6, <3>4, <3>5, <3>6, <3>7
  <2>11. CASE task[p].todo = Discarding(x) \/ task[p].todo = Swapping(x, j.previous)
    <3>0. m = Move("live", "discarded", x)
      <4>1. Head(Discarding(x)) = Move("live", "discarded", x) /\ Head(Swapping(x, j.previous)) = Move("live", "discarded", x)
        BY Plans
      <4> QED BY <2>2, <2>11, <4>1
    <3>1. /\ m.src = "live" /\ m.dst = "discarded" /\ m.env = x /\ task[p].cmd \in {"restore", "recover"} /\ j.committed = None
      BY <2>3, <3>0, Fields
    <3>2. /\ live # None /\ t.discarded = None
          /\ live' = None /\ u.at = t.at /\ u.print = t.print /\ u.staging = t.staging /\ u.discarded = live /\ u.previous = t.previous
      BY <2>1, <2>4, <3>1 DEF At, Slots
    <3>3. Unedited => live = x
      BY <2>7, <3>1 DEF At
    <3>4. Advanced(p)'
      BY <1>1, <1>2, <2>1, <2>2, <2>3, <3>1, <3>2 DEF Advanced, Begun
    <3>5. Unedited => Finds(p)'
      BY <1>1, <1>2, <2>1, <2>2, <2>3, <3>1, <3>2, <3>3 DEF Finds, At, Moving
    <3>6. Consistent(x)'
      BY <1>2, <2>2, <2>3, <3>1, <3>2, <2>1 DEF Consistent, Unedited
    <3>7. Unedited => Situated(x)'
      BY <1>2, <2>2, <2>3, <2>8, <3>1, <3>2, <3>3 DEF Situated
    <3> QED BY <2>6, <3>4, <3>5, <3>6, <3>7
  <2>12. CASE task[p].todo = Returning(j.previous)
    <3>0. m = Move("previous", "live", j.previous)
      BY <2>2, <2>12, Plans
    <3>1. /\ m.src = "previous" /\ m.dst = "live" /\ m.env = j.previous /\ task[p].cmd \in {"restore", "recover"} /\ j.previous # None
      BY <2>3, <3>0, Fields
    <3>2. /\ live = None /\ t.previous # None
          /\ live' = t.previous /\ u.at = t.at /\ u.print = t.print /\ u.staging = t.staging /\ u.discarded = t.discarded /\ u.previous = None
      BY <2>1, <2>4, <3>1 DEF At, Slots
    <3>3. Unedited => t.previous = j.previous
      BY <2>7, <3>1 DEF At
    <3>4. Advanced(p)'
      BY <1>1, <1>2, <2>1, <2>2, <2>3, <3>1, <3>2 DEF Advanced, Begun
    <3>5. Unedited => Finds(p)'
      <4>1. task[p].todo # Swapping(x, j.previous)
        <5>1. Head(Swapping(x, j.previous)) = Move("live", "discarded", x)
          BY Plans
        <5>2. Move("live", "discarded", x).src = "live"
          BY Fields
        <5> QED BY <2>2, <3>1, <5>1, <5>2
      <4> QED BY <1>1, <1>2, <2>1, <2>2, <2>3, <3>1, <3>2, <3>3, <4>1 DEF Finds, At, Moving
    <3>6. Consistent(x)'
      BY <1>2, <2>2, <2>3, <3>1, <3>2, <2>1 DEF Consistent, Unedited
    <3>7. Unedited => Situated(x)'
      BY <1>2, <2>2, <2>3, <2>8, <3>1, <3>2, <3>3 DEF Situated
    <3> QED BY <2>6, <3>4, <3>5, <3>6, <3>7
  <2> QED BY <2>3, <2>9, <2>10, <2>11, <2>12
<1> QED BY <1>3, <1>4

(* A helper that looks again after its rename.                              *)
LEMMA CheckMovedKeepsAccount ==
    ASSUME Quiet, NEW p \in Configures, CheckMoved(p)
    PROVE  Accounted'
<1>0. /\ EnvBase /\ helper \in [Configures -> Steps] /\ task \in [Configures -> Tasks] /\ tree \in [Transactions -> Trees]
      /\ journal \in [Transactions -> OrNone(Journals)] /\ None \notin Journals
      /\ None \notin Environments /\ live \in Somewhere
  BY Typed DEF Quiet
<1>1. /\ helper[p] = "moved" /\ helper[p] \in Acts /\ helper[p] \in Moving /\ helper[p] # "none" /\ Inside(p)
      /\ Advanced(p) /\ Planning(p) /\ (Unedited => Finds(p)) /\ Fits(cmake[p], helper[p], task[p])
  <2>1. helper[p] = "moved"
    BY DEF CheckMoved
  <2> QED BY <2>1, Helping DEF Acts, Moving
<1>2. PICK x \in Transactions :
              /\ x = Txn(p) /\ x # None /\ x # Theirs /\ journal[x] # None /\ journal[x] \in Journals /\ tree[x] \in Trees
              /\ \A z \in Transactions \ {x} : journal[z] = None /\ tree[z] = NoTree
              /\ Consistent(x) /\ (Unedited => Situated(x))
  BY <1>1, ActingQuiet
<1> DEFINE j == journal[x]  t == tree[x]  m == MoveOf(p)  todo == task[p].todo
<1>3. /\ j.loc = "original" /\ j.print /\ ~j.tainted /\ cmake[p] = task[p].cmd /\ j.previous \in Somewhere
      /\ \/ /\ todo = Stashing(j.previous) /\ task[p].cmd = "backup" /\ j.previous # None
            /\ m.src = "live" /\ m.dst = "previous" /\ m.env = j.previous /\ Tail(todo) = <<>>
         \/ /\ todo = Promoting(x) /\ task[p].cmd = "promote" /\ j.candidate = x
            /\ m.src = "staging" /\ m.dst = "live" /\ m.env = x /\ Tail(todo) = <<>>
         \/ /\ todo = Discarding(x) /\ t.previous = None /\ j.committed = None /\ task[p].cmd \in {"restore", "recover"}
            /\ m.src = "live" /\ m.dst = "discarded" /\ m.env = x /\ Tail(todo) = Cleaning
         \/ /\ todo = Swapping(x, j.previous) /\ j.previous # None /\ j.committed = None /\ task[p].cmd \in {"restore", "recover"}
            /\ m.src = "live" /\ m.dst = "discarded" /\ m.env = x /\ Tail(todo) = Returning(j.previous)
         \/ /\ todo = Returning(j.previous) /\ j.previous # None /\ task[p].cmd \in {"restore", "recover"}
            /\ m.src = "previous" /\ m.dst = "live" /\ m.env = j.previous /\ Tail(todo) = Cleaning
  BY <1>1, <1>2, MoveKinds
(* Whatever of the user's is in the transaction is what was just renamed.   *)
<1>4. ASSUME Smooth, NEW slot \in Slots, t[slot] = Theirs PROVE slot = m.dst
  <2>1. \E q \in Configures : helper[q] = "moved" /\ Txn(q) = x /\ MoveOf(q).dst = slot
    BY <1>2, <1>3, <1>4 DEF Quiet, Accounted, Spared
  <2>2. \A q \in Configures \ {p} : helper[q] # "moved"
    BY <1>1, Sole
  <2> QED BY <2>1, <2>2
<1>5. m.dst \in Slots => At(x, m.dst) = t[m.dst]
  BY DEF At, Slots
<1>6. None # Theirs /\ j.previous # Theirs
  BY <1>0, <1>2 DEF Environments, Consistent
<1>7. Unedited => At(x, m.src) = None /\ At(x, m.dst) = m.env /\ m.env # None
  BY <1>1, <1>2 DEF Finds, MoveOf
<1>8. CASE At(x, m.dst) = None /\ Refuses(p)
  <2>2. cmake' = cmake /\ helper'[p] = "refused" /\ task' = task /\ UNCHANGED <<live, tree, journal, health, marked>>
        /\ suffered' = suffered
    BY <1>0, <1>8 DEF Refuses, Answers, luck
  <2>3. Smooth => \A slot \in Slots : t[slot] # Theirs
    BY <1>4, <1>5, <1>6, <1>8
  <2>4. Smooth' => Spared'
    BY <1>2, <2>2, <2>3 DEF Spared, Smooth
  <2> QED BY <1>1, <2>2, <2>4, RefusalKeepsAccount
<1>9. CASE /\ At(x, m.dst) # None /\ (At(x, m.dst) # m.env \/ At(x, m.src) # None)
           /\ journal' = [journal EXCEPT ![x].tainted = TRUE]
           /\ Answers(p, "refused") /\ UNCHANGED <<live, tree, health, marked>>
  <2>1. ~Unedited
    BY <1>7, <1>9
  <2>2. /\ cmake' = cmake /\ helper'[p] = "refused" /\ task' = task /\ suffered' = suffered
        /\ UNCHANGED <<live, tree, health, marked>> /\ Txn(p)' = x
    BY <1>0, <1>2, <1>9 DEF Answers, luck, Txn
  <2>3. /\ journal'[x] # None /\ journal'[x].loc = j.loc /\ journal'[x].print = j.print /\ journal'[x].tainted
        /\ journal'[x].previous = j.previous /\ journal'[x].candidate = j.candidate /\ journal'[x].committed = j.committed
        /\ \A z \in Transactions \ {x} : journal'[z] = journal[z]
    <3>1. journal'[x] = [j EXCEPT !.tainted = TRUE] /\ journal'[x] \in Journals
      BY <1>0, <1>2, <1>9 DEF Journals
    <3> QED BY <1>0, <1>2, <1>9, <3>1 DEF Journals
  <2>4. Aware(p)'
    BY <1>1, <1>2, <2>2, <2>3, RefusalAware
  <2>5. Consistent(x)'
    BY <1>2, <1>3, <2>1, <2>2, <2>3 DEF Consistent, Unedited
  <2>6. Smooth => Spared'
    <3>1. ASSUME NEW z \in Transactions, NEW slot \in Slots PROVE ~(journal'[z] # None /\ ~journal'[z].tainted)
      BY <1>2, <2>3
    <3> QED BY <3>1 DEF Spared
  <2>7. \A z \in Transactions \ {x} : journal[z] = None /\ journal'[z] = journal[z] /\ tree'[z] = tree[z]
    BY <1>2, <2>2, <2>3
  <2> QED BY <1>1, <2>1, <2>2, <2>4, <2>5, <2>6, <2>7, HelperAccount
<1>10. CASE /\ At(x, m.dst) = m.env /\ At(x, m.src) = None
            /\ Continue(p, x, Tail(todo)) /\ UNCHANGED <<live, tree, journal>>
  <2>1. Smooth => Spared'
    <3>1. Smooth => \A slot \in Slots : t[slot] # Theirs
      <4>1. x # Theirs /\ (m.dst \in Slots => m.env \in {x, j.previous})
        BY <1>2, <1>3 DEF Slots
      <4> QED BY <1>4, <1>5, <1>6, <1>10, <4>1
    <3> QED BY <1>2, <1>10, <3>1 DEF Spared
  <2>2. ASSUME NEW rest \in Todos, Tail(todo) = rest
        PROVE  /\ helper'[p] = Label(p, rest) /\ Txn(p)' = x /\ task'[p].todo = rest /\ task'[p].cmd = task[p].cmd
               /\ MoveOf(p)' = Head(rest) /\ cmake' = cmake /\ health' = health /\ marked' = marked /\ suffered' = suffered
               /\ cmake'[p] = cmake[p] /\ journal'[x] = journal[x] /\ tree'[x] = tree[x] /\ live' = live /\ health'[x] = health[x]
               /\ At(x, "live")' = live /\ \A slot \in Slots : At(x, slot)' = t[slot]
    BY <1>10, <2>2, Continuing DEF At, Slots
  <2>3. ASSUME NEW rest \in Todos, Tail(todo) = rest, cmake[p] = "recover" => Label(p, rest) \notin {"ok", "claim"},
               Advanced(p)', Planning(p)', Unedited => Finds(p)'
        PROVE  Accounted'
    <3>1. cmake' = cmake /\ UNCHANGED <<live, tree, journal, health, marked>> /\ suffered' = suffered
          /\ Txn(p)' = x /\ helper'[p] = Label(p, rest)
      BY <1>10, <2>2, <2>3
    <3>2. Consistent(x)' /\ (Unedited => Situated(x)')
      BY <3>1, Still DEF Unedited
    <3> QED BY <1>1, <1>2, <2>1, <2>3, <3>1, <3>2, ActKeepsAccount
  <2>4. <<>> \in Todos /\ Cleaning \in Todos /\ Returning(j.previous) \in Todos
    BY <1>3, Planned
  <2>5. Label(p, Cleaning) = "cleanup" /\ Label(p, Returning(j.previous)) = "move"
        /\ (task[p].cmd \notin {"recover", "abort"} => Label(p, <<>>) = "ok")
    <3>1. task[p].cmd \notin {"recover", "abort"} => Label(p, <<>>) = "ok"
      BY DEF Label
    <3> QED BY <3>1, PlanLabels
  <2>6. CASE task[p].cmd = "backup"
    <3>1. Tail(todo) = <<>> /\ j.previous # None
      BY <1>3, <2>6
    <3>2. /\ helper'[p] = "ok" /\ Txn(p)' = x /\ cmake'[p] = "backup" /\ cmake[p] = "backup"
          /\ journal'[x] = journal[x] /\ tree'[x] = tree[x] /\ live' = live
      BY <1>3, <2>2, <2>4, <2>5, <2>6, <3>1
    <3>3. Advanced(p)' /\ Finds(p)' /\ Planning(p)'
      BY <1>1, <1>2, <1>3, <3>1, <3>2 DEF Advanced, Finds, Planning, Begun, Creating, Moving
    <3> QED BY <2>3, <2>4, <3>1, <3>2, <3>3
  <2>7. CASE task[p].cmd = "promote"
    <3>1. Tail(todo) = <<>> /\ live = x
      BY <1>3, <1>10, <2>7 DEF At
    <3>2. /\ helper'[p] = "ok" /\ Txn(p)' = x /\ cmake'[p] = "promote" /\ cmake[p] = "promote"
          /\ journal'[x] = journal[x] /\ tree'[x] = tree[x] /\ live' = live /\ marked' = marked
      BY <1>3, <2>2, <2>4, <2>5, <2>7, <3>1
    <3>3. Advanced(p)' /\ (Unedited => Finds(p)') /\ Planning(p)'
      BY <1>1, <1>2, <1>3, <3>1, <3>2 DEF Advanced, Finds, Planning, Begun, Creating, Moving
    <3> QED BY <2>3, <2>4, <3>1, <3>2, <3>3
  <2>8. ASSUME NEW rest \in {Cleaning, Returning(j.previous)}, Tail(todo) = rest, task[p].cmd \in {"restore", "recover"}
        PROVE  /\ rest \in Todos /\ helper'[p] = Label(p, rest) /\ Txn(p)' = x /\ task'[p].todo = rest /\ task'[p].cmd = task[p].cmd
               /\ MoveOf(p)' = Head(rest) /\ cmake'[p] = cmake[p] /\ journal'[x] = journal[x] /\ tree'[x] = tree[x] /\ live' = live
               /\ helper'[p] \in {"cleanup", "move"} /\ Advanced(p)'
               /\ cmake[p] = "recover" => Label(p, rest) \notin {"ok", "claim"}
    <3>1. /\ helper'[p] = Label(p, rest) /\ Txn(p)' = x /\ task'[p].todo = rest /\ task'[p].cmd = task[p].cmd
          /\ MoveOf(p)' = Head(rest) /\ cmake'[p] = cmake[p] /\ journal'[x] = journal[x] /\ tree'[x] = tree[x] /\ live' = live
          /\ helper'[p] \in {"cleanup", "move"} /\ rest \in Todos
      BY <2>2, <2>4, <2>5, <2>8
    <3>2. Advanced(p)'
      BY <1>1, <1>2, <1>3, <2>8, <3>1 DEF Advanced, Begun, Creating
    <3> QED BY <3>1, <3>2
  <2>9. CASE Tail(todo) = Cleaning /\ task[p].cmd \in {"restore", "recover"}
    <3>1. /\ helper'[p] = "cleanup" /\ Txn(p)' = x /\ cmake'[p] = cmake[p] /\ journal'[x] = journal[x] /\ tree'[x] = tree[x]
          /\ Advanced(p)' /\ (cmake[p] = "recover" => Label(p, Cleaning) \notin {"ok", "claim"})
      BY <2>5, <2>8, <2>9
    <3>2. t.previous = None
      <4>1. Cleaning # <<>> /\ Cleaning # Returning(j.previous)
        <5>1. Head(Cleaning) = CleanUp /\ Head(Returning(j.previous)) = Move("previous", "live", j.previous) /\ Cleaning # <<>>
          BY Plans
        <5>2. CleanUp.op = "cleanup" /\ Move("previous", "live", j.previous).op = "move"
          BY DEF CleanUp, Move
        <5> QED BY <5>1, <5>2
      <4> QED BY <1>3, <1>10, <2>9, <4>1 DEF At
    <3>3. Planning(p)'
      BY <1>3, <3>1, <3>2 DEF Planning, Creating, Moving
    <3>4. Finds(p)'
      BY <1>3, <2>9, <3>1 DEF Finds, Moving
    <3> QED BY <2>3, <2>4, <2>9, <3>1, <3>3, <3>4
  <2>10. CASE Tail(todo) = Returning(j.previous) /\ todo = Swapping(x, j.previous) /\ j.previous # None /\ task[p].cmd \in {"restore", "recover"}
    <3>1. /\ helper'[p] = "move" /\ Txn(p)' = x /\ cmake'[p] = cmake[p] /\ journal'[x] = journal[x] /\ tree'[x] = tree[x] /\ live' = live
          /\ task'[p].todo = Returning(j.previous) /\ task'[p].cmd = task[p].cmd
          /\ Advanced(p)' /\ (cmake[p] = "recover" => Label(p, Returning(j.previous)) \notin {"ok", "claim"})
      BY <2>5, <2>8, <2>10
    <3>2. Planning(p)'
      BY <1>3, <2>10, <3>1 DEF Planning, Creating, Moving
    <3>3. Head(task'[p].todo) = Move("previous", "live", j.previous)
      BY <3>1, Plans
    <3>4. Move("previous", "live", j.previous).src = "previous" /\ Move("previous", "live", j.previous).dst = "live"
          /\ Move("previous", "live", j.previous).env = j.previous
      BY Fields
    <3>5. Unedited /\ task[p].cmd = "recover" => t.previous = j.previous /\ live = None
      <4>1. m.src = "live"
        <5>1. Head(Swapping(x, j.previous)) = Move("live", "discarded", x)
          BY Plans
        <5> QED BY <2>10, <5>1, Fields DEF MoveOf
      <4>2. Unedited /\ task[p].cmd = "recover" => t.previous = j.previous
        BY <1>1, <1>2, <2>10 DEF Finds
      <4> QED BY <1>10, <4>1, <4>2 DEF At
    <3>6. /\ At(x, "live")' = live /\ At(x, "previous")' = t.previous
      BY <3>1 DEF At
    <3>7. Unedited => Finds(p)'
      <4>1. Returning(j.previous) # Swapping(x, j.previous)
        <5>1. Head(Swapping(x, j.previous)) = Move("live", "discarded", x) /\ Head(Returning(j.previous)) = Move("previous", "live", j.previous)
          BY Plans
        <5>2. Move("live", "discarded", x).src = "live"
          BY Fields
        <5> QED BY <3>4, <5>1, <5>2
      <4> QED BY <1>3, <2>10, <3>1, <3>3, <3>4, <3>5, <3>6, <4>1 DEF Finds, Moving
    <3> QED BY <2>3, <2>4, <2>10, <3>1, <3>2, <3>7
  <2> QED BY <1>3, <2>6, <2>7, <2>9, <2>10
<1> QED BY <1>2, <1>8, <1>9, <1>10 DEF CheckMoved, Txn

(* What a helper removes it has set aside, and what it set aside nobody     *)
(* needs.                                                                   *)
LEMMA RemovingKeepsAccount ==
    ASSUME Quiet, NEW p \in Configures, Cleanup(p) \/ SetAside(p) \/ Erase(p) \/ Forget(p)
    PROVE  Accounted'
<1>0. /\ EnvBase /\ helper \in [Configures -> Steps] /\ task \in [Configures -> Tasks] /\ tree \in [Transactions -> Trees]
      /\ journal \in [Transactions -> OrNone(Journals)] /\ None \notin Journals
  BY Typed DEF Quiet
<1>1. /\ helper[p] \in Removing /\ helper[p] \in Acts /\ helper[p] # "none" /\ helper[p] # "moved" /\ Inside(p)
      /\ Advanced(p) /\ Planning(p) /\ (Unedited => Finds(p))
      /\ task[p].todo \in {<<>>, Cleaning} /\ task[p].cmd \in {"restore", "recover", "cleanup", "abort"}
      /\ cmake[p] = task[p].cmd \/ (cmake[p] = "create" /\ task[p].cmd = "abort")
      /\ cmake[p] \in {"restore", "recover", "cleanup", "create"}
  <2>1. helper[p] \in Removing
    BY DEF Cleanup, SetAside, Erase, Forget, Removing
  <2>2. helper[p] \in Acts /\ helper[p] # "none" /\ helper[p] # "moved"
    BY <2>1 DEF Removing, Acts
  <2> QED BY <2>1, <2>2, Helping DEF Fits, Commands, Owned
<1>2. PICK x \in Transactions :
              /\ x = Txn(p) /\ x # None /\ x # Theirs /\ journal[x] # None /\ journal[x] \in Journals /\ tree[x] \in Trees
              /\ \A z \in Transactions \ {x} : journal[z] = None /\ tree[z] = NoTree
              /\ Consistent(x) /\ (Unedited => Situated(x))
  BY <1>1, ActingQuiet
<1> DEFINE j == journal[x]  t == tree[x]
<1>3. ASSUME helper'[p] \in Removing \cup {"claim", "ok", "refused"}, Txn(p)' = x,
             helper'[p] = "claim" => cmake[p] = "recover" /\ journal'[x] = None,
             helper'[p] = "ok" => cmake[p] \in {"restore", "cleanup"},
             \A z \in Transactions \ {x} : journal'[z] = journal[z] /\ tree'[z] = tree[z],
             cmake' = cmake, suffered' = suffered, health' = health, marked' = marked, live' = live,
             journal'[x] # None => journal'[x].committed = j.committed /\ journal'[x].tainted = j.tainted
                                   /\ journal'[x].loc # "original",
             \A slot \in Slots : tree'[x][slot] = Theirs => t[slot] = Theirs,
             Planning(p)', Consistent(x)'
      PROVE  Accounted'
  <2>1. /\ cmake'[p] = cmake[p] /\ health'[x] = health[x]
        /\ helper'[p] \notin Creating \cup Moving \cup {"bind", "none"}
    BY <1>3 DEF Creating, Moving, Removing
  <2>2. Advanced(p)'
    BY <1>1, <1>2, <1>3, <2>1 DEF Advanced, Begun
  <2>3. Unedited => Finds(p)'
    BY <1>1, <1>2, <1>3, <2>1 DEF Finds, Moving
  <2>4. Situated(x)'
    BY <1>3 DEF Situated
  <2>5. Smooth' => Spared'
    BY <1>1, <1>2, <1>3, SparedStill
  <2>6. cmake[p] = "recover" => helper'[p] # "ok" /\ (helper'[p] = "claim" => journal'[x] = None)
    BY <1>3
  <2> QED BY <1>1, <1>2, <1>3, <2>2, <2>3, <2>4, <2>5, <2>6, ActKeepsAccount DEF Smooth
<1>4. ASSUME NEW h \in Steps, GoTo(p, h)
      PROVE  /\ helper'[p] = h /\ Txn(p)' = x /\ cmake' = cmake /\ suffered' = suffered
             /\ health' = health /\ marked' = marked /\ live' = live
  BY <1>0, <1>2, <1>4 DEF GoTo, Txn, luck
<1>5. CASE Refuses(p)
  <2>2. cmake' = cmake /\ helper'[p] = "refused" /\ task' = task /\ UNCHANGED <<live, tree, journal, health, marked>>
        /\ suffered' = suffered
    BY <1>0, <1>5 DEF Refuses, Answers, luck
  <2>3. Smooth' => Spared'
    BY <1>1, <2>2, SparedStill
  <2> QED BY <1>1, <2>2, <2>3, RefusalKeepsAccount
<1>6. CASE Cleanup(p) /\ ~Refuses(p)
  <2>1. /\ helper[p] = "cleanup" /\ ~j.tainted /\ t.at = "path" /\ GoTo(p, "aside") /\ tree' = tree
        /\ journal' = [journal EXCEPT ![x].loc = "detaching"]
    BY <1>2, <1>6 DEF Cleanup, Txn
  <2>2. /\ journal'[x] # None /\ journal'[x].loc = "detaching" /\ journal'[x].print = j.print /\ journal'[x].tainted = j.tainted
        /\ journal'[x].previous = j.previous /\ journal'[x].candidate = j.candidate /\ journal'[x].committed = j.committed
        /\ \A z \in Transactions \ {x} : journal'[z] = journal[z]
    <3>1. journal'[x] = [j EXCEPT !.loc = "detaching"] /\ journal'[x] \in Journals
      BY <1>0, <1>2, <2>1 DEF Journals
    <3> QED BY <1>0, <1>2, <2>1, <3>1 DEF Journals
  <2>3. t.previous = None \/ j.committed # None
    BY <1>1, <1>2, <2>1 DEF Planning
  <2>4. helper'[p] = "aside" /\ Txn(p)' = x /\ cmake' = cmake /\ suffered' = suffered
        /\ health' = health /\ marked' = marked /\ live' = live
    BY <1>4, <2>1 DEF Steps
  <2>5. Planning(p)'
    BY <2>2, <2>4 DEF Planning, Creating, Moving
  <2>6. Consistent(x)'
    BY <1>2, <2>1, <2>2, <2>3, <2>4 DEF Consistent, Unedited
  <2> QED BY <1>3, <2>1, <2>2, <2>4, <2>5, <2>6 DEF Removing
<1>7. CASE SetAside(p)
  <2>1. /\ helper[p] = "aside" /\ GoTo(p, "erase") /\ tree' = [tree EXCEPT ![x].at = "aside"]
        /\ journal' = [journal EXCEPT ![x].loc = "cleanup"]
    BY <1>2, <1>7 DEF SetAside, Txn
  <2>2. /\ journal'[x] # None /\ journal'[x].loc = "cleanup" /\ journal'[x].print = j.print /\ journal'[x].tainted = j.tainted
        /\ journal'[x].previous = j.previous /\ journal'[x].candidate = j.candidate /\ journal'[x].committed = j.committed
        /\ \A z \in Transactions \ {x} : journal'[z] = journal[z]
    <3>1. journal'[x] = [j EXCEPT !.loc = "cleanup"] /\ journal'[x] \in Journals
      BY <1>0, <1>2, <2>1 DEF Journals
    <3> QED BY <1>0, <1>2, <2>1, <3>1 DEF Journals
  <2>3. /\ tree'[x].at = "aside" /\ tree'[x].previous = t.previous /\ \A slot \in Slots : tree'[x][slot] = t[slot]
        /\ \A z \in Transactions \ {x} : tree'[z] = tree[z]
    BY <1>0, <1>2, <2>1 DEF Trees, Slots
  <2>4. helper'[p] = "erase" /\ Txn(p)' = x /\ cmake' = cmake /\ suffered' = suffered
        /\ health' = health /\ marked' = marked /\ live' = live
    BY <1>4, <2>1 DEF Steps
  <2>5. j.loc = "detaching"
    BY <1>1, <1>2, <2>1 DEF Planning
  <2>6. Planning(p)'
    BY <2>2, <2>4 DEF Planning, Creating, Moving
  <2>7. Consistent(x)'
    BY <1>2, <2>2, <2>3, <2>4, <2>5 DEF Consistent, Unedited
  <2> QED BY <1>3, <2>2, <2>3, <2>4, <2>6, <2>7 DEF Removing
<1>8. CASE Erase(p)
  <2>1. /\ helper[p] = "erase" /\ GoTo(p, "forget") /\ tree' = [tree EXCEPT ![x] = NoTree] /\ journal' = journal
    BY <1>2, <1>8 DEF Erase, Txn
  <2>2. /\ tree'[x] = NoTree /\ \A z \in Transactions \ {x} : tree'[z] = tree[z]
    BY <1>0, <2>1
  <2>3. /\ NoTree.previous = None /\ \A slot \in Slots : NoTree[slot] # Theirs
    BY <1>0, Typed DEF NoTree, Slots, Environments
  <2>4. helper'[p] = "forget" /\ Txn(p)' = x /\ cmake' = cmake /\ suffered' = suffered
        /\ health' = health /\ marked' = marked /\ live' = live
    BY <1>4, <2>1 DEF Steps
  <2>5. j.loc = "cleanup"
    BY <1>1, <1>2, <2>1 DEF Planning
  <2>6. Planning(p)'
    BY <2>2, <2>4 DEF Planning, Creating, Moving
  <2>7. Consistent(x)'
    BY <1>2, <2>1, <2>2, <2>3, <2>4, <2>5 DEF Consistent, Unedited
  <2> QED BY <1>3, <2>1, <2>2, <2>3, <2>4, <2>5, <2>6, <2>7 DEF Removing
<1>9. CASE Forget(p)
  <2>0. <<>> \in Todos /\ (IF task[p].todo = <<>> THEN <<>> ELSE Tail(task[p].todo)) = <<>>
    BY <1>1, Plans, Planned
  <2>1. /\ helper[p] = "forget" /\ Continue(p, x, <<>>) /\ tree' = tree /\ live' = live
        /\ journal' = [journal EXCEPT ![x] = None]
    BY <1>2, <1>9, <2>0 DEF Forget, Txn
  <2>2. journal'[x] = None /\ \A z \in Transactions \ {x} : journal'[z] = journal[z]
    BY <1>0, <2>1
  <2>3. /\ helper'[p] = Label(p, <<>>) /\ Txn(p)' = x /\ cmake' = cmake /\ health' = health /\ marked' = marked /\ suffered' = suffered
    BY <2>0, <2>1, Continuing
  <2>4. Label(p, <<>>) = IF task[p].cmd = "recover" THEN "claim" ELSE IF task[p].cmd = "abort" THEN "refused" ELSE "ok"
    BY DEF Label
  <2>5. t = NoTree
    BY <1>1, <1>2, <2>1 DEF Planning
  <2>6. Planning(p)'
    BY <2>3, <2>4 DEF Planning, Creating, Moving
  <2>7. Consistent(x)'
    BY <2>1, <2>2, <2>5 DEF Consistent
  <2>8. /\ helper'[p] \in Removing \cup {"claim", "ok", "refused"}
        /\ helper'[p] = "claim" => cmake[p] = "recover" /\ journal'[x] = None
        /\ helper'[p] = "ok" => cmake[p] \in {"restore", "cleanup"}
    BY <1>1, <2>2, <2>3, <2>4
  <2> QED BY <1>3, <2>1, <2>2, <2>3, <2>6, <2>7, <2>8
<1> QED BY <1>5, <1>6, <1>7, <1>8, <1>9

(* A recovery takes up what is left of the one transaction, or finds none.  *)
LEMMA RecoveryKeepsAccount ==
    ASSUME Quiet, NEW p \in Configures, RecoverOwner(p) \/ ResumeCleanup(p) \/ NothingToRecover(p)
    PROVE  Accounted'
<1>0. /\ EnvBase /\ helper \in [Configures -> Steps] /\ task \in [Configures -> Tasks] /\ tree \in [Transactions -> Trees]
      /\ journal \in [Transactions -> OrNone(Journals)] /\ None \notin Journals
      /\ owner \in [Transactions -> OrNone(Configures)]
  BY Typed DEF Quiet
<1>1. /\ helper[p] = "claim" /\ helper[p] # "none" /\ helper[p] # "moved" /\ Inside(p) /\ cmake[p] = "recover"
      /\ task[p].cmd = "recover" /\ task[p].todo = <<>> /\ Known(p)
  <2>1. helper[p] = "claim" /\ task[p].cmd = "recover"
    BY DEF RecoverOwner, ResumeCleanup, NothingToRecover
  <2> QED BY <2>1, Helping DEF Fits
<1>2. CASE Refuses(p)
  <2>2. cmake' = cmake /\ helper'[p] = "refused" /\ task' = task /\ UNCHANGED <<live, tree, journal, health, marked>>
        /\ suffered' = suffered
    BY <1>0, <1>2 DEF Refuses, Answers, luck
  <2>3. Smooth' => Spared'
    BY <1>1, <2>2, SparedStill
  <2> QED BY <1>1, <2>2, <2>3, RefusalKeepsAccount
(* What it takes up it accounts for when its plan fits.                     *)
<1>3. ASSUME NEW x \in Transactions, journal[x] # None, helper'[p] \in Acts, Txn(p)' = x, cmake' = cmake, suffered' = suffered,
             UNCHANGED <<live, tree, journal, health, marked>>, Planning(p)', Unedited => Finds(p)'
      PROVE  Accounted'
  <2>1. helper'[p] # "ok" /\ helper'[p] # "claim" /\ cmake'[p] = "recover"
    BY <1>1, <1>3 DEF Acts, Creating, Moving, Removing
  <2>2. Known(p)'
    BY <2>1 DEF Known
  <2>3. Advanced(p)'
    BY <2>1 DEF Advanced, Begun
  <2>4. Aware(p)'
    BY <1>3, <2>2, <2>3 DEF Aware, Unedited
  <2>5. Smooth => Spared'
    BY <1>1, <1>3, SparedStill DEF Smooth
  <2>6. Consistent(x)' /\ (Unedited => Situated(x)')
    BY <1>3, Still DEF Unedited
  <2> QED BY <1>1, <1>3, <2>4, <2>5, <2>6, Lone, HelperAccount
<1>4. CASE RecoverOwner(p) /\ ~Refuses(p)
  <2>1. PICK x \in Dead(p) : /\ journal[x].loc = "original" /\ journal[x].print /\ Claimable(x) /\ CanRecover(x)
                             /\ Continue(p, x, Recovering(x)) /\ UNCHANGED <<live, tree, journal>>
    BY <1>4 DEF RecoverOwner
  <2>2. x \in Transactions /\ journal[x] # None /\ ~journal[x].tainted
    BY <1>0, <2>1 DEF Dead, Tasks, Claimable
  <2> DEFINE j == journal[x]  t == tree[x]
  <2>3. /\ Consistent(x) /\ (Unedited => Situated(x)) /\ j \in Journals
    BY <2>2, Lone
  <2>4. /\ t.previous # None => j.previous # None
        /\ j.candidate \in {None, x}
    BY <2>2, <2>3 DEF Consistent
  <2>5. x \in Somewhere /\ j.previous \in Somewhere
    BY <1>0, <2>2, Typed, RecoveryGoes DEF Somewhere, OrNone
  <2>6. \/ Recovering(x) = Cleaning /\ (t.previous = None \/ j.committed # None)
        \/ /\ Recovering(x) = Returning(j.previous) /\ j.previous # None /\ t.previous # None
           /\ live = None \/ (j.candidate = None /\ j.committed = None)
        \/ /\ Recovering(x) = Discarding(x) /\ j.committed = None /\ live # None /\ j.candidate = x
           /\ t.previous = None /\ j.previous = None
        \/ /\ Recovering(x) = Swapping(x, j.previous) /\ j.committed = None /\ live # None /\ j.candidate = x
           /\ j.previous # None /\ t.previous # None
    BY <1>0, <2>2, <2>4, RecoveryGoes
  <2>7. Cleaning \in Todos /\ Returning(j.previous) \in Todos /\ Discarding(x) \in Todos /\ Swapping(x, j.previous) \in Todos
    BY <2>5, Planned
  <2>8. ASSUME NEW h \in {"cleanup", "move"}, NEW plan \in Todos, Recovering(x) = plan, Label(p, plan) = h
        PROVE  /\ helper'[p] = h /\ Txn(p)' = x /\ task'[p].todo = plan /\ task'[p].cmd = "recover" /\ cmake' = cmake
               /\ cmake'[p] = "recover" /\ MoveOf(p)' = Head(plan) /\ suffered' = suffered
               /\ UNCHANGED <<live, tree, journal, health, marked>>
               /\ journal'[x] = journal[x] /\ tree'[x] = tree[x] /\ helper'[p] \in Acts
               /\ At(x, "live")' = live /\ \A slot \in Slots : At(x, slot)' = t[slot]
    <3>1. /\ helper'[p] = h /\ Txn(p)' = x /\ task'[p].todo = plan /\ task'[p].cmd = "recover" /\ cmake' = cmake
          /\ MoveOf(p)' = Head(plan) /\ UNCHANGED <<health, marked>> /\ suffered' = suffered
      BY <1>1, <2>1, <2>2, <2>8, Continuing
    <3> QED BY <1>1, <2>1, <3>1 DEF Acts, Moving, Removing, At, Slots
  <2>9. CASE Recovering(x) = Cleaning /\ (t.previous = None \/ j.committed # None)
    <3>1. /\ helper'[p] = "cleanup" /\ Txn(p)' = x /\ task'[p].todo = Cleaning /\ cmake' = cmake /\ cmake'[p] = "recover" /\ suffered' = suffered
          /\ UNCHANGED <<live, tree, journal, health, marked>> /\ journal'[x] = j /\ tree'[x] = t /\ helper'[p] \in Acts
      BY <2>7, <2>8, <2>9, PlanLabels
    <3>2. Planning(p)'
      BY <2>1, <2>2, <2>9, <3>1 DEF Planning, Creating, Moving
    <3>3. Finds(p)'
      BY <3>1 DEF Finds, Moving
    <3> QED BY <1>3, <2>2, <3>1, <3>2, <3>3
  <2>10. CASE /\ Recovering(x) = Returning(j.previous) /\ j.previous # None /\ t.previous # None
              /\ live = None \/ (j.candidate = None /\ j.committed = None)
    <3>1. /\ helper'[p] = "move" /\ Txn(p)' = x /\ task'[p].todo = Returning(j.previous) /\ cmake' = cmake /\ cmake'[p] = "recover" /\ suffered' = suffered
          /\ UNCHANGED <<live, tree, journal, health, marked>> /\ journal'[x] = j /\ tree'[x] = t /\ helper'[p] \in Acts
          /\ task'[p].cmd = "recover" /\ At(x, "live")' = live /\ At(x, "previous")' = t.previous
      <4>1. Label(p, Returning(j.previous)) = "move"
        BY PlanLabels
      <4> QED BY <2>7, <2>8, <2>10, <4>1 DEF Slots
    <3>2. Planning(p)'
      BY <2>1, <2>2, <2>10, <3>1 DEF Planning, Creating, Moving
    <3>3. Unedited => live = None /\ t.previous = j.previous
      BY <2>1, <2>2, <2>3, <2>10 DEF Situated
    <3>4. Head(task'[p].todo) = Move("previous", "live", j.previous)
      BY <3>1, Plans
    <3>5. Move("previous", "live", j.previous).src = "previous" /\ Move("previous", "live", j.previous).dst = "live"
          /\ Move("previous", "live", j.previous).env = j.previous
      BY Fields
    <3>6. Returning(j.previous) # Swapping(x, j.previous)
      <4>1. Head(Swapping(x, j.previous)) = Move("live", "discarded", x) /\ Head(Returning(j.previous)) = Move("previous", "live", j.previous)
        BY Plans
      <4>2. Move("live", "discarded", x).src = "live"
        BY Fields
      <4> QED BY <3>5, <4>1, <4>2
    <3>7. Unedited => Finds(p)'
      BY <2>10, <3>1, <3>3, <3>4, <3>5, <3>6 DEF Finds, Moving
    <3> QED BY <1>3, <2>2, <3>1, <3>2, <3>7
  <2>11. ASSUME live # None, j.candidate = x, j.previous = None \/ t.previous # None
         PROVE  Unedited => live = x /\ t.discarded = None /\ (j.previous # None => t.previous = j.previous)
    <3>1. x # None
      BY <1>0, <2>2, Typed
    <3> QED BY <2>1, <2>2, <2>3, <2>11, <3>1 DEF Situated
  <2>12. CASE /\ Recovering(x) = Discarding(x) /\ j.committed = None /\ live # None /\ j.candidate = x
              /\ t.previous = None /\ j.previous = None
    <3>1. /\ helper'[p] = "move" /\ Txn(p)' = x /\ task'[p].todo = Discarding(x) /\ cmake' = cmake /\ cmake'[p] = "recover" /\ suffered' = suffered
          /\ UNCHANGED <<live, tree, journal, health, marked>> /\ journal'[x] = j /\ tree'[x] = t /\ helper'[p] \in Acts
          /\ task'[p].cmd = "recover" /\ At(x, "live")' = live /\ At(x, "discarded")' = t.discarded
      <4>1. Label(p, Discarding(x)) = "move"
        BY PlanLabels
      <4> QED BY <2>7, <2>8, <2>12, <4>1 DEF Slots
    <3>2. Planning(p)'
      BY <2>1, <2>2, <2>12, <3>1 DEF Planning, Creating, Moving
    <3>3. Unedited => live = x /\ t.discarded = None
      BY <2>11, <2>12
    <3>4. Head(task'[p].todo) = Move("live", "discarded", x)
      BY <3>1, Plans
    <3>5. Move("live", "discarded", x).src = "live" /\ Move("live", "discarded", x).dst = "discarded"
          /\ Move("live", "discarded", x).env = x
      BY Fields
    <3>6. Discarding(x) # Swapping(x, j.previous)
      <4>1. Tail(Swapping(x, j.previous)) = Returning(j.previous) /\ Head(Returning(j.previous)) = Move("previous", "live", j.previous)
            /\ Tail(Discarding(x)) = Cleaning /\ Head(Cleaning) = CleanUp
        BY Plans
      <4>2. CleanUp.op = "cleanup" /\ Move("previous", "live", j.previous).op = "move"
        BY DEF CleanUp, Move
      <4> QED BY <4>1, <4>2
    <3>7. Unedited => Finds(p)'
      <4>1. x # None
        BY <2>12, <3>3, <1>0, <2>2, Typed
      <4> QED BY <2>12, <3>1, <3>3, <3>4, <3>5, <3>6, <4>1 DEF Finds, Moving
    <3> QED BY <1>3, <2>2, <3>1, <3>2, <3>7
  <2>13. CASE /\ Recovering(x) = Swapping(x, j.previous) /\ j.committed = None /\ live # None /\ j.candidate = x
              /\ j.previous # None /\ t.previous # None
    <3>1. /\ helper'[p] = "move" /\ Txn(p)' = x /\ task'[p].todo = Swapping(x, j.previous) /\ cmake' = cmake /\ cmake'[p] = "recover" /\ suffered' = suffered
          /\ UNCHANGED <<live, tree, journal, health, marked>> /\ journal'[x] = j /\ tree'[x] = t /\ helper'[p] \in Acts
          /\ task'[p].cmd = "recover" /\ At(x, "live")' = live /\ At(x, "discarded")' = t.discarded
      <4>1. Label(p, Swapping(x, j.previous)) = "move"
        BY PlanLabels
      <4> QED BY <2>7, <2>8, <2>13, <4>1 DEF Slots
    <3>2. Planning(p)'
      BY <2>1, <2>2, <2>13, <3>1 DEF Planning, Creating, Moving
    <3>3. Unedited => live = x /\ t.discarded = None /\ t.previous = j.previous
      BY <2>11, <2>13
    <3>4. Head(task'[p].todo) = Move("live", "discarded", x)
      <4>1. Head(Swapping(x, j.previous)) = Move("live", "discarded", x)
        BY Plans
      <4> QED BY <3>1, <4>1
    <3>5. Move("live", "discarded", x).src = "live" /\ Move("live", "discarded", x).dst = "discarded"
          /\ Move("live", "discarded", x).env = x
      BY Fields
    <3>7. Unedited => Finds(p)'
      <4>1. x # None
        BY <1>0, <2>2, Typed
      <4> QED BY <2>13, <3>1, <3>3, <3>4, <3>5, <4>1 DEF Finds, Moving
    <3> QED BY <1>3, <2>2, <3>1, <3>2, <3>7
  <2> QED BY <2>6, <2>9, <2>10, <2>12, <2>13
<1>5. CASE ResumeCleanup(p) /\ ~Refuses(p)
  <2>1. PICK x \in Dead(p) :
           /\ ~(journal[x].loc = "original" /\ journal[x].print)
           /\ ~journal[x].tainted /\ ~(journal[x].loc = "creating" /\ tree[x] # NoTree)
           /\ helper' = [helper EXCEPT ![p] = CASE journal[x].loc = "creating" -> "forget"
                                 [] journal[x].loc = "original" -> "cleanup"
                                 [] journal[x].loc \in {"detaching", "cleanup"} ->
                                       IF tree[x].at = "path" THEN "aside" ELSE "erase"]
           /\ task' = [task EXCEPT ![p].txn = x, ![p].left = @ \ {x}]
           /\ UNCHANGED <<cmake, live, tree, journal, health, marked>> /\ suffered' = suffered
    BY <1>5 DEF ResumeCleanup, luck
  <2>2. x \in Transactions /\ journal[x] # None
    BY <1>0, <2>1 DEF Dead, Tasks
  <2>3. Consistent(x) /\ journal[x] \in Journals
    BY <2>2, Lone
  <2>4. Txn(p)' = x
    BY <1>0, <2>1 DEF Txn, Tasks
  <2>5. None # "path"
    BY EnvAssumption DEF EnvAssumption
  <2>6. journal[x].loc \in {"creating", "original", "detaching", "cleanup"}
    BY <2>3 DEF Journals
  <2>7. \/ helper'[p] = "forget" /\ tree[x] = NoTree
        \/ helper'[p] = "cleanup" /\ journal[x].loc = "original" /\ tree[x].previous = None
        \/ helper'[p] = "aside" /\ journal[x].loc = "detaching"
        \/ helper'[p] = "erase" /\ journal[x].loc = "cleanup"
    <3>1. CASE journal[x].loc = "creating"
      BY <1>0, <2>1, <3>1
    <3>2. CASE journal[x].loc = "original"
      BY <1>0, <2>1, <2>2, <2>3, <3>2 DEF Consistent
    <3>3. CASE journal[x].loc = "detaching"
      BY <1>0, <2>1, <2>2, <2>3, <3>3 DEF Consistent
    <3>4. CASE journal[x].loc = "cleanup"
      <4>1. tree[x].at # "path"
        BY <2>2, <2>3, <2>5, <3>4 DEF Consistent, NoTree
      <4> QED BY <1>0, <2>1, <3>4, <4>1
    <3> QED BY <2>6, <3>1, <3>2, <3>3, <3>4
  <2>8. helper'[p] \in Acts /\ helper'[p] \in Removing
    BY <2>7 DEF Acts, Removing
  <2>9. Planning(p)'
    BY <2>1, <2>4, <2>7 DEF Planning, Creating, Moving
  <2>10. Finds(p)'
    BY <1>1, <2>1, <2>8 DEF Finds, Moving, Removing
  <2> QED BY <1>3, <2>1, <2>2, <2>4, <2>8, <2>9, <2>10
<1>6. CASE NothingToRecover(p)
  <2>1. /\ Dead(p) = {} /\ helper'[p] = "ok" /\ cmake' = cmake /\ task' = task /\ suffered' = suffered
        /\ UNCHANGED <<live, tree, journal, health, marked>>
    BY <1>0, <1>6 DEF NothingToRecover, Answers, luck
  <2>2. \A q \in Configures : helper[q] \notin Acts
    <3>1. \A q \in Configures \ {p} : helper[q] = "none"
      BY <1>1, Sole
    <3> QED BY <1>1, <3>1 DEF Acts, Creating, Moving, Removing
  <2>3. ASSUME NEW x \in Transactions PROVE journal[x] = None
    <3>1. owner[x] = None
      BY <1>0, <2>2 DEF EnvBase, Apart, Owning, OrNone
    <3> QED BY <1>1, <2>1, <2>3, <3>1 DEF Known, Dead
  <2>4. Known(p)' /\ Advanced(p)' /\ Planning(p)' /\ Finds(p)'
    BY <1>1, <2>1, <2>3 DEF Known, Advanced, Planning, Finds, Begun, Creating, Moving
  <2>5. Single' /\ \A x \in Transactions : Consistent(x)' /\ (Unedited' => Situated(x)')
    BY <2>1, Still
  <2>6. UsedIsUsable'
    BY <1>1, <2>1, NotUsed
  <2>7. Smooth' => Spared'
    BY <1>1, <2>1, SparedStill
  <2> QED BY <1>1, <2>1, <2>4, <2>5, <2>6, <2>7, Focus DEF Aware
<1>7. (RecoverOwner(p) /\ ~Refuses(p)) \/ (ResumeCleanup(p) /\ ~Refuses(p)) \/ NothingToRecover(p) \/ Refuses(p)
  OBVIOUS
<1> QED BY <1>2, <1>4, <1>5, <1>6, <1>7

---------------------------------------------------------------------------
(* Accidents and users *)

(* A helper that is cut short and a configure that is killed leave          *)
(* everything as it is.                                                     *)
LEMMA AccidentKeepsAccount ==
    ASSUME Quiet, NEW p \in Configures, "orphans" \notin suffered',
           TimesOut(p) \/ OperationFails(p) \/ KillConfigure(p) \/ OrphanHelper(p) \/ OrphanEnds(p)
    PROVE  Accounted'
<1>0. /\ EnvBase /\ helper \in [Configures -> Steps] /\ task \in [Configures -> Tasks] /\ cmake \in [Configures -> Stages]
  BY Typed DEF Quiet
<1>1. ASSUME NEW kind \in {"timeouts", "kills", "fails", "orphans"}, Suffer(kind)
      PROVE  suffered \subseteq suffered' /\ kind \in suffered' /\ (kind # "orphans" => ~Smooth')
  BY <1>1 DEF Suffer, Smooth
<1>2. ASSUME helper[p] # "none", helper'[p] = "refused", UNCHANGED <<cmake, task, live, tree, journal, health, marked>>,
             suffered \subseteq suffered', ~Smooth'
      PROVE  Accounted'
  BY <1>2, RefusalKeepsAccount
<1>3. CASE TimesOut(p)
  <2>1. /\ helper[p] # "none" /\ helper'[p] = "refused" /\ UNCHANGED <<cmake, task, live, tree, journal, health, marked>>
        /\ Suffer("timeouts")
    BY <1>0, <1>3 DEF TimesOut, Working
  <2> QED BY <1>1, <1>2, <2>1
<1>4. CASE OperationFails(p) /\ ~(task[p].cmd = "create" /\ helper[p] \in {"print", "bind_print"})
  <2>1. /\ helper[p] # "none" /\ helper'[p] = "refused" /\ UNCHANGED <<cmake, task, live, tree, journal, health, marked>>
        /\ Suffer("fails")
    BY <1>0, <1>4 DEF OperationFails, Working
  <2> QED BY <1>1, <1>2, <2>1
<1>5. CASE OperationFails(p) /\ task[p].cmd = "create" /\ helper[p] \in {"print", "bind_print"}
  <2>1. /\ helper'[p] = "cleanup" /\ task' = [task EXCEPT ![p].cmd = "abort"]
        /\ UNCHANGED <<cmake, live, tree, journal, health, marked>> /\ Suffer("fails")
    BY <1>0, <1>5 DEF OperationFails
  <2>2. /\ helper[p] \in Acts /\ Inside(p) /\ cmake[p] = "create" /\ Known(p) /\ Planning(p)
    <3>1. helper[p] \in Acts /\ helper[p] # "none"
      BY <1>5 DEF Acts, Creating
    <3> QED BY <1>5, <3>1, Helping
  <2>3. PICK x \in Transactions :
              /\ x = Txn(p) /\ x # None /\ x # Theirs /\ journal[x] # None /\ journal[x] \in Journals /\ tree[x] \in Trees
              /\ \A z \in Transactions \ {x} : journal[z] = None /\ tree[z] = NoTree
              /\ Consistent(x) /\ (Unedited => Situated(x))
    BY <2>2, ActingQuiet
  <2>4. Txn(p)' = x
    BY <1>0, <2>1, <2>3 DEF Txn, Tasks
  <2>5. journal[x].loc = "original" /\ ~journal[x].print
    BY <1>5, <2>2, <2>3 DEF Planning
  <2>6. tree[x].previous = None /\ ~journal[x].tainted
    BY <2>3, <2>5 DEF Consistent
  <2>7. Known(p)' /\ Advanced(p)' /\ Finds(p)'
    BY <2>1, <2>2, <2>3, <2>4 DEF Known, Advanced, Finds, Begun, Creating, Moving
  <2>8. Planning(p)'
    BY <2>1, <2>3, <2>4, <2>5, <2>6 DEF Planning, Creating, Moving
  <2>9. suffered \subseteq suffered' /\ ~Smooth'
    BY <1>1, <2>1
  <2>10. Single' /\ \A y \in Transactions : Consistent(y)' /\ (Unedited' => Situated(y)')
    BY <2>1, <2>9, Still
  <2>11. UsedIsUsable'
    BY <2>1, <2>2, NotUsed
  <2> QED BY <2>1, <2>2, <2>7, <2>8, <2>9, <2>10, <2>11, Focus DEF Aware
<1>6. CASE KillConfigure(p)
  <2>1. /\ Inside(p) \/ cmake[p] = "lock"
        /\ cmake'[p] = "failed" /\ \A q \in Configures \ {p} : cmake'[q] = cmake[q] /\ helper'[q] = helper[q] /\ task'[q] = task[q]
        /\ UNCHANGED <<live, tree, journal, health, marked>> /\ Suffer("kills")
    BY <1>0, <1>6 DEF KillConfigure, Leaves, Enter, Idle, Inside, Outside
  <2>2. suffered \subseteq suffered' /\ ~Smooth'
    BY <1>1, <2>1
  <2>3. Single' /\ \A y \in Transactions : Consistent(y)' /\ (Unedited' => Situated(y)')
    BY <2>1, <2>2, Still
  <2>4. UsedIsUsable'
    BY <2>1, NotUsed
  <2>5. ~Inside(p)'
    BY <2>1 DEF Inside, Outside
  <2>6. ASSUME NEW q \in Configures \ {p}, Inside(q)' PROVE Aware(q)'
    <3>1. Inside(q) /\ Aware(q) /\ cmake'[q] = cmake[q] /\ helper'[q] = helper[q] /\ task'[q] = task[q] /\ Present' = Present
          /\ (Unedited' => Unedited)
      BY <2>1, <2>2, <2>6 DEF Inside, Quiet, Accounted, Present, Unedited
    <3>2. Known(q)'
      BY <2>1, <3>1 DEF Aware, Known, Txn
    <3>3. Advanced(q)'
      BY <2>1, <3>1 DEF Aware, Advanced, Txn
    <3>4. Planning(q)'
      BY <2>1, <3>1 DEF Aware, Planning, Txn
    <3>5. Unedited' => Finds(q)'
      BY <2>1, <3>1 DEF Aware, Finds, Txn, At
    <3> QED BY <3>2, <3>3, <3>4, <3>5 DEF Aware
  <2> QED BY <2>2, <2>3, <2>4, <2>5, <2>6 DEF Accounted
<1>7. ~OrphanHelper(p)
  BY <1>1 DEF OrphanHelper
<1>8. ~OrphanEnds(p)
  BY Sole DEF OrphanEnds, Inside, Outside
<1> QED BY <1>3, <1>4, <1>5, <1>6, <1>7, <1>8

(* What the user does is not accounted for, but disturbs nothing else.      *)
LEMMA UserKeepsAccount ==
    ASSUME Quiet, NEW e \in {Theirs, None}, UserReplaces(e)
    PROVE  Accounted'
<1>1. /\ live' = e /\ UNCHANGED <<cmake, helper, task, envLock, tree, journal, owner, health, marked>>
      /\ suffered' = suffered \cup {"edits"}
  BY DEF UserReplaces, Suffer
<1>2. ~Unedited' /\ (Smooth' <=> Smooth)
  BY <1>1 DEF Unedited, Smooth
<1>3. /\ None \notin Transactions /\ Theirs \notin Transactions /\ Theirs # None
  BY EnvAssumption DEF EnvAssumption, Environments
<1>4. Single' /\ UsedIsUsable'
  BY <1>1 DEF Quiet, Accounted, Single, UsedIsUsable
<1>5. \A x \in Transactions : Consistent(x)'
  BY <1>1, <1>2 DEF Quiet, Accounted, Consistent
<1>6. ASSUME NEW q \in Configures, Inside(q)' PROVE Aware(q)'
  <2>1. Inside(q) /\ Aware(q) /\ Fits(cmake[q], helper[q], task[q]) /\ task[q] \in Tasks
    BY <1>1, <1>6, Sole DEF Inside
  <2>2. Txn(q)' = Txn(q) /\ Txn(q) \in Transactions \cup {None}
    BY <1>1, <2>1 DEF Txn, Tasks, OrNone
  <2>3. Known(q)'
    BY <1>1, <2>1, <2>2 DEF Aware, Known
  <2>4. Planning(q)'
    BY <1>1, <2>1, <2>2 DEF Aware, Planning
  <2>5. Txn(q) \notin Present => Txn(q) \notin Present'
    BY <1>1, <1>3, <2>2 DEF Present
  <2>6. cmake[q] = "backup" => Txn(q) # None
    BY <2>1 DEF Fits, Owned, Txn
  <2>7. Advanced(q)'
    BY <1>1, <1>3, <2>1, <2>2, <2>5, <2>6 DEF Aware, Advanced
  <2> QED BY <1>2, <2>3, <2>4, <2>7 DEF Aware
<1>7. Smooth' => Spared'
  BY <1>1, <1>2 DEF Quiet, Accounted, Spared, MoveOf, Txn
<1> QED BY <1>2, <1>4, <1>5, <1>6, <1>7 DEF Accounted

(* Before the first configure there is nothing to account for.              *)
LEMMA FirstAccount == ASSUME NEW s \in EnvScenarios, EnvInit(s) PROVE Accounted
<1>1. NoTree \in Trees /\ NoTree.previous = None
  BY FirstBase, Typed DEF NoTree
<1>2. \A x \in Transactions : journal[x] = None /\ tree[x] = NoTree
  BY DEF EnvInit
<1>3. Single /\ Spared
  BY <1>2 DEF Single, Spared
<1>4. \A x \in Transactions : Consistent(x) /\ Situated(x)
  BY <1>1, <1>2 DEF Consistent, Situated
<1>5. UsedIsUsable /\ \A p \in Configures : ~Inside(p)
  BY DEF EnvInit, UsedIsUsable, Inside, Outside
<1> QED BY <1>3, <1>4, <1>5 DEF Accounted

(* Every step keeps account.                                                *)
LEMMA EnvironmentKept ==
    /\ (\E s \in EnvScenarios : EnvInit(s)) => EnvInv
    /\ EnvInv /\ [EnvNext]_envVars => EnvInv'
<1>1. (\E s \in EnvScenarios : EnvInit(s)) => EnvInv
  BY FirstBase, FirstAccount DEF EnvInv
<1>2. ASSUME EnvInv, [EnvNext]_envVars PROVE EnvInv'
  <2>1. EnvBase'
    BY <1>2, BaseKept DEF EnvInv
  <2>2. suffered \subseteq suffered'
    BY <1>2, Suffering
  <2>3. ASSUME "orphans" \notin suffered' PROVE Accounted'
    <3>1. Quiet
      BY <1>2, <2>2, <2>3 DEF Quiet, EnvInv
    <3>2. CASE UNCHANGED envVars
      BY <3>1, <3>2 DEF envVars, fsVars, luck, Quiet, Accounted, Single, UsedIsUsable, Consistent, Situated, Unedited, Smooth,
            Inside, Aware, Known, Advanced, Planning, Finds, Spared, Txn, MoveOf, At, Present, IsReady, ReadyLive
    <3>3. ASSUME NEW p \in Configures, ConfigureStep(p) \/ StartConfiguring(p) PROVE Accounted'
      BY <3>1, <3>3, StartKeepsAccount, TurnsKeepAccount, BuildKeepsAccount DEF ConfigureStep
    <3>4. ASSUME NEW p \in Configures, HelperStep(p) PROVE Accounted'
      BY <3>1, <3>4, CreatingKeepsAccount, CommandKeepsAccount, BindKeepsAccount, CheckMoveKeepsAccount, RenameKeepsAccount,
         CheckMovedKeepsAccount, RemovingKeepsAccount, RecoveryKeepsAccount DEF HelperStep
    <3>5. ASSUME NEW p \in Configures,
                 TimesOut(p) \/ OperationFails(p) \/ KillConfigure(p) \/ OrphanHelper(p) \/ OrphanEnds(p)
          PROVE  Accounted'
      BY <2>3, <3>1, <3>5, AccidentKeepsAccount
    <3>6. ASSUME NEW e \in {Theirs, None}, UserReplaces(e) PROVE Accounted'
      BY <3>1, <3>6, UserKeepsAccount
    <3> QED BY <1>2, <3>2, <3>3, <3>4, <3>5, <3>6 DEF EnvNext
  <2> QED BY <2>1, <2>3 DEF EnvInv
<1> QED BY <1>1, <1>2

---------------------------------------------------------------------------
(* What provisioning promises *)

(* The steps that change the directories.                                   *)
LEMMA DirectorySteps ==
    ASSUME [EnvNext]_envVars
    PROVE  \/ UNCHANGED <<live, tree>>
           \/ \E p \in Configures : \/ CreateVenv(p) \/ CreateDirectory(p) \/ CreateFingerprint(p)
                                    \/ Rename(p) \/ SetAside(p) \/ Erase(p)
           \/ \E e \in {Theirs, None} : UserReplaces(e)
<1>1. CASE UNCHANGED envVars
  BY <1>1 DEF envVars, fsVars
<1>2. ASSUME NEW p \in Configures, ConfigureStep(p), ~CreateVenv(p) PROVE UNCHANGED <<live, tree>>
  BY <1>2 DEF fsVars, ConfigureStep, Lock, Recovered, Created, VenvFails, BackedUp, Install, Prepared, Promoted,
     Relocate, Committed, CleanedUp, Fails
<1>3. ASSUME NEW p \in Configures, HelperStep(p),
             ~(CreateDirectory(p) \/ CreateFingerprint(p) \/ Rename(p) \/ SetAside(p) \/ Erase(p))
      PROVE  UNCHANGED <<live, tree>>
  <2>1. ASSUME NEW h, GoTo(p, h) PROVE live' = live
    BY <2>1 DEF GoTo
  <2> QED BY <1>3, <2>1 DEF HelperStep, CreateOwner, BindFingerprint,
             Command, BindIdentity, CheckMove, CheckMoved, Cleanup, Forget, RecoverOwner, ResumeCleanup,
             NothingToRecover, Refuses
<1>4. ASSUME NEW p \in Configures, StartConfiguring(p) \/ TimesOut(p) \/ OperationFails(p) \/ KillConfigure(p)
             \/ OrphanHelper(p) \/ OrphanEnds(p)
      PROVE  UNCHANGED <<live, tree>>
  BY <1>4 DEF fsVars, StartConfiguring, TimesOut, OperationFails, KillConfigure, OrphanHelper, OrphanEnds
<1> QED BY <1>1, <1>2, <1>3, <1>4 DEF EnvNext

(* A move takes one directory from one name to another.                     *)
LEMMA RenamedSlots ==
    ASSUME Quiet, NEW p \in Configures, Rename(p), ~Refuses(p)
    PROVE  \E x \in Transactions :
              LET m == MoveOf(p) IN
              /\ x = Txn(p) /\ m.src \in {"live", "staging", "previous"} /\ m.dst \in {"live", "previous", "discarded"}
              /\ m.src # m.dst /\ At(x, m.dst) = None /\ tree'[x].at = "path"
              /\ \A slot \in Slots : tree'[x][slot] = IF slot = m.src THEN None ELSE IF slot = m.dst THEN At(x, m.src) ELSE tree[x][slot]
              /\ live' = IF m.src = "live" THEN None ELSE IF m.dst = "live" THEN At(x, m.src) ELSE live
              /\ \A z \in Transactions \ {x} : tree'[z] = tree[z]
<1>1. /\ helper[p] \in Acts /\ helper[p] \in Moving /\ Planning(p)
  <2>1. helper[p] = "rename"
    BY DEF Rename
  <2> QED BY <2>1, Helping DEF Acts, Moving
<1>2. PICK x \in Transactions :
              /\ x = Txn(p) /\ x # None /\ x # Theirs /\ journal[x] # None /\ journal[x] \in Journals /\ tree[x] \in Trees
              /\ \A z \in Transactions \ {x} : journal[z] = None /\ tree[z] = NoTree
              /\ Consistent(x) /\ (Unedited => Situated(x))
  BY <1>1, ActingQuiet
<1> DEFINE t == tree[x]  m == MoveOf(p)
<1>3. m.src \in {"live", "staging", "previous"} /\ m.dst \in {"live", "previous", "discarded"} /\ m.src # m.dst
  BY <1>1, <1>2, MoveKinds
<1>4. t.at = "path"
  BY <1>1, <1>2 DEF Planning, Consistent
<1>5. At(x, m.dst) = None /\ Renamed(x, m)
  BY <1>2 DEF Rename, Txn
<1>6. tree \in [Transactions -> Trees] /\ DOMAIN t = {"at", "print", "staging", "previous", "discarded"}
  BY <1>2, Typed DEF Quiet, Trees
<1>7. tree'[x] = [slot \in DOMAIN t |-> IF slot = m.src THEN None ELSE IF slot = m.dst THEN At(x, m.src) ELSE t[slot]]
      /\ \A z \in Transactions \ {x} : tree'[z] = tree[z]
  BY <1>5, <1>6 DEF Renamed
<1>8. tree'[x].at = "path"
  BY <1>3, <1>4, <1>6, <1>7
<1>9. \A slot \in Slots : tree'[x][slot] = IF slot = m.src THEN None ELSE IF slot = m.dst THEN At(x, m.src) ELSE t[slot]
  BY <1>6, <1>7 DEF Slots
<1> QED BY <1>2, <1>3, <1>5, <1>7, <1>8, <1>9 DEF Renamed

(* A directory that goes was erased.                                        *)
LEMMA OnlyErased ==
    ASSUME Quiet, [EnvNext]_envVars, NEW x \in Transactions, tree[x] # NoTree, tree'[x] = NoTree
    PROVE  \E p \in Configures : Erase(p) /\ x = Txn(p)
<1>0. tree \in [Transactions -> Trees] /\ None # "path" /\ None # "aside" /\ NoTree.at = None /\ NoTree.print = FALSE
  BY Typed, EnvAssumption DEF Quiet, EnvAssumption, NoTree
<1>1. ASSUME NEW p \in Configures, CreateVenv(p) PROVE FALSE
  <2>1. tree' = [tree EXCEPT ![task[p].txn].staging = task[p].txn] /\ tree[task[p].txn].at = "path"
    BY <1>1 DEF CreateVenv
  <2>2. task[p].txn = x
    BY <1>0, <2>1
  <2>3. tree'[x].at = tree[x].at
    BY <1>0, <2>1 DEF Trees
  <2> QED BY <1>0, <2>1, <2>2, <2>3
<1>2. ASSUME NEW p \in Configures, CreateDirectory(p) \/ SetAside(p) PROVE FALSE
  <2>1. \E at \in {"path", "aside"} : tree' = [tree EXCEPT ![task[p].txn].at = at]
    BY <1>2 DEF CreateDirectory, SetAside
  <2>2. task[p].txn = x
    BY <1>0, <2>1
  <2>3. tree'[x].at \in {"path", "aside"}
    BY <1>0, <2>1, <2>2 DEF Trees
  <2> QED BY <1>0, <2>3
<1>3. ASSUME NEW p \in Configures, CreateFingerprint(p) PROVE FALSE
  <2>1. tree' = [tree EXCEPT ![task[p].txn].print = TRUE]
    BY <1>3 DEF CreateFingerprint
  <2>2. task[p].txn = x
    BY <1>0, <2>1
  <2>3. tree'[x].print = TRUE
    BY <1>0, <2>1, <2>2 DEF Trees
  <2> QED BY <1>0, <2>3
<1>4. ASSUME NEW p \in Configures, Rename(p) PROVE FALSE
  <2>1. ~Refuses(p)
    BY DEF Refuses
  <2> QED BY <1>0, <1>4, <2>1, RenamedSlots
<1>5. ASSUME NEW p \in Configures, Erase(p) PROVE x = Txn(p)
  <2>1. tree' = [tree EXCEPT ![task[p].txn] = NoTree]
    BY <1>5 DEF Erase
  <2> QED BY <1>0, <2>1 DEF Txn
<1>6. ~ UNCHANGED <<live, tree>> /\ \A e \in {Theirs, None} : ~UserReplaces(e)
  BY DEF UserReplaces
<1> QED BY <1>1, <1>2, <1>3, <1>4, <1>5, <1>6, DirectorySteps

(* What is erased was committed or never promoted, and is not the user's.   *)
LEMMA Erasing ==
    ASSUME Quiet, NEW p \in Configures, Erase(p), NEW x \in Transactions, x = Txn(p)
    PROVE  /\ tree[x].previous # None => journal[x].committed # None /\ health[journal[x].committed] = "usable"
           /\ Smooth => \A slot \in Slots : tree[x][slot] # Theirs
<1>1. /\ helper[p] = "erase" /\ helper[p] \in Acts /\ Planning(p) /\ helper[p] # "none"
  <2>1. helper[p] = "erase"
    BY DEF Erase
  <2> QED BY <2>1, Helping DEF Acts, Removing
<1>2. journal[x] # None /\ journal[x] \in Journals /\ Consistent(x)
  BY <1>1, ActingQuiet
<1>3. journal[x].loc = "cleanup"
  BY <1>1 DEF Planning
<1>4. /\ ~journal[x].tainted /\ (tree[x].previous = None \/ journal[x].committed # None)
      /\ journal[x].committed \in {None, x} /\ (journal[x].committed # None => health[x] = "usable")
  BY <1>2, <1>3 DEF Consistent
<1>5. \A q \in Configures : helper[q] # "moved"
  BY <1>1, Sole
<1> QED BY <1>2, <1>4, <1>5 DEF Quiet, Accounted, Spared

(* No step loses the previous environment.                                  *)
LEMMA StepKeepsPrevious ==
    ASSUME Quiet, [EnvNext]_envVars
    PROVE  \A x \in Transactions :
              tree[x] # NoTree /\ tree'[x] = NoTree /\ tree[x].previous # None
                  => journal[x].committed # None /\ health[journal[x].committed] = "usable"
BY OnlyErased, Erasing

(* No step loses what the user put at the path.                             *)
LEMMA StepKeepsTheirs ==
    ASSUME Quiet, [EnvNext]_envVars, Smooth, Theirs \in Present
    PROVE  Theirs \in Present' \/ envBudget'["edits"] < envBudget["edits"]
<1>0. /\ tree \in [Transactions -> Trees] /\ Theirs # None /\ \A x \in Transactions : x # Theirs
      /\ envBudget \in [Accidents -> Nat]
  BY Typed, EnvAssumption DEF Quiet, EnvBase, EnvTyped, EnvAssumption, Environments
<1>1. live = Theirs \/ \E x \in Transactions, slot \in Slots : tree[x][slot] = Theirs
  BY DEF Present
<1>2. ASSUME live' = Theirs \/ \E x \in Transactions, slot \in Slots : tree'[x][slot] = Theirs
      PROVE  Theirs \in Present'
  BY <1>0, <1>2 DEF Present
<1>3. ASSUME live' = live, \A x \in Transactions, slot \in Slots : tree[x][slot] = Theirs => tree'[x][slot] = Theirs
      PROVE  Theirs \in Present'
  BY <1>1, <1>2, <1>3
<1>4. CASE UNCHANGED <<live, tree>>
  BY <1>3, <1>4
<1>5. ASSUME NEW e \in {Theirs, None}, UserReplaces(e) PROVE envBudget'["edits"] < envBudget["edits"]
  BY <1>0, <1>5 DEF UserReplaces, Suffer, Accidents
<1>6. ASSUME NEW p \in Configures, CreateVenv(p) PROVE Theirs \in Present'
  <2>1. live' = live /\ tree' = [tree EXCEPT ![task[p].txn].staging = task[p].txn]
    BY <1>6 DEF CreateVenv
  <2>2. \A x \in Transactions : tree[x].staging # Theirs
    BY <1>0 DEF Quiet, EnvBase, Staged
  <2>3. ASSUME NEW x \in Transactions, NEW slot \in Slots, tree[x][slot] = Theirs PROVE tree'[x][slot] = Theirs
    BY <1>0, <2>1, <2>2, <2>3 DEF Trees, Slots
  <2> QED BY <1>3, <2>1, <2>3
<1>7. ASSUME NEW p \in Configures, CreateDirectory(p) \/ SetAside(p) \/ CreateFingerprint(p) PROVE Theirs \in Present'
  <2>1. live' = live
    BY <1>7 DEF CreateDirectory, SetAside, CreateFingerprint, GoTo
  <2>2. \A x \in Transactions, slot \in Slots : tree'[x][slot] = tree[x][slot]
    <3>1. CASE CreateDirectory(p) \/ SetAside(p)
      <4>1. \E at \in {"path", "aside"} : tree' = [tree EXCEPT ![task[p].txn].at = at]
        BY <3>1 DEF CreateDirectory, SetAside
      <4> QED BY <1>0, <4>1 DEF Trees, Slots
    <3>2. CASE CreateFingerprint(p)
      <4>1. tree' = [tree EXCEPT ![task[p].txn].print = TRUE]
        BY <3>2 DEF CreateFingerprint
      <4> QED BY <1>0, <4>1 DEF Trees, Slots
    <3> QED BY <1>7, <3>1, <3>2
  <2> QED BY <1>3, <2>1, <2>2
<1>8. ASSUME NEW p \in Configures, Rename(p) PROVE Theirs \in Present'
  <2>1. CASE Refuses(p)
    BY <1>3, <2>1 DEF Refuses
  <2>2. CASE ~Refuses(p)
    <3>1. PICK x \in Transactions :
              LET m == MoveOf(p) IN
              /\ x = Txn(p) /\ m.src \in {"live", "staging", "previous"} /\ m.dst \in {"live", "previous", "discarded"}
              /\ m.src # m.dst /\ At(x, m.dst) = None /\ tree'[x].at = "path"
              /\ \A slot \in Slots : tree'[x][slot] = IF slot = m.src THEN None ELSE IF slot = m.dst THEN At(x, m.src) ELSE tree[x][slot]
              /\ live' = IF m.src = "live" THEN None ELSE IF m.dst = "live" THEN At(x, m.src) ELSE live
              /\ \A z \in Transactions \ {x} : tree'[z] = tree[z]
      BY <1>8, <2>2, RenamedSlots
    <3> DEFINE m == MoveOf(p)
    <3>2. CASE At(x, m.src) = Theirs
      <4>1. m.dst = "live" => live' = Theirs
        BY <3>1, <3>2
      <4>2. m.dst # "live" => m.dst \in Slots /\ tree'[x][m.dst] = Theirs
        BY <3>1, <3>2 DEF Slots
      <4> QED BY <1>2, <4>1, <4>2
    <3>3. CASE At(x, m.src) # Theirs
      <4>1. live = Theirs => live' = Theirs
        BY <1>0, <3>1, <3>3 DEF At
      <4>2. ASSUME NEW z \in Transactions, NEW slot \in Slots, tree[z][slot] = Theirs PROVE tree'[z][slot] = Theirs
        <5>1. slot # "live"
          BY DEF Slots
        <5>2. z = x => slot # m.src /\ slot # m.dst
          BY <1>0, <3>1, <3>3, <4>2, <5>1 DEF At
        <5> QED BY <3>1, <4>2, <5>2
      <4> QED BY <1>1, <1>2, <4>1, <4>2
    <3> QED BY <3>2, <3>3
  <2> QED BY <2>1, <2>2
<1>9. ASSUME NEW p \in Configures, Erase(p) PROVE Theirs \in Present'
  <2>1. live' = live /\ tree' = [tree EXCEPT ![Txn(p)] = NoTree]
    BY <1>9 DEF Erase, GoTo, Txn
  <2>2. ASSUME NEW x \in Transactions, NEW slot \in Slots, tree[x][slot] = Theirs PROVE tree'[x][slot] = Theirs
    <3>1. x # Txn(p)
      BY <1>9, <2>2, Erasing
    <3> QED BY <1>0, <2>1, <2>2, <3>1
  <2> QED BY <1>3, <2>1, <2>2
<1> QED BY <1>4, <1>5, <1>6, <1>7, <1>8, <1>9, DirectorySteps

(* Where a recovery cannot refuse: every helper step of one.                *)
LEMMA HelperAccepts ==
    ASSUME Quiet, Unedited, NEW p \in Configures, HelperStep(p), task[p].cmd = "recover"
    PROVE  helper'[p] # "refused"
<1>0. /\ EnvBase /\ helper \in [Configures -> Steps] /\ task \in [Configures -> Tasks] /\ tree \in [Transactions -> Trees]
      /\ journal \in [Transactions -> OrNone(Journals)]
  BY Typed DEF Quiet
<1>1. helper[p] # "none"
  BY DEF HelperStep, CreateOwner, CreateDirectory, CreateFingerprint, BindFingerprint, Command, BindIdentity, CheckMove, Rename,
     CheckMoved, Cleanup, SetAside, Erase, Forget, RecoverOwner, ResumeCleanup, NothingToRecover
<1>2. /\ cmake[p] = "recover" /\ Fits(cmake[p], helper[p], task[p]) /\ Planning(p) /\ Finds(p)
  BY <1>1, Helping
<1>3. ~(CreateOwner(p) \/ CreateDirectory(p) \/ CreateFingerprint(p) \/ BindFingerprint(p) \/ Command(p) \/ BindIdentity(p))
  BY <1>2 DEF Fits, CreateOwner, CreateDirectory, CreateFingerprint, BindFingerprint, Command, BindIdentity, Creating
<1>4. ASSUME helper[p] \in Acts
      PROVE  \E x \in Transactions : x = Txn(p) /\ journal[x] # None /\ Consistent(x)
  BY <1>4, ActingQuiet
<1>5. ASSUME NEW h \in Steps \ {"refused"}, GoTo(p, h) PROVE helper'[p] # "refused"
  BY <1>0, <1>5 DEF GoTo
<1>6. \A ops : (ops = <<>> \/ Head(ops).op # "refused") => Label(p, ops) # "refused"
  BY DEF Label
<1>7. ASSUME NEW x \in Transactions, NEW ops \in Todos, Continue(p, x, ops), ops = <<>> \/ Head(ops).op # "refused"
      PROVE  helper'[p] # "refused"
  BY <1>6, <1>7, Continuing
<1>8. CleanUp.op = "cleanup" /\ \A s, d, e : Move(s, d, e).op = "move"
  BY DEF CleanUp, Move
<1>9. CASE CheckMove(p) \/ Rename(p) \/ CheckMoved(p)
  <2>1. helper[p] \in Moving /\ helper[p] \in Acts
    BY <1>9 DEF CheckMove, Rename, CheckMoved, Moving, Acts
  <2>2. PICK x \in Transactions : x = Txn(p)
    BY <1>4, <2>1
  <2>3. CASE CheckMove(p)
    <3>1. At(x, MoveOf(p).src) = MoveOf(p).env /\ MoveOf(p).env # None /\ At(x, MoveOf(p).dst) = None
      BY <1>2, <2>2, <2>3 DEF CheckMove, Finds, MoveOf
    <3>2. GoTo(p, "rename")
      BY <2>2, <2>3, <3>1 DEF CheckMove, Txn
    <3> QED BY <1>5, <3>2 DEF Steps
  <2>4. CASE Rename(p)
    <3>1. At(x, MoveOf(p).src) = MoveOf(p).env /\ MoveOf(p).env # None /\ At(x, MoveOf(p).dst) = None
      BY <1>2, <2>2, <2>4 DEF Rename, Finds, MoveOf
    <3> QED BY <1>0, <2>2, <2>4, <3>1 DEF Rename, Txn
  <2>5. CASE CheckMoved(p)
    <3>1. At(x, MoveOf(p).src) = None /\ At(x, MoveOf(p).dst) = MoveOf(p).env /\ MoveOf(p).env # None
      BY <1>2, <2>2, <2>5 DEF CheckMoved, Finds, MoveOf
    <3>2. Continue(p, x, Tail(task[p].todo))
      BY <2>2, <2>5, <3>1 DEF CheckMoved, Txn
    <3>3. Tail(task[p].todo) \in {<<>>, Cleaning, Returning(journal[x].previous)} /\ journal[x].previous \in Somewhere
      BY <2>1, <2>2, MoveKinds
    <3>4. Tail(task[p].todo) \in Todos
      BY <3>3, Planned
    <3>5. Head(Cleaning) = CleanUp /\ Head(Returning(journal[x].previous)) = Move("previous", "live", journal[x].previous)
      BY Plans
    <3> QED BY <1>7, <1>8, <3>2, <3>3, <3>4, <3>5
  <2> QED BY <1>9, <2>3, <2>4, <2>5
<1>10. CASE Cleanup(p)
  <2>1. helper[p] = "cleanup" /\ helper[p] \in Acts
    BY <1>10 DEF Cleanup, Acts, Removing
  <2>2. PICK x \in Transactions : x = Txn(p) /\ journal[x] # None /\ Consistent(x)
    BY <1>4, <2>1
  <2>3. journal[x].loc = "original" /\ ~journal[x].tainted
    BY <1>2, <2>1, <2>2 DEF Planning
  <2>4. tree[x].at = "path"
    BY <2>2, <2>3 DEF Consistent
  <2>5. GoTo(p, "aside")
    BY <1>10, <2>2, <2>3, <2>4 DEF Cleanup, Txn
  <2> QED BY <1>5, <2>5 DEF Steps
<1>11. CASE SetAside(p) \/ Erase(p)
  BY <1>5, <1>11 DEF SetAside, Erase, Steps
<1>12. CASE Forget(p)
  <2>1. helper[p] = "forget" /\ helper[p] \in Acts /\ task[p].todo \in {<<>>, Cleaning}
    BY <1>2, <1>12 DEF Forget, Acts, Removing, Fits
  <2>2. PICK x \in Transactions : x = Txn(p)
    BY <1>4, <2>1
  <2>3. <<>> \in Todos /\ (IF task[p].todo = <<>> THEN <<>> ELSE Tail(task[p].todo)) = <<>>
    BY <2>1, Plans, Planned
  <2>4. Continue(p, x, <<>>)
    BY <1>12, <2>2, <2>3 DEF Forget, Txn
  <2> QED BY <1>7, <2>3, <2>4
<1>13. ASSUME NEW x \in Dead(p)
       PROVE  /\ x \in Transactions /\ journal[x] # None /\ owner[x] = None /\ Consistent(x) /\ Situated(x) /\ journal[x] \in Journals
              /\ ~journal[x].tainted
  <2>1. x \in Transactions /\ journal[x] # None /\ owner[x] = None
    BY <1>0, <1>13 DEF Dead, Tasks
  <2>2. Consistent(x) /\ Situated(x) /\ journal[x] \in Journals
    BY <2>1, Lone
  <2> QED BY <2>1, <2>2 DEF Consistent
<1>14. CASE RecoverOwner(p)
  <2>1. PICK x \in Dead(p) :
           /\ journal[x].loc = "original" /\ journal[x].print
           /\ IF Claimable(x) /\ CanRecover(x)
              THEN Continue(p, x, Recovering(x)) /\ UNCHANGED <<live, tree, journal>>
              ELSE Refuses(p)
    BY <1>14 DEF RecoverOwner
  <2> DEFINE j == journal[x]
  <2>2. /\ x \in Transactions /\ j # None /\ owner[x] = None /\ Consistent(x) /\ Situated(x) /\ ~j.tainted /\ x # None
    BY <1>0, <1>13, Typed
  <2>3. Claimable(x)
    BY <2>1, <2>2 DEF Claimable, Consistent
  <2>4. CanRecover(x)
    <3>1. j.committed \in {None, x} /\ (j.committed # None => live = x)
      BY <2>1, <2>2 DEF Consistent, Situated
    <3>2. CASE j.previous = None
      BY <3>1, <3>2 DEF CanRecover
    <3>3. CASE j.previous # None
      <4>1. IF tree[x].previous = None THEN live = j.previous ELSE live \in {None, x} /\ (live = x => j.candidate = x)
        BY <2>1, <2>2, <3>3 DEF Situated
      <4> QED BY <2>2, <3>1, <3>3, <4>1 DEF CanRecover
    <3> QED BY <3>2, <3>3
  <2>5. Continue(p, x, Recovering(x))
    BY <2>1, <2>3, <2>4
  <2>6. /\ j.candidate \in Somewhere /\ j.previous \in Somewhere
        /\ \/ Recovering(x) = Swapping(j.candidate, j.previous) \/ Recovering(x) = Discarding(j.candidate)
           \/ Recovering(x) = Returning(j.previous) \/ Recovering(x) = Cleaning
    BY <1>0, <2>2, RecoveryGoes
  <2>7. Recovering(x) \in Todos
    BY <2>6, Planned
  <2>8. Head(Recovering(x)).op # "refused"
    <3>1. /\ Head(Swapping(j.candidate, j.previous)) = Move("live", "discarded", j.candidate)
      BY Plans
    <3>2. /\ Head(Discarding(j.candidate)) = Move("live", "discarded", j.candidate)
          /\ Head(Returning(j.previous)) = Move("previous", "live", j.previous) /\ Head(Cleaning) = CleanUp
      BY Plans
    <3> QED BY <1>8, <2>6, <3>1, <3>2
  <2> QED BY <1>7, <2>2, <2>5, <2>7, <2>8
<1>15. CASE ResumeCleanup(p)
  <2>1. PICK x \in Dead(p) :
           LET loc == journal[x].loc
               bound == {journal[x].previous, journal[x].candidate, journal[x].committed} # {None}
           IN
           /\ ~(loc = "original" /\ journal[x].print)
           /\ IF journal[x].tainted \/ (loc = "original" /\ bound) \/ (loc = "creating" /\ tree[x] # NoTree)
              THEN Refuses(p)
              ELSE helper' = [helper EXCEPT ![p] = CASE loc = "creating" -> "forget"
                                    [] loc = "original" -> "cleanup"
                                    [] loc \in {"detaching", "cleanup"} -> IF tree[x].at = "path" THEN "aside" ELSE "erase"]
    BY <1>15 DEF ResumeCleanup
  <2>2. /\ journal[x] # None /\ Consistent(x) /\ ~journal[x].tainted /\ journal[x] \in Journals
    BY <1>13
  <2>3. journal[x].loc \in {"creating", "original", "detaching", "cleanup"}
    BY <2>2 DEF Journals
  <2>4. /\ journal[x].loc = "original" => {journal[x].previous, journal[x].candidate, journal[x].committed} = {None}
        /\ journal[x].loc = "creating" => tree[x] = NoTree
    BY <2>1, <2>2 DEF Consistent
  <2>5. helper' = [helper EXCEPT ![p] = CASE journal[x].loc = "creating" -> "forget"
                       [] journal[x].loc = "original" -> "cleanup"
                       [] journal[x].loc \in {"detaching", "cleanup"} -> IF tree[x].at = "path" THEN "aside" ELSE "erase"]
    BY <2>1, <2>2, <2>4
  <2> QED BY <1>0, <2>3, <2>5
<1>16. CASE NothingToRecover(p)
  BY <1>0, <1>16 DEF NothingToRecover, Answers
<1> QED BY <1>3, <1>9, <1>10, <1>11, <1>12, <1>14, <1>15, <1>16 DEF HelperStep

(* Only the helper itself, or an accident, makes it refuse.                 *)
LEMMA StepAccepts ==
    ASSUME Quiet, Unedited, [EnvNext]_envVars, NEW p \in Configures, task[p].cmd = "recover", helper'[p] = "refused",
           envBudget' = envBudget
    PROVE  helper[p] = "refused"
<1>0. helper \in [Configures -> Steps] /\ envBudget \in [Accidents -> Nat]
  BY Typed DEF Quiet, EnvBase, EnvTyped
<1>1. ASSUME NEW kind \in Accidents PROVE ~Suffer(kind)
  <2>1. envBudget[kind] \in Nat /\ [envBudget EXCEPT ![kind] = @ - 1][kind] = envBudget[kind] - 1
    BY <1>0
  <2> QED BY <2>1 DEF Suffer
<1>2. CASE UNCHANGED envVars
  BY <1>2 DEF envVars
<1>3. ASSUME NEW q \in Configures, ConfigureStep(q) PROVE helper[p] = "refused"
  BY <1>0, <1>3 DEF ConfigureStep, Lock, Recovered, Created, CreateVenv, VenvFails, BackedUp, Install, Prepared, Promoted,
     Relocate, Committed, CleanedUp, Fails, Run, Then, Rollback, Idle
<1>4. ASSUME NEW q \in Configures, HelperStep(q) PROVE helper[p] = "refused"
  <2>1. CASE q = p
    BY <1>4, <2>1, HelperAccepts
  <2>2. CASE q # p
    <3>1. ASSUME NEW h, GoTo(q, h) \/ Answers(q, h) PROVE helper'[p] = helper[p]
      BY <1>0, <2>2, <3>1 DEF GoTo, Answers
    <3>2. ASSUME NEW x, NEW ops, Continue(q, x, ops) PROVE helper'[p] = helper[p]
      BY <1>0, <2>2, <3>2 DEF Continue
    <3>3. helper'[p] = helper[p]
      BY <1>0, <1>4, <2>2, <3>1, <3>2 DEF HelperStep, CreateOwner, CreateDirectory, CreateFingerprint, BindFingerprint,
         Command, BindIdentity, CheckMove, Rename, CheckMoved, Cleanup, SetAside, Erase, Forget, RecoverOwner, ResumeCleanup,
         NothingToRecover, Refuses
    <3> QED BY <3>3
  <2> QED BY <2>1, <2>2
<1>5. ASSUME NEW q \in Configures, StartConfiguring(q) \/ TimesOut(q) \/ OperationFails(q) \/ KillConfigure(q)
             \/ OrphanHelper(q)
      PROVE  FALSE
  BY <1>1, <1>5 DEF StartConfiguring, TimesOut, OperationFails, KillConfigure, OrphanHelper, Accidents
<1>6. ASSUME NEW q \in Configures, OrphanEnds(q) PROVE helper[p] = "refused"
  BY <1>0, <1>6 DEF OrphanEnds, Idle
<1>7. ASSUME NEW e \in {Theirs, None}, UserReplaces(e) PROVE FALSE
  BY <1>1, <1>7 DEF UserReplaces, Accidents
<1> QED BY <1>2, <1>3, <1>4, <1>5, <1>6, <1>7 DEF EnvNext

(* No configure is killed without its helper.                               *)
NoOrphans == \A s \in EnvScenarios : s.budget["orphans"] = 0
Attended == EnvInv /\ envBudget["orphans"] = 0 /\ "orphans" \notin suffered
(* Where no configure can be killed without its helper, none is.            *)
LEMMA StaysAttended == ASSUME Attended, [EnvNext]_envVars PROVE Attended'
<1>1. EnvInv' /\ envBudget \in [Accidents -> Nat]
  BY EnvironmentKept DEF Attended, EnvInv, EnvBase, EnvTyped
<1>2. ASSUME NEW kind \in Accidents, Suffer(kind) PROVE envBudget'["orphans"] = 0 /\ "orphans" \notin suffered'
  BY <1>1, <1>2 DEF Suffer, Attended, Accidents
<1>3. ASSUME UNCHANGED luck PROVE envBudget'["orphans"] = 0 /\ "orphans" \notin suffered'
  BY <1>3 DEF luck, Attended
<1>4. UNCHANGED luck \/ \E kind \in Accidents : Suffer(kind)
  BY Luck
<1> QED BY <1>1, <1>2, <1>3, <1>4 DEF Attended

(* What the invariant says of the environment at the path and of the one    *)
(* that was there before.                                                   *)
LEMMA InvariantMeans == ASSUME EnvInv PROVE OneHelper /\ PreviousFound /\ UsedIsUsable
<1>1. OneHelper
  BY BaseExcludes DEF EnvInv
<1>2. UsedIsUsable
  BY DEF EnvInv, Accounted, UsedIsUsable
<1>3. PreviousFound
  BY DEF EnvInv, Accounted, PreviousFound, Situated, Unedited
<1> QED BY <1>1, <1>2, <1>3

(* Whatever crashes, whatever fails and wherever, for any number of         *)
(* configures and transactions: helpers exclude each other, the previous    *)
(* environment is where its transaction says or back at its path, what is   *)
(* reported as usable is, and recovery accepts what any of it left.         *)
THEOREM EnvironmentRecovers == EnvSpec => [](OneHelper /\ PreviousFound /\ UsedIsUsable) /\ RecoveryAccepts
<1>1. EnvInv => OneHelper /\ PreviousFound /\ UsedIsUsable
  BY InvariantMeans
<1>2. EnvInv /\ [EnvNext]_envVars =>
         [\A p \in Configures :
            task[p].cmd = "recover" /\ helper'[p] = "refused" /\ envBudget' = envBudget
                => helper[p] = "refused" \/ suffered \cap {"edits", "orphans"} # {}]_envVars
  <2>1. ASSUME EnvInv, [EnvNext]_envVars, NEW p \in Configures, task[p].cmd = "recover", helper'[p] = "refused",
               envBudget' = envBudget, suffered \cap {"edits", "orphans"} = {}
        PROVE  helper[p] = "refused"
    <3>1. Quiet /\ Unedited
      BY <2>1 DEF EnvInv, Quiet, Unedited
    <3> QED BY <2>1, <3>1, StepAccepts
  <2> QED BY <2>1
<1> QED BY <1>1, <1>2, EnvironmentKept, PTL DEF EnvSpec, RecoveryAccepts

(* Where no configure is killed without its helper, neither the previous    *)
(* environment nor what a user put in its place is lost either.  An orphan  *)
(* may act on a transaction whose cleanup another helper began: if that one *)
(* is killed too, the orphan backs up into what the next recovery erases.   *)
THEOREM EnvironmentIsSafe == NoOrphans => (EnvSpec => EnvironmentSafe)
<1> SUFFICES ASSUME NoOrphans PROVE EnvSpec => EnvironmentSafe
  OBVIOUS
<1>1. (\E s \in EnvScenarios : EnvInit(s)) => Attended
  BY EnvironmentKept DEF NoOrphans, Attended, EnvInit
<1>2. Attended /\ [EnvNext]_envVars => Attended'
  BY StaysAttended
<1>3. Attended => Quiet
  BY DEF Attended, EnvInv, Quiet
<1>4. Attended /\ [EnvNext]_envVars =>
         [\A x \in Transactions :
            tree[x] # NoTree /\ tree'[x] = NoTree /\ tree[x].previous # None
                => journal[x].committed # None /\ health[journal[x].committed] = "usable"]_envVars
  BY <1>3, StepKeepsPrevious
<1>5. Attended /\ [EnvNext]_envVars =>
         [Theirs \notin Present \/ Theirs \in Present' \/ envBudget'["edits"] < envBudget["edits"]
          \/ suffered \cap {"timeouts", "kills", "fails"} # {}]_envVars
  BY <1>3, StepKeepsTheirs DEF Smooth
<1> QED BY <1>1, <1>2, <1>4, <1>5, EnvironmentRecovers, PTL DEF EnvSpec, EnvironmentSafe, PreviousOutlives, TheirsKept
============================================================================
