--------------------------- MODULE InstallProtoc ---------------------------
(***************************************************************************)
(* The protoc installer, install_protoc.py: it builds an installation in a *)
(* sibling of its destination and swaps it in by three renames, with the   *)
(* replaced installation at one fixed rollback path until the swap is      *)
(* committed.  Any operation may fail and the installer may be killed      *)
(* between any two; the next run recovers what it finds.                   *)
(*                                                                         *)
(* One installer at a time: locked_destination is what DestinationExclusive *)
(* of OwnedSafety is about, and a sibling, its lease and its journal are    *)
(* here one record that is created and erased in one step.  An installation *)
(* has the name of the transaction that built it.                           *)
(***************************************************************************)
EXTENDS Absent, Naturals

CONSTANTS
    InstallTxns,       \* the siblings that may be made
    Installed,         \* the installation that was there before
    Stranger,          \* a directory the user puts somewhere
    InstallScenarios   \* what was there, and how often which accident happens
ASSUME InstallAssumption ==
    /\ None \notin InstallTxns \cup {Installed, Stranger} /\ Installed # Stranger
    /\ {Installed, Stranger} \cap InstallTxns = {}
    /\ None \notin {"transaction", "recovery", "sweep", "bind", "cleanup"}
    /\ InstallScenarios \subseteq
          [installed : {Installed, None}, budget : [{"installs", "kills", "fails", "edits"} -> Nat]]

VARIABLES
    step,          \* where the installer is
    run,           \* its locals
    destination,   \* the installation at the destination
    rollback,      \* the installation at the fixed rollback path
    sibling,       \* what each sibling holds
    bound,         \* the identity each sibling recorded for the rollback path
    whole,         \* the installations that are complete and were run once
    instBudget,    \* runs and accidents left
    instSuffered,  \* history: accidents so far, of each kind
    found          \* history: what was at the destination when the run began

instLuck == <<instBudget, instSuffered, found>>
instFiles == <<destination, rollback, sibling, bound, whole>>
instVars == <<step, run, instFiles, instLuck>>

NoSibling == [kind |-> None, staging |-> None, previous |-> None, displaced |-> None]
NoRun == [txn |-> None, rec |-> None, was |-> FALSE, back |-> None, ok |-> TRUE]
Resting == {"idle", "done", "failed"}

Befall(kind) ==
    /\ instBudget[kind] > 0 /\ instBudget' = [instBudget EXCEPT ![kind] = @ - 1]
    /\ instSuffered' = [instSuffered EXCEPT ![kind] = @ + 1]
    /\ found' = IF kind = "installs" THEN destination ELSE found
Set(field, value) == run' = [run EXCEPT ![field] = value]
InUse ==
    {destination, rollback}
    \cup UNION {{sibling[x].previous, sibling[x].displaced} : x \in InstallTxns}
Unused == {x \in InstallTxns \ InUse : sibling[x] = NoSibling /\ bound[x] = None}
(* A new name is random; names mean nothing, so any one stands for all.     *)
NewSibling(kind, field) ==
    LET x == CHOOSE y \in Unused : TRUE IN
    /\ Unused # {} /\ Set(field, x)
    /\ sibling' = [sibling EXCEPT ![x] = [NoSibling EXCEPT !.kind = kind]]
Erased(x) ==
    /\ sibling' = [sibling EXCEPT ![x] = NoSibling]
    /\ bound' = [bound EXCEPT ![x] = None]
(* A sibling whose process is gone.                                         *)
Orphaned(x) == sibling[x].kind # None /\ x \notin {run.txn, run.rec}

---------------------------------------------------------------------------
(* _restore_installation_rollback, called from three places *)

(* Only a rollback some sibling has recorded, by its identity, is restored. *)
Owned(x) == bound[x] = rollback
ClaimRollback(caller, refused) ==
    IF \E x \in InstallTxns : Orphaned(x) /\ Owned(x)
    THEN step' = "restore" /\ Set("back", caller)
    ELSE step' = refused /\ Set("ok", FALSE)
CreateRecovery ==
    /\ step = "restore"
    /\ NewSibling("recovery", "rec")
    /\ step' = "displace" /\ UNCHANGED <<destination, rollback, bound, whole, instLuck>>
Displace ==
    /\ step = "displace" /\ step' = "put_back"
    /\ sibling' = [sibling EXCEPT ![run.rec].displaced = destination]
    /\ destination' = None
    /\ UNCHANGED <<run, rollback, bound, whole, instLuck>>
PutBack ==
    /\ step = "put_back" /\ destination = None /\ step' = "end_recovery"
    /\ destination' = rollback /\ rollback' = None
    /\ UNCHANGED <<run, sibling, bound, whole, instLuck>>
(* Where an error in the restore is raised to.                              *)
RaisedTo(caller) == IF caller = "sweep" THEN "failed" ELSE "cleanup"
EndRecovery ==
    /\ step = "end_recovery" /\ Erased(run.rec)
    /\ step' = IF run.ok \/ run.back = "cleanup" THEN run.back ELSE RaisedTo(run.back)
    /\ Set("rec", None) /\ UNCHANGED <<destination, rollback, whole, instLuck>>

---------------------------------------------------------------------------
(* main and replace_destination *)

StartInstall ==
    /\ step \in Resting /\ Befall("installs")
    /\ step' = "recover" /\ run' = NoRun /\ UNCHANGED instFiles
(* _recover_interrupted_install_state: the rollback first, then the rest.   *)
RecoverInstall ==
    /\ step = "recover"
    /\ IF rollback # None THEN ClaimRollback("sweep", "failed")
       ELSE step' = "sweep" /\ UNCHANGED run
    /\ UNCHANGED <<instFiles, instLuck>>
Sweep ==
    /\ step = "sweep"
    /\ \/ \E x \in InstallTxns :
            Orphaned(x) /\ Erased(x) /\ UNCHANGED <<step, run>>
       \/ /\ ~\E x \in InstallTxns : Orphaned(x)
          /\ NewSibling("transaction", "txn")
          /\ step' = "extract" /\ UNCHANGED bound
    /\ UNCHANGED <<destination, rollback, whole, instLuck>>
(* Download, digest and extraction; then the layout, the marker and a run.  *)
Extract ==
    /\ step = "extract" /\ step' = "verify"
    /\ sibling' = [sibling EXCEPT ![run.txn].staging = run.txn]
    /\ whole' = whole \ {run.txn}
    /\ UNCHANGED <<run, destination, rollback, bound, instLuck>>
VerifyStaged ==
    /\ step = "verify" /\ step' = "replace"
    /\ whole' = whole \cup {run.txn}
    /\ UNCHANGED <<run, destination, rollback, sibling, bound, instLuck>>
ReplaceDestination ==
    /\ step = "replace"
    /\ IF rollback # None THEN ClaimRollback("bind", "cleanup")
       ELSE step' = "bind" /\ UNCHANGED run
    /\ UNCHANGED <<instFiles, instLuck>>
BindRollback ==
    /\ step = "bind" /\ Set("was", destination # None)
    /\ step' = IF destination # None THEN "backup" ELSE "promote"
    /\ bound' = [bound EXCEPT ![run.txn] = destination]
    /\ UNCHANGED <<destination, rollback, sibling, whole, instLuck>>
(* Faulty: the replaced installation goes into the sibling at once.         *)
BackUpInside ==
    /\ step = "backup" /\ rollback = None /\ step' = "promote"
    /\ sibling' = [sibling EXCEPT ![run.txn].previous = destination] /\ destination' = None
    /\ UNCHANGED <<run, rollback, bound, whole, instLuck>>
BackUp ==
    /\ step = "backup" /\ rollback = None /\ step' = "promote"
    /\ rollback' = destination /\ destination' = None
    /\ UNCHANGED <<run, sibling, bound, whole, instLuck>>
PromoteStaging ==
    /\ step = "promote" /\ destination = None
    /\ step' = IF run.was THEN "commit" ELSE "committed"
    /\ destination' = sibling[run.txn].staging
    /\ sibling' = [sibling EXCEPT ![run.txn].staging = None]
    /\ UNCHANGED <<run, rollback, bound, whole, instLuck>>
CommitSwap ==
    /\ step = "commit" /\ step' = "committed"
    /\ sibling' = [sibling EXCEPT ![run.txn].previous = rollback] /\ rollback' = None
    /\ UNCHANGED <<run, destination, bound, whole, instLuck>>
(* The end of the try block: an interrupt here still undoes the swap.       *)
LeaveTry ==
    /\ step = "committed" /\ step' = IF run.was THEN "remove" ELSE "cleanup"
    /\ UNCHANGED <<run, instFiles, instLuck>>
RemovePrevious ==
    /\ step = "remove" /\ step' = "cleanup"
    /\ sibling' = [sibling EXCEPT ![run.txn].previous = None]
    /\ UNCHANGED <<run, destination, rollback, bound, whole, instLuck>>
(* The except clause: back to what was there.                               *)
UndoSwap ==
    LET x == run.txn IN
    /\ step = "undo"
    /\ \/ /\ run.was /\ rollback = None /\ sibling[x].previous # None
          /\ rollback' = sibling[x].previous
          /\ sibling' = [sibling EXCEPT ![x].previous = None]
          /\ UNCHANGED <<step, run, destination>>
       \/ /\ run.was /\ rollback # None
          /\ IF Owned(x) THEN step' = "restore" /\ Set("back", "cleanup")
             ELSE step' = "cleanup" /\ UNCHANGED run
          /\ UNCHANGED <<sibling, destination, rollback>>
       \/ /\ run.was /\ rollback = None /\ sibling[x].previous = None
          /\ step' = "cleanup" /\ UNCHANGED <<run, sibling, destination, rollback>>
       \/ /\ ~run.was /\ step' = "cleanup"
          /\ IF destination # None /\ sibling[x].staging = None
             THEN /\ sibling' = [sibling EXCEPT ![x].staging = destination]
                  /\ destination' = None
             ELSE UNCHANGED <<sibling, destination>>
          /\ UNCHANGED <<run, rollback>>
    /\ UNCHANGED <<bound, whole, instLuck>>
(* _cleanup_install_transaction keeps the owner of a rollback that exists.  *)
CleanupInstall ==
    /\ step = "cleanup"
    /\ IF rollback # None THEN UNCHANGED <<sibling, bound>> ELSE Erased(run.txn)
    /\ step' = IF run.ok THEN "done" ELSE "failed"
    /\ run' = NoRun /\ UNCHANGED <<destination, rollback, whole, instLuck>>

InstallStep ==
    \/ CreateRecovery \/ Displace \/ PutBack \/ EndRecovery
    \/ RecoverInstall \/ Sweep \/ Extract \/ VerifyStaged \/ ReplaceDestination
    \/ BindRollback \/ BackUp \/ PromoteStaging \/ CommitSwap \/ LeaveTry \/ RemovePrevious
    \/ UndoSwap \/ CleanupInstall

---------------------------------------------------------------------------
(* Accidents *)

(* Where the code goes when the operation at a step raises.                 *)
Handler(s) ==
    CASE s \in {"recover", "sweep"} -> "failed"
      [] s = "restore" -> RaisedTo(run.back)
      [] s \in {"displace", "put_back"} -> "end_recovery"
      [] s = "end_recovery" -> IF run.ok THEN run.back ELSE RaisedTo(run.back)
      [] s \in {"extract", "verify", "replace", "remove", "undo"} -> "cleanup"
      [] s \in {"bind", "backup", "promote", "commit", "committed"} -> "undo"
      [] s = "cleanup" -> "failed"
(* An operation raises, or an interrupt comes before it; only what removes  *)
(* the recovery sibling is forgiven.                                        *)
StepFails ==
    /\ step \notin Resting /\ Befall("fails")
    /\ step' = Handler(step)
    /\ run' = CASE step' = "failed" -> NoRun
                [] step = "end_recovery" /\ step' # "failed" -> [run EXCEPT !.rec = None]
                [] OTHER -> [run EXCEPT !.ok = FALSE]
    /\ UNCHANGED instFiles
(* A rename does not replace what the user put at its target.               *)
StepBlocked ==
    /\ \/ step = "backup" /\ rollback # None
       \/ step \in {"promote", "put_back"} /\ destination # None
    /\ step' = Handler(step) /\ Set("ok", FALSE) /\ UNCHANGED <<instFiles, instLuck>>
InstallerKilled ==
    /\ step \notin Resting /\ Befall("kills")
    /\ step' = "failed" /\ run' = NoRun /\ UNCHANGED instFiles
(* The user replaces or removes the installation, or makes a directory at   *)
(* the rollback path.                                                       *)
UserInterferes ==
    /\ Befall("edits")
    /\ \/ \E d \in {Stranger, None} : destination' = d /\ UNCHANGED rollback
       \/ rollback' = Stranger /\ rollback = None /\ UNCHANGED destination
    /\ UNCHANGED <<step, run, sibling, bound, whole>>

InstallInit(s) ==
    /\ step = "idle" /\ run = NoRun /\ destination = s.installed /\ rollback = None
    /\ sibling = [x \in InstallTxns |-> NoSibling] /\ bound = [x \in InstallTxns |-> None]
    /\ whole = {Installed} /\ instBudget = s.budget
    /\ instSuffered = [kind \in DOMAIN s.budget |-> 0] /\ found = None
InstallNext ==
    \/ StartInstall \/ InstallStep
    \/ StepFails \/ StepBlocked \/ InstallerKilled \/ UserInterferes
InstallFairness == WF_instVars(InstallStep) /\ WF_instVars(StepBlocked)
InstallSpec == (\E s \in InstallScenarios : InstallInit(s)) /\ [][InstallNext]_instVars
============================================================================
