# Verification of Protocyte

Protocyte is a `protoc` plugin that generates C++ for a small runtime, and the
CMake machinery that builds, runs and provisions it. Two kinds of code in it are
hard to get right. One is directory surgery: generated files, a Python
environment and an installed `protoc` live in directories that several build
trees, several processes and the user share, and they must survive killed
builds and losses of power. The other is what the plugin decides for every
schema: the value and order of constants, the names of a class, and the wire
code and objects of a message. This project models both in TLA+, checks them
with TLC and proves what can be proved for every instance with TLAPS.

## Inventory

| Component | Source | State it keeps | Operations |
|---|---|---|---|
| Output coordinator | `cmake/ProtocyteOutputCoordinator.py` | per output root a state directory: `claim.json`, `snapshot.json`, `plan.json`, `reset.json`, `transactions/<id>/{pending.json, payloads}`; three lock files; private staging per target | `reconcile-set`, `reset`, `validate`, `publish`, `target-outputs`, `run-generation`; recovery before each |
| CMake generation script | `cmake/ProtocyteGenerate.cmake` | the staging directory of one target | validate, rebuild staging, protoc, publish, check the outputs, discard staging |
| CMake integration | `cmake/ProtocyteFunctions.cmake` and its includes | per build tree the `.plan` and `.claim-token` files of each root | finalization of output plans, reset command, provisioning of the environment; target set-up, tool discovery, dependency scan |
| Owned transactions | `.github/scripts/owned_transactions.py` | sibling directories with a lease, an append-only generation journal, a registry and destination locks | create, transition, close, claim a dead owner, recover, prune |
| Managed environment | `cmake/ProtocyteManagedEnvironment.py` | an environment directory, its taint marker, backups and candidates as owned siblings | create, bind, prepare, promote, commit, cleanup, restore, recover |
| protoc installer | `.github/scripts/install_protoc.py` | an installation, its staging and rollback siblings; a download thread and its queue | download, promote, roll back, recover |
| Release publisher | `.github/scripts/publish_release.py` | a draft release in a service others may change | create the draft, upload, re-check, publish |
| Other release and CI tooling | `.github/scripts/*.py` | none shared | sequential checks and file conversions |
| Code generator plugin | `src/protocyte/model.py`, `cpp.py` and others | none across runs | evaluate and resolve constants; descriptors to text. The generated text has state: messages |
| Formatter supervision | `src/protocyte/cpp.py`, `_formatter_supervisor.py` | a process tree, three pipe threads, a deadline and an output limit | start, feed, collect, time out, tear down |
| Name allocation | `src/protocyte/names.py`, `model.py` | reserved names of a scope | reserve, allocate in batches, validate |
| Descriptor sets, import scanning | `src/protocyte/descriptor_set.py`, `import_scanner.py` | none | parsing, cycle detection, transitive closure |
| C++ runtime | `src/protocyte/runtime/runtime.hpp` | a context's recursion depth and limits, containers, readers | allocate and free, containers, bounded and nested reads, varints, unknown fields |
| Debugger support, examples, tests | `src/protocyte/debugger`, `tests/`, `examples/` | none | presentation |

**How they interact.** CMake writes a plan file per output root of a build
tree and runs the coordinator's `reconcile-set`, which claims the root for that
build, retires outputs the plan no longer names and commits the plan. It
answers the claim's token, which CMake keeps beside the plan. At build time
`run-generation` holds the root's generation lock around the generation
script, which runs the coordinator twice more as a child (`validate`, later
`publish`) with `protoc` between them. `publish` copies the staged files into a
transaction, makes it durable and rolls it forward over the outputs. `reset`
presents the token and deletes everything the root's snapshot and plan record,
the claim last. To have a plugin to run, CMake provisions a Python environment:
under a lock of its own it runs the managed environment helper command by
command, each a process with a time-out, over owned transactions. The installer does the same
kind of directory surgery for `protoc`. Inside `protoc` the plugin runs alone;
it starts one formatter and waits for it. The code it emits calls the runtime.

**What is hard.** Coordination is by advisory file locks of processes that may
die at any point, alone or with their parent. Every durable fact is a rename
followed by a directory sync, so between the two a retry sees what a loss of
power may still take back. The user edits outputs and replaces directories
between any two steps. A plan file may change under a running build. A helper
that timed out, or whose parent died, may still be at work. A download, a formatter
and their threads race with a deadline. A release is changed by others between
two requests. The generated code must be right for every schema, failed
allocation and cut input, and in C++ arithmetic although Python computes it.

**What makes each component correct.** Coordinator: a claim that survives is
loadable; committed outputs survive or can be restored; a pending transaction
can always be replayed and there is never a second one; nothing is published
under a plan that is not committed; user bytes are never replaced unseen; a
reset can be resumed and leaves nothing behind; several roots keep apart and
can be configured again after a kill; commands end. Owned
transactions: one live owner per transaction, none forgotten, and a dead
owner's is claimed once. Environment and installer: at every moment a recovery finds either the
old or the new directory whole. Publisher: what is published is what was
verified. Formatter and download: they end within their deadlines with all of
the output or an error, and leave no descendant, thread or file. Constants: the values of C++, in an order that
does not matter. Names: those that are equal are overloads. Messages: what was read is what was
written, a copy shows what its source shows, and a failure changes nothing.

`PROJECT.json` lists the hazards of this code at their lines; the properties
below are aimed at them.

## Modules

| Module | What it is |
|---|---|
| `OutputCoordinator` | one output root in full: processes, locks, files, transactions, user, crashes |
| `OutputSafety` | the types and the properties of `OutputCoordinator` |
| `OutputStore` | the abstract store a root promises to be: owner, committed inventory, intent |
| `OutputRefinement` | the mapping under which `OutputCoordinator` implements `OutputStore` |
| `OutputTypeProofs` | mutual exclusion and type correctness, proved for every instance |
| `OutputDurabilityProofs` | the crash invariant, what a loss of power may leave; that every step keeps it, the durability properties that follow, and what no step may do to the user's bytes, the claim and the committed plan |
| `OutputReleaseProofs` | an interrupted reset can be resumed, and the refinement of `OutputStore`, proved |
| `MCOutputCoordinator` | plans and budgets of the instances TLC checks |
| `OwnedTransactions` | the transaction siblings of one destination: locks, leases, journals, creation, cleanup, recovery, crashes, interference |
| `OwnedSafety` | the types and the properties of `OwnedTransactions` |
| `OwnedProofs` | the destination lock excludes, owners are alone, nothing of others is removed, the types are right, a recovery finds whatever is left of a sibling and can act on it: proved for every instance |
| `MCOwnedTransactions` | the scenarios of the instance TLC checks |
| `ManagedEnvironment`, `EnvironmentSafety` | configures that provision one Python environment, helper by helper, and what they promise of the directory at its path |
| `EnvironmentProofs` | helpers exclude each other, the environment is found, kept and usable, recovery accepts: proved for every instance |
| `InstallProtoc`, `InstallSafety` | the installer's swap, its roll-back and recovery |
| `DownloadArchive`, `DownloadSafety` | the bounded download: a thread, a queue and a deadline |
| `FormatterSupervision`, `FormatterSafety` | the formatter's process group, the supervisor, three threads and the caller |
| `PublishRelease`, `PublishSafety` | publishers of one tag, as lists of requests to a service |
| `DistributionProofs` | the download is safe, an installation is kept and a publication is verified, proved for every instance |
| `ConstantExpressions`, `ExpressionSafety` | the evaluator of constant expressions, against C++ arithmetic |
| `ConstantResolution`, `ResolutionSafety` | the resolution of constants across scopes, against lookup and chains stated as sets |
| `GeneratorProofs` | the formatter's result, limit and group, and the resolution of constants, proved for every instance |
| `MessageCodec`, `CodecSafety` | the generated `parse`, `merge_from`, `validate`, `serialize`, `encoded_size`, against what records mean |
| `GeneratedMessage`, `MessageSafety` | the generated accessors, oneofs, moves, copies and clones, allocation by allocation |
| `NameAllocation`, `NameSafety` | the C++ names of a message class |
| `RootRegistry`, `RootSafety` | several output roots: configurations that claim, retire and commit them, generations and resets beside |
| `RootProofs` | what several roots keep among them, and their types, proved for every instance |
| `MCTooling` | the instances of the pairs from `ManagedEnvironment` on: one specification in which a behaviour is one of one part |
| `Absent` | `None`, the value of what is not there |

Definitions introduced by a comment "Faulty" are variants of another with a
plausible bug (a skipped sync, a dropped guard). No action uses them. Each
property is violated when the variant `PROJECT.json` names replaces its original.
`map` in `PROJECT.json` gives the lines of every other definition.

### `OutputCoordinator`

| Variable | In the code |
|---|---|
| `pc`, `job` | where a configure, generation or reset process is, and its locals: command, build, plan as read by this process, target, transaction, operations still to apply |
| `regLock`, `genLock`, `pubLock` | `FileLock` on the registry (taken by `reconcile_set` and `reset`), on generation (those two, and `run-generation`) and on publication (all but `run-generation` itself) |
| `st` | the state directory: claim, snapshot, plan and reset intent |
| `tx` | `transactions/<id>`: whether it exists, `pending.json`, payloads |
| `out` | generated files: bytes and inode, for the user's hard links |
| `stage` | staging directory of each target |
| `planFile`, `held` | `.plan` and `.claim-token` files of each build tree |
| `nextToken` | fresh claim tokens (`secrets.token_hex`) |
| `stOld`, `txOld`, `outOld`, `stageOld` | what a loss of power could leave of each |
| `touched` | history: outputs the user was the last to change |
| `budget` | how many more commands may start and accidents happen |

Actions follow the functions they translate, one per visible file operation
(`ActOnOutput` is the `os.replace` or `unlink` of `_publish_one` and
`_delete_if_state`, `SyncOutput` the directory sync after it). Everything a
function only reads or checks is in the guard or the branch of the action that
follows. The read and the act on an output are separate actions, since the
user acts between them.

*The file system.* A process that dies keeps what it wrote. A loss of power keeps what was synced,
and of the rest anything: `stOld` holds every version of the state directory
since its last sync. With `Reorder = FALSE` the loss leaves one of those
versions; with `Reorder = TRUE` each entry is independently at one of its
versions, as on a file system that does not order directory operations. A
transaction's existence, its `pending.json` and its payloads are always
independent of each other, and so are outputs in different directories. A sync
reduces the versions to the present one. File contents are durable before the
rename that publishes them, as `_atomic_write` syncs the temporary file first.

*Abstractions.*

- Bytes and their hash are one value; generated bytes are never the user's.
- A token is a counter: the real ones are random and never repeat.
- JSON shape checks and path checks (links, case spellings, overlapping roots)
  succeed; the checks that relate one file to another are all modelled.
- Temporary files of an atomic write are invisible. Removing all transactions
  at once in a reset is one durable step, and so is creating one
  (`_durable_mkdir`); the removal of a single transaction, file by file, and of
  a claimless state directory are not.
- Outputs of a transaction are applied in any order; the code sorts them.
- User edits of outputs are durable at once, and the user makes at most one hard-link pair.
- `.plan` and `.claim-token` survive every loss of power.
- One root. The registry validation is the part of it that concerns this root; `RootRegistry` has several.

### `OwnedTransactions`

| Variable | In the code |
|---|---|
| `pc`, `job` | where an installation, a creation or a recovery is, and its locals: the `OwnedSibling` object (token, location and generation as this process remembers them), leases still to claim, why it is pruning |
| `registry` | `registry.lock` of the state root |
| `lockFile`, `flock` | the inode that `destination.lock` names, and the holder of the lock on each inode: the file is deleted and made again, so a name is not a lock |
| `stateDir` | whether the destination's state directory exists |
| `lease` | the lock on each `.owner` file |
| `st` | per token: the `.owner` file (absent, empty, with its byte), the journal generations and their location field, the temporary files |
| `at` | per token: what bears the sibling's name, its cleanup name and its staging name in the destination's parent |
| `stOld`, `atOld` | what a loss of power could leave of the two directories, per token in order; a sync of a directory reduces all of it |
| `drawn` | `uuid4` tokens already used |
| `touched`, `happened` | history: siblings somebody interfered with, kinds of accident so far |
| `budget` | the scenario: how many commands may still start and accidents happen |

`install` is `main` of the installer as far as it uses owned transactions: lock
the destination, recover, create a sibling, clean it up or leave it, release.
`create` and `recover` are the bare operations, without the destination lock,
as the managed environment helper calls them. The journal and the directory are
written one visible file operation at a time. The registry sections are not
atomic: other processes run between their steps, only not inside the registry.

Abstracted: an identity (device, inode, type) matches or does not; checks of
links, owners, modes and mounts succeed; journal files are whole (they are
synced before their rename); a foreign directory is not empty; the destination's
state directory is lost in a power loss only with everything in it. The branch
is POSIX. A failing system call is modelled where the code does more than
close the lease and leave the files: while publishing a journal and while
creating the directory.

### The parts of `MCTooling`

Each pair shares nothing with the others. `MCTooling` puts them into one
specification with a variable `part`: a behaviour is one of one part, and the rest stays
where it began. A part's module is complete by itself (`Init`, `Next`,
fairness, and its own variables), so that it can be checked or proved about alone.

**`ManagedEnvironment`**: `_protocyte_ensure_python_environment` of
`ProtocyteFunctions.cmake` and every command of the helper.

| Variable | In the code |
|---|---|
| `cmake`, `envLock` | where each configure is in the function, and the holder of its `file(LOCK)` |
| `helper`, `task` | where its helper process is, the command it runs and the operations it has left |
| `live` | the environment at the path |
| `tree` | each transaction's directory: staging, previous, discarded |
| `journal`, `owner` | what the owner of a transaction recorded (location, bindings, taint), and who holds its lease |
| `health`, `marked` | how far an environment is built; which carry the `.protocyte-ready` marker of this fingerprint |
| `envBudget`, `suffered` | accidents left, and those that happened |

One action per operation of the helper, with the time-out of CMake, a kill of
both, an orphaned helper, a failing file operation and the user's replacement
of the directory as accidents between any two. A call of owned transactions
is one step here: `OwnedTransactions` looks inside. The contents of the
fingerprint, the rewriting of entry points by `pip` and Windows are left out.

**`InstallProtoc`**: `step` and `run` are the installer and its locals,
`destination` and `rollback` the two paths, `sibling` and `bound` what each
sibling holds and the identity it recorded, `whole` the installations that are
complete and were run once. Every rename, binding and removal is an action; any
may raise (`StepFails`, with the handler of each step) or be the last
(`InstallerKilled`), and the user may put a directory at both paths.

**`DownloadArchive`**: `reader` and `worker` are the caller and the thread,
`events` the queue, `offered` what the thread is about to put, `cancelled`,
`active` and `response` what the two share. The server sends, errs or is
silent; `late` is the deadline, which may pass at any moment.

**`FormatterSupervision`**: `caller`, `drain`, `feeder` are the threads of
`_run_formatter_bounded`; `supervisor`, `formatter`, `child`, `stray` the
processes, `pipe` what is unread. The formatter may write, start
descendants inside its group or outside, ignore its input, hang or end.

**`PublishRelease`**: a publisher is a `Script` of requests, in the code's
order, and `request` its place in it; `releases` and `facts` are the service's
state. Every answer may be lost before or after it took effect. The service is
external: what it guarantees is stated in the module's header, and as little as the code needs.

**`ConstantExpressions`**: a parsed expression is a tree; `expression` and
`worth` are one evaluation. The recursive evaluator is translated with its
masking, type-only operands and rejections. The widths 32 and 64 are constants.

**`ConstantResolution`**: `stack` is the recursion of the resolver, one
constant per step, `done` the memo with depths, `verdict` the error. `WellFormed`
says what a schema is after protoc: the messages around a message, up to its package, exist,
and nothing is a package and a message. The loop over the enclosing messages
is a recursive function, so that it can be reasoned about.

**`MessageCodec`**: `held` is the message, `given` the records read since its
last reset, `sent` and `measured` what it serialized to and announced, `nesting`
the recursion depth of the context. The wire is a sequence of records; bytes
inside a record are its size. Covered are scalar, fixed, string, enum, message and map fields,
singular, optional, required, repeated, packed, fixed arrays and oneofs;
unknown fields and groups; cut records; limits of depth, elements, entries and bytes.

**`GeneratedMessage`**: `heap` holds whole messages, each cell with the
context its storage is from; `call` is the last call and its operands. A call is given
fuel: allocations that still succeed, so that each can be the one that fails.
Copies go through the staging message the code makes, element by element.
Moves are of whole messages, the operands of a clone do not overlap, a staging
message is whole and contains no operand; a map is a list here, the growth of
a vector one allocation, and the size limit of copied unknown fields is left out.

**`NameAllocation`**: `names` is what the scope of a class and the emitted
code use so far; `naming` the next batch: members, aliases, oneofs, private
members, code, template parameters. A name is the sequence of its parts between underscores, so
that what the allocator appends and escapes is visible; a digest is the owner's parts.
The namespaces of files and the validation across files are left out.

**`RootRegistry`**: what `OutputCoordinator` leaves out, the work on several
roots at once.

| Variable | In the code |
|---|---|
| `claims`, `recorded` | the build tree in each root's `claim.json`, the targets in its `plan.json` |
| `stagings` | which process made each staging directory; it lies beside its root and bears only the target's name, so that two roots side by side have the same one |
| `planned` | the `.plan` files of each build tree: roots and targets |
| `rootLock` | the holder of the registry lock and of each root's generation and publication lock |
| `phase`, `errand` | where a configuration, generation or reset is, and its locals: tree, layout, retired roots, locks to take, roots left |
| `rootBudget`, `deleted` | commands and accidents left; history: build trees that were deleted |

A path is a sequence of names, so that roots may lie in each other. A
configuration writes the plan files of its layout, takes all locks in their
order, validates, claims, retires and commits root after root, and removes the
plan files of the roots it no longer has a claim on; a kill may come between any two
steps. Within a root, a claim with its snapshot, or a plan with the retirement
of what it drops, is one step here: `OutputCoordinator` looks inside. The plan
files of one configuration are written at once.

## Runs

Sizes of the runs of `MCOutputCoordinator`: one process unless concurrency is the question, two outputs, one or two
targets, two transaction names (one pending and one being made is all that can
exist), two contents where a replacement matters. Budgets bound how often a
command starts and an accident happens; each is the smallest that contains
the sequence the run is about plus one command more, so that a successor meets
what the accident left. `BuildsStopped = TRUE` states the documented condition
of a reset ("Stop all builds that can use the output first"), extended until an
interrupted reset is finished.

| Run | Instance | What it shows |
|---|---|---|
| `power_loss` | one process, two configures and two generations, with a reset and either two losses or two edits, or without a reset and with a kill, a loss and an edit; `Reorder` | types (`TypeOK`); no surviving disk has a claim without its snapshot (`ClaimBacked`), has lost a committed output (`CommittedIsDurable`), or lacks an output without a reset intent (`IntentBeforePurge`); at most one pending transaction survives and it can be replayed (`PendingSound`); user bytes a command saw are kept (`UserBytesKept`); a committed plan leaves no unmodified output outside it recorded (`UnplannedIsRetired`) |
| `interrupted_reset` | one process, two of each command, a kill, a loss, builds stopped | a reset cut anywhere can be resumed (`ResetResumable`), leaves nothing (`ReleasedIsClean`) and takes only the claim whose token it holds (`ClaimImmutable`); the durable state implements `OutputStore` throughout (`ImplementsStore`) |
| `concurrent_builds` | two processes, two build trees, two targets, a reset, fair | generations do not interleave (`GenerationExclusive`); nothing is published under an uncommitted plan (`PublicationAuthorized`); no staging outlives the plan that records it (`StagingRecorded`); every command ends (`CommandsEnd`) |
| `orphaned_generation` | two processes, one parent dies alone | without the generation lock the publication lock still excludes (`PublicationExclusive`), and it and the plan check keep the committed state sound (`PublicationSafe`) |
| `owned_siblings` | two processes, two tokens; two installs and two accidents, or two installs, a recovery and one accident; fair | see below |
| `tooling` | eleven parts, each by itself; fair | see below |

The six other runs expect a violation; see "Where code and documentation disagree".

`owned_siblings` is the one run of `MCOwnedTransactions`. Accidents are a kill, a
loss of power, a failing system call and an interference with a sibling's names.
It shows that the destination lock excludes although its file comes and goes
(`DestinationExclusive`), and takes no lease, journal or lock with it (in
`RecoveryPossible`); that a sibling, its lease and its journal have one process at work on them
(`OneOwner`); that whatever a crash leaves, a directory has its lease and a
journal which agrees with the names, so that recovery
neither forgets it nor gets stuck on its own (`RecoveryPossible`); that a directory put in a
sibling's place is never removed (`ForeignKept`); and that commands end
(`CommandsEnd`). Two processes give every pair of roles (owner and recovery, two
installers, holder and waiter of each lock), and two tokens an old and a new sibling. Of three
inodes at most one is ever locked, which `OwnedProofs` proves; the others give a
faulty pruning room to go wrong. Two accidents
are needed for a recovery to meet a lease without a journal: a foreign
directory keeps it from being pruned after its owner was killed.

Two states are outside what is promised. A process killed between making the
directory and recording its identity leaves a directory that no recovery may
remove; the code refuses it for inspection, and `RecoveryPossible` excepts it. A
recovery trusts a journal it did not sync; if power is lost after a kill or a
failure, what it built on may go. `RecoveryPossible` leaves such siblings out.

`tooling` checks each part against what its component promises. Several
promises of one part are one property, whose conjuncts its module states by name.

| Property | Part and instance | What it says |
|---|---|---|
| `ToolingTypeOK` | the six parts with processes | the types of their variables |
| `EnvironmentSafe` | two configures, three transactions; a time-out and a kill, a kill and a failure, an orphan, or an edit; over a stale, a missing or a usable environment | helpers exclude each other; no previous environment is lost, nor what the user put there; what is reported as usable is; recovery accepts what any accident left |
| `InstallationKept` | up to three runs with two kills, three failures, both, an edit with a kill, or an edit with a failure; with and without an installation | a complete installation stays at one of the two paths, nothing else becomes live, only what is owned is restored, a failed run restores and a successful one is clean |
| `DownloadSafe` | the queue of two, a limit of four chunks and a server of five | the digest covers all that was sent, in order; the limit and the deadline hold; no archive and no open response are left |
| `FormatterSafe` | one unit of output at the limit on each of two pipes | the result is whole or an error; the limit holds over both; the group is dead, and killed only while its number is its own |
| `PublicationVerified` | two publishers, two artifacts, a third party's change | at most one publisher's release is published whatever others change, a publisher that returns has sealed exactly its artifacts, and no change before the last look is missed |
| `ValueIsCpp` | widths 3 and 4; every operator over the boundary values of each kind, and three levels of the operators that interact | the value and kind of an expression are those of C++; only what has none is rejected, but for an operand that is skipped |
| `ResolutionExact` | constants in a package, a message and one in that, perhaps shadowed; in the root and in a package below; a depth of three | every name means what scoping says, a schema is refused only for a fault it has, and a constant comes after what it needs |
| `ReadsMeaning`, `WireAgrees`, `LimitsKept` | five schemas, up to three records, depth two | a message holds what its records say, also after a failed merge; what is written means the message and is as long as announced; limits are kept and the depth is given back |
| `CopiesAll`, `FailureKeeps`, `ObjectsSound` | five sets of types, three objects of two contexts, two or three calls with zero to five allocations | a copy shows what its source showed, although they overlap; a failed call changes nothing; storage is of its message's own context, a case names its one member and what is absent is empty |
| `NamesSound` | 720 classes of three fields, half of them with a oneof, and eight named as members of the class or not | what shares a name overloads, every name is an identifier, the order of declarations does not matter, and only a message named as a fixed member is refused |
| `RootsSound` | two processes, two build trees, three roots, two of them side by side and one in another, layouts that move a target, nest roots or retire one; two configurations with a generation, a kill, a reset or a deleted tree, and a generation against a reset | claimed roots and recorded stagings keep apart, also halfway through a configuration; one that was accepted is accepted again from wherever a kill leaves it; every claim has a plan file in its tree, unless that was deleted; a generation's staging is its own until it has published; nobody waits for locks in a circle |
| `EveryPartEnds` | the first four of these and the resolution | whatever has begun ends |

Two configures and three transactions are one owner, the dead owner it
recovers and what it creates; accidents are bounded to the pairs in which the second
meets the recovery from the first. Narrow widths have every boundary (wrap-around, the least value and its
negation, shifts by the width) that wide ones have. Three records are a
message, its merge with another and one that fails after them. In `LeafValues` and
the schemata each construct of the code occurs at least once, and each pair that interacts.

**Fairness.** In `OutputCoordinator`, `FairSpec` has weak fairness of `Step(p)` for each process:
the operating system runs whatever can run. A waiter on a lock can run when
the lock is free. Weak fairness suffices because commands are finite in number.
The accidents, the user and the start of commands are not fair.
In `OwnedTransactions` it is strong fairness of each process's steps that are
not failures: a waiter polls a lock every 50 ms and the registry is held for
a few file operations, so a process that finds it free again and again gets it.
In `MCTooling` it is weak fairness of each thread and process of ours, and of
the clock that makes a deadline pass. Nothing makes a server answer (the socket's
time-out does, but `urlopen` may wait for a name for ever), nor a formatter or its
descendants go on, nor a service or a user act.

CHECK_DEADLOCK is off in `owned_siblings` and `tooling`, whose systems stop
when all commands have ended.

### Where code and documentation disagree

Six runs check what the documentation says and find it violated; the quoted
lines are in `PROJECT.json`.

1. `reset_not_resumable`: after an interrupted reset, configure and publish
   ignore `reset.json` and commit a new snapshot or plan. From then on every
   reset fails, and nothing removes the intent.
2. `reset_leaves_output`: a resumed reset does not recover a pending
   publication first. It deletes the transaction and the claim and leaves the
   output that was half published.
3. `resumed_intent_not_synced`: a reset killed between the rename of
   `reset.json` and its sync is resumed without the sync, so outputs may go
   before the intent is durable.
4. `wiped_claim_returns`: a claimless state directory is removed without first
   syncing the removal of the claim. A loss of power may leave the claim
   without its snapshot.
5. `orphan_shares_staging`: the generation lock belongs to `run-generation`. If
   only that process dies, its child goes on in the staging directory unlocked.
6. `skipped_operand`: the operand that `&&` or `||` skips is evaluated over
   zeros, and an error that only the zeros cause rejects the expression.

1 and 2 need builds that run after the interrupted reset; in the passing runs
about reset these are stopped. 3 and 4 need a kill and then, for harm, a loss
of power; the budgets of `power_loss` with a kill therefore have no reset.

What modelling showed beside these, and why no run states it:

- `validate` compares the `.plan` file with `plan.json`, and does not ask whether the target is in it.
  A generation that waits for its lock while a second configuration drops the target is
  valid under the new plan; and if a third configuration, with the target again, has then written its
  `.plan` file, which it does before it takes a lock, `target-outputs` answers from that one.
  So a staging directory is made that `plan.json` does not record, until the third configuration commits.
  `StagingRecorded` is checked for two configurations, and no theorem states it.
- A kill between the rename and the sync of `plan.json`, staging under that
  plan, and a loss of power leave a staging directory no plan records.
  `StagingRecorded` is checked without kills.
- The errors "The live environment and transaction were left unchanged"
  (`ProtocyteFunctions.cmake`, about 2522 and 2671) are not true when a helper
  is killed by its time-out after its rename. Recovery by the next configure is, and is checked
  (`PreviousOutlives`, `RecoveryAccepts`).
- An orphaned helper keeps the lease of its owner, so that a second configure
  skips it as live. It works on, but on its own transaction (`OneHelper`).
  Before it has claimed its transaction nothing keeps a recovery away from it, and a
  claim asks for the directory and its fingerprint, not for the location in the
  journal. So if a recovery is killed between journalling `detaching` and the rename,
  an orphan that was about to back up moves the previous environment into that
  directory, and the next recovery erases it. This takes an orphan and a kill;
  `PreviousOutlives` is checked for either, and proved where nothing is orphaned.
- A directory that the user puts at the environment's path between the
  helper's check and its rename is recognized, tainted and kept. If the helper is cut short between
  the rename and the taint, recovery takes it for its own and erases it; `TheirsKept`
  excepts that.
- The group of a formatter may be killed after its leader was reaped if a thread
  could not be started, or stalls for more than the half second of the join
  between claiming the kill and killing. The comment at `cpp.py` 305–309 says it may not;
  `GroupOwned` excepts the first; in the model the wait for a killed process does not expire, so the
  second does not arise.
- "Release creation raced ...; no assets were mutated" is also what a second
  look raises after this publisher's own assets were uploaded.
- A boxed message of a oneof drops the previous case before it allocates
  (`cpp.py` 2841–2863), and has none if that fails. The wiki's
  `Generated-Cpp-API.md:73` says oneofs "only commit case changes after the incoming
  value is ready"; `FailureKeeps` excepts the call.
- A top-level message named as a fixed member of its class (`Context`,
  `FieldNumber`, `parse`, ...) makes the allocator raise an error that nothing
  handles (`names.py` 281), where `Generated-Cpp-API.md:297` says that
  colliding declarations "are remapped". `NamesSound` says exactly which are refused.
- Retiring a root keeps its claim, and a layout with a root inside it, or around it, is refused
  as one "claimed by another build" although it is the same (`_validate_registry`), until
  that root is reset.
- A target that moves between two sibling roots which both stay in the layout is
  refused, whatever their order; it has to leave one in a configuration of its own first.
- A configuration that is refused has already written its `.plan` files; generations
  fail until the next one that is accepted, as they should.
- `CMake-API-Reference.md` says that deleting and recreating a build tree "keeps
  the claim and is supported". It is, for the same layout. The `.plan` files go with the tree, so a
  configuration that afterwards uses another root does not retire the first one, and
  one that moves a target to a sibling root is refused. `ClaimsKnown` excepts deleted trees.
- A field `clear_a` beside a field `a` gets the name of the helper as an overload on
  `const`, where `Plugin-Parameters.md:96` says that nullary helpers that collide
  are escaped as one group.

## Proofs

Everything below is proved from the assumptions of the modules' constants, and
those that a theorem names, for any number of processes, builds, outputs,
transactions, siblings and accidents.

In `OutputTypeProofs`:

- `PublicationIsExclusive == Spec => []PublicationExclusive`.
  `PublicationExclusive` is not inductive: it says nothing of who holds the
  lock. `PubInv` adds that whoever is in the section holds `pubLock`. Three
  lemmas cover the ways a step can preserve it: move inside or outside the section
  (`PubMove`), free the lock and be outside (`PubOut`), end (`PubLeave`). Only
  `AcquirePublication` needs an argument of its own. `PubStep` goes through the actions.
- `GenerationIsExclusive`: the same for the generation lock, which fails if a
  parent dies alone. The theorem assumes that it never does
  (`Budget["orphans"] = 0`), and `NoOrphans` carries the assumption through
  the behaviour. The run `orphan_shares_staging` shows it is needed.
- `TypeCorrect == Spec => []TypeOK`. Types alone are not inductive: publish
  writes `pending.json` from the committed snapshot, which has the right kind
  only because recovery found one, and rolls forward a transaction whose
  `pending.json` must still be there. The inductive invariant is `TypeInv ==
  TypeOK /\ PubInv /\ \A p \in Procs : Shape(p)`. `Shape` has two parts:
  `LocalOK`, what a process's locals hold at each label, and `DiskOK`, what
  the disk holds for a process at that label. One lemma per phase of the
  code (`LockingOK`, `ClaimingOK`, `RecoveringOK`, `ApplyingOK`, `GeneratingOK`,
  `ConfiguringOK`, `ResettingOK`) shows that each step keeps the types and
  the shape of the process that takes it. The other processes keep theirs
  (`OthersKeepShape`) because `st` and `tx` change only inside the publication
  section (`StepFrame`), where mutual exclusion lets one process be, and
  outside it `DiskOK` says nothing. A loss of power stops every process, and
  the user never writes to the state directory. So no step reads a
  claim, snapshot, `pending.json` or reset intent that is not there.

In `OutputDurabilityProofs`, of what may survive:

- `CrashInvariant == Spec => []CrashInv`, and from it `ClaimIsBacked`,
  `CommittedSurvives`, `PurgeIsAnnounced`, `PendingIsSound`,
  `PublicationIsAuthorized` and `PublicationIsSafe`. These properties speak of every
  disk a loss of power may leave; none is inductive, since what survives is
  right only because of what the process that writes knew before it wrote.
  `CrashInv` adds to `TypeInv`:
  - `Core`, how the versions that may survive fit together. There is at most one
    transaction, and only under a claim; every surviving snapshot carries the
    token of the surviving claim; one that is older than the present one survives only while
    the transaction leading to the present one is durable (`SnapsOK`), which is what
    makes the removal of a transaction wait for the sync of the snapshot; a
    surviving `pending.json` follows each surviving snapshot with all its payloads,
    and is of the plan that survives (`PendSafe`).
  - `Knows`, what the process in the publication section relies on at each
    label, of state (`KnowsState`), transaction (`KnowsTxn`) and outputs
    (`KnowsOut`). Nobody else need know anything: outside the section it says
    nothing (`OthersKnow`).
  - `PlansOwn` and `NoCutReset`, which carry what processes began with.

  The version sets are taken one file at a time, so the theorems hold for `Reorder`
  of either value. There is one lemma for each action of the
  coordinator; `StepKeepsCore` puts them together, and the accidents follow. All six assume
  `NoKilledReset`: no process is killed in a history that has resets. The
  runs `resumed_intent_not_synced` and `wiped_claim_returns` show what happens
  without it; losses of power are never restricted.
- `NoneIsNoRecord`, which `OutputSafety` assumes and TLC evaluates, says that
  `None` is none of the records that stand for files.

And of single steps, in the same module:

- `UserBytesAreKept == Spec => UserBytesKept`, without any assumption on
  accidents. `UserInv` says that what the user wrote has no other version, and that
  whoever is about to act on an output did not see the user's bytes there; only
  `CheckOutput` leads there (`ActAfterLook`).
- `ClaimIsImmutable == Spec => ClaimImmutable`, without any assumption either.
  `ClaimInv` says what makes a token a credential: a token that some build
  holds is that of a claim whose every version survives, or of none that can
  come back, because the next token is always a fresh one
  (`ClaimTokens`); and a process that may release or return a claim is beside
  that very claim (`KnowsClaim`).
- `PlanRetiresUnplanned`: `Spec => UnplannedIsRetired`, from `CrashInv` and
  `Stopped`, if builds are stopped for resets and nothing is killed beside them. A
  configuration recovers whatever was pending, retires what its plan drops and
  then writes the plan; `KnowsPlan` says of each label between that what is
  recorded outside the plan is the user's. It may fail for builds that run
  into an unfinished reset, whose intent they ignore (the first disagreement above).

In `OutputReleaseProofs`:

- `ResetIsResumable`: `Spec => []ResetResumable`, if builds are stopped for resets
  and the file system keeps the order of directory operations. `ResetInv` adds to
  `TypeInv`, `ClaimInv` and `Stopped` that every version of the state `Matches`
  (an intent beside a claim is about that claim, snapshot and plan), and `Ready`,
  what a process at each label may count on: a reset recovers only if it found no
  intent, and clears the state only after the claim. The run
  `reset_not_resumable` shows why builds must be stopped.
- `StoreIsImplemented`: `Spec => ImplementsStore`, if builds are stopped and
  nothing is killed in a history with resets, for either value of `Reorder`.
  `StoreInv` adds three parts to `CrashInv`: at most one older snapshot
  survives beside the present one (`OneOlder`), that of a claim not durable yet is
  empty (`Fresh`), and what is pending beside a reset's intent is committed
  already (`Quiescent`). `View` says without `CHOOSE`
  what store the disk stands for. Writes that a loss of power may take back are
  stutters (`KeepsSure`); the sync, recovery, removal or loss that makes one last
  is the abstract step (`Acquires`, `Releases`, `Advances`, `Commits`).
  `DiskStepImplements` goes through the cases. The run `interrupted_reset`
  checks the same refinement with a kill beside a reset on a file system that keeps the
  order, which the theorem does not cover.
- `ReleaseIsClean`: `Spec => []ReleasedIsClean`, if builds are stopped for resets
  and the file system keeps the order of directory operations. Kills and losses of power may
  fall anywhere, inside a reset too, so it rests on `ResetInv` and not on
  `CrashInv`. `CleanInv` adds to it:
  - `AllRecorded`: an output that may be left in the root is recorded by every state
    that may survive, in its snapshot or through a transaction that certainly
    survives with that snapshot and will be recovered. `Older` says when a snapshot
    other than the present one may survive. The property follows at once.
  - `Wary`, what whoever is in the publication section relies on at each label:
    that a rolled-forward publication has deleted, and synced, each output it
    drops before it writes the snapshot without it (`Ahead`); that a reset
    is about every output that may be left (`Deleting`), and that none is by
    the time it removes staging, transactions and claim (`Emptied`).
  - `OneReset`, `HeldToken` and `NoAnswer`: one reset at a time, with a token some build
    holds, which `StepOnTokens` and `KnowsClaim` need.

  `StepKeepsClean` has one lemma per kind of write, `StepKeepsWary` one per phase of the
  code, and `OthersKeepWary` covers the others as `OthersKnow` does. The
  order of writes is assumed because `ResetInv` needs it; that builds are stopped, because
  the run `reset_leaves_output` finds the property violated when they are not.

In `OwnedProofs`:

- `DestinationLockExcludes == Spec => []DestinationExclusive`. A lock belongs to
  an inode and the name may pass to another inode, so that installers hold
  locks does not exclude. The inductive invariant `LockInv` adds `NamedOnly`:
  only the inode that has the name is ever locked. It holds because the file is
  deleted under the registry by a process that has the lock or has just had it
  with nobody after it (`LockFilePruned`), and made again, under the registry too, when
  therefore no lock is left (`LockTaken`). `Leaving` says that a process
  that releases the lock does nothing but prune, so that its pruning may let go of
  the lock. All other steps move inside the command (`Moved`) and
  keep the lock, which `MovedKeeps` covers once.
- `OwnersAreAlone == Spec => []OneOwner` and `OwnedTypesCorrect == Spec =>
  []TypeOK`, from one inductive invariant, `OwnerInv`. A lease excludes only while
  it is locked, and a sibling has an owner before and after that: it is the
  registry, which `_claim_dead_owner` needs free, that keeps others away then. So
  `Knows` says that whoever is at work has either its lease locked or the registry
  and nobody the lease; and that a token that was drawn and waits has no files, so that
  nobody can claim it (`Apart`). `Local` ties each label to the location that is being
  journalled, and `Ranked` each location to a last generation, without which
  neither the generations nor the count of temporary files has its type. A step is `Sound`
  if it takes locks, writes files and binds tokens as the code of its process may
  (`TakesLocks`, `WritesFiles`, `Binds`), which leaves what others know
  (`OthersKeepKnowing`); one lemma per phase shows that each is. Most need only
  `QuietStep` (no files written) or `WritingStep` (those of its sibling).
- `ForeignIsKept == Spec => ForeignKept`: the directories of others at a
  sibling's names keep their number (`NamesSpared`), since the one rename is to a name that is
  free and the one removal is of what was checked to be ours.

- `RecoveryIsPossible == Spec => []RecoveryPossible`, for any mixture of kills,
  failures, interference and losses of power that the property covers. It speaks of what is left
  when whoever was at work is gone, and what a process writes next is right
  only because of what it knows of the disk. `RecoveryInv` adds to `OwnerInv`:
  - `Aware`, what a process at work on a sibling relies on at each label: which
    journal is the last (`FilesKnown`), even after a publication that failed behind
    its rename; that nothing bears the names before the directory is made and after it is
    removed, whoever interferes (`Vacant`), and which name it bears between
    (`NamesKnown`, while nobody does); that nothing is left of the token it is going to use
    (`Prepared`); that the state directory is there (`Housed`).
  - `Recoverable`, what may be found of each token: a directory has a lease and a
    journal (`Findable`), the last journal agrees with the names (`Agreeing`), and
    before any kill or failure what a loss of power may leave is what is there, but
    for the one process between a write and its sync (`FilesSettled`, `NamesSettled`).

  The journals and the names are written in two directories, so a loss of power may
  take back one and not the other. The proof shows that the code never
  has both unsynced before a failure: a journal is written when the names are settled (`FilesStep`),
  a name when the files are (`NamesStep`). What is pruned is not sure to anybody
  (`PruneStep`), and nobody touches the sibling of somebody else (`Tidies`,
  `OthersStayAware`). One lemma per phase shows that its steps are `Safe`; the
  state directory goes only when its last process found it empty (`StateDirStays`).

In `RootProofs`:

- `RootsStaySound == RootSpec => []RootsSound`, from `RootsAssumption`.
  `RootsSound` speaks of the registry, the plan files and the stagings, and is kept
  only because of who holds which locks and how far each errand is. The
  inductive invariant `RootInv` adds that in four parts:
  - `LockInv`: what a process knows of its errand, that a build tree has one
    configuration at a time, and that each process holds and wants together exactly the
    locks of its errand, none that it holds coming after one that it wants. So whoever
    writes the registry of a root holds its lock, and no two processes write the same
    entry (`OneWrites`).
  - `RegistryInv`: unclaimed roots have no plan, claimed ones and recorded stagings
    keep apart, and how far an accepted configuration is (`UnderwayOK`). Roots it
    gives up are emptied before those it keeps are written, so a staging handed
    from one root to another is never recorded twice.
  - `WorkInv`: a generation at work has the staging its plan records. It holds the
    generation lock of its root, and by `RegistryInv` the steps of others are
    about other stagings (`OthersWork`).
  - `PlansInv`: the plan files a configuration is about to store leave out no
    claim of its tree.

  That nobody waits in a circle is no consequence of a local condition: of the
  sets of processes that wait for a later lock than some given one, there is a
  smallest (the strict subsets of a finite set are well-founded), and the process
  it belongs to waits for nobody in the circle (`NobodyWaitsInCircle`).
- `RootTypesCorrect == RootSpec => []RootTypeOK`, from `RootsAssumption`. Which
  phase an errand reaches next depends on what it is about, which `RootInv` knows;
  beside it the types are inductive, in two halves: what is on disk
  (`DiskTyped`) and what the processes are at (`ErrandsTyped`).

In `DistributionProofs`:

- `InstallationIsKept == InstallSpec => []InstallTypeOK /\ InstallationKept`,
  from `InstallAssumption`. What the six conjuncts promise rests on what is on
  disk when a run is cut short, which the inductive invariant `InstallInv` says:
  - `Locals` and `Siblings`: what the run knows at each step, and that a swap runs
    beside no sibling but its own, as `Sweep` has erased all others.
  - `Wholes`: what is live, or may become so again, is complete or the user's. A
    sibling has a name nobody uses, so that a half extracted tree is never one of these.
  - `Records`: wherever the swap may have put what it replaces, a sibling has recorded
    its identity; so the next run owns the rollback it finds, and restores none that is not recorded.
  - `Lives`: while the user touches nothing, what a run promoted stays until it ends.
  - `Finding`: after one failure at most, where the installation the run found is, in each
    of the five situations from which the swap is undone. It is what makes
    `FailureRestores` provable: that property says nothing of the steps between.

  The proof found `UnownedKept` too strong as it was first stated: with a
  failure and an edit together, a first installation is taken back beside a rollback
  nobody owns. The run's budget did not combine the two; now it does.
- `DownloadIsSafe == DownloadSpec => [](DownloadTypeOK /\ DownloadSafe)`, from
  `DownloadAssumption`. `DigestCovers` is about the last moment; `Ordered` and `Tallied` of
  `DownloadInv` keep count at every moment before it: what is written, what
  waits and what is offered is what was received, in its order, unless the caller has given up, and only the
  last event is no chunk. `Closing` and `Placed` tie the response and the archive to
  where both threads are, `Timely` the events taken after the deadline.
- `PublicationIsVerified == PublishSpec => []PublishTypeOK /\ PublicationVerified`, from
  `PublishAssumption`, for any number of publishers, artifacts and changes, and for an
  immutable repository as for another. `ScriptLengths`, `RoundKinds`,
  `FinaleKinds` and the lemmas beside them say which request is at which place of a
  script of any length. Of `PubInv`,
  - `DraftKnown`, `UploadsKnown`, `DraftsDistinct`: what a publisher knows at each place;
  - `FinaleSeen`: each answer of the last looks is still true, or the change is noted;
  - `AloneWithDraft`: of two publishers whose drafts exist, at most one is past its look for
    other releases, as a draft of the other would have been seen; and the other's is not published.

  The proof found `PublishedOnce` wrong as first stated, as a bound on the published
  releases of the tag unless others touched one since the last upload: two releases that
  others had published before break it, more than the instance had. It now says of the
  publishers that one at most has its release published, whatever others do.

In `GeneratorProofs`:

- `FormatterIsSafe == FormatSpec => []FormatTypeOK /\ FormatterSafe`, from
  `FormatterAssumption`. Of `FormatInv`, `Accounted` says that what was collected
  and what waits in a pipe is all that was written, unless the limit was reached, and
  `Drained` why a thread has ended, so that the result is whole; `Claimed`, that
  one thread at a time holds the claim to kill the group, and that before anybody
  killed it the supervisor is not reaped, so that its number is its own;
  `Supervised` and `Reported`, that a formatter is alive under a supervisor only, and that the outcome is
  what this one reported.
- `ResolutionIsExact == ResolutionSpec => []ResolutionExact`, from
  `ResolutionAssumption`: for every set of well-formed schemas and every depth, where
  `ResolutionSpec` is the initial states and steps of the run's. It has two halves.
  - `LookupMeans`: what the code's loops and dictionaries find is what scoping says.
    `ClimbReaches` solves the recursion over the enclosing messages: the function that
    names the innermost level that declares the name satisfies its equation, and nothing
    else does, by the least level at which two solutions would differ.
  - `ResInv`: the memo holds for each constant the length of its longest chain
    (`DoneOK`: there is one of that length, and none that is longer), each
    frame of the stack has the depth of what it has named so far (`FrameOK`), and the
    stack is a chain without repetition (`Stacked`). So a constant
    met again closes a circle, in which there are chains of any length
    (`CircleChains`), and one more on a full stack is a chain that is too long. Conversely what is
    resolved has no such chain, whichever order the constants were taken in.

  The proof found the statement wrong outside of the schemas that were tried: `Innermost` let a
  message see the constants of packages around its own, and `Qualified` those
  of a package by a part of its name. Neither the code nor the wiki
  (`Protocyte-Extensions.md`, "Name Resolution") says so; the run now has a root package and one below.

In `EnvironmentProofs`, from `EnvAssumption`:

- `HelpersExclude == EnvSpec => [](EnvTypeOK /\ OneHelper)`, for every kind of
  accident. `EnvBase` is inductive by itself: who is in the section holds
  the lock (`Locked`), who acts on a transaction holds its lease and nobody else does
  (`Owning`), and a helper has the command and the plan its configure asked for (`Fits`).
- `EnvironmentRecovers == EnvSpec => [](OneHelper /\ PreviousFound /\ UsedIsUsable)
  /\ RecoveryAccepts`, for every kind of accident too, as these three say nothing after
  an orphan. Until there is one, `EnvInv` adds `Accounted`:
  - `Single`: there is one transaction at most, which the configure in the section
    knows (`Known`), as recovery goes before creation and leaves none.
  - `Consistent`: what its journal says of its directory, whatever the user does. A
    previous environment is beside a cleanup only if something verified was committed, and
    what is committed is usable and the transaction's own.
  - `Situated`: which directory is at the path, staged, set aside or discarded, as
    long as the user does not interfere. Every plan that recovery may choose follows from it.
  - `Aware`: how far the configure has come (`Advanced`), the plan of its
    helper at each label (`Planning`), and, without edits, what that helper finds (`Finds`).
    That recovery accepts is `Finds` at its two checks.
  - `Spared`: while no helper is cut short, the user's directory is in a transaction only
    between a rename and the look at what was renamed.
- `EnvironmentIsSafe == NoOrphans => (EnvSpec => EnvironmentSafe)` adds `PreviousOutlives`
  and `TheirsKept`, which speak of steps after an orphan as well. With an orphan
  and a kill the first does fail, as said above; so the theorem assumes there is none.

  The proof found that two cases of `ResumeCleanup` overlapped; they gave the
  same step, but `CASE` promises neither.

Model-checked only are liveness under fairness, which is out of TLAPS's reach;
the coordinator's refinement of its store when a kill falls beside a reset;
`PreviousOutlives` and `TheirsKept` beside an orphan; and the properties of the generator and its runtime
(`ValueIsCpp`, `ReadsMeaning`, `WireAgrees`, `LimitsKept`, `ObjectsSound`,
`CopiesAll`, `FailureKeeps`, `NamesSound`). Most of these are about recursive
operators, which TLAPS cannot reason about. `StagingRecorded` is
true of two configurations only, as said above. `ToolingTypeOK` is named by no
theorem, for its module has recursive operators; each of its six conjuncts is
proved with the types of its part.

## Not modelled

| Part | Why |
|---|---|
| Case-spelling aliases of a root, links and mounts in its path | Properties of one function of a path, which the repository's tests enumerate |
| Several roots in `OutputCoordinator` itself | A second root multiplies its states; `RootRegistry` has what they share, in coarser steps |
| Windows branches (job objects, handles, sharing modes), permission and mount checks | Other system calls for the same steps; a model of the POSIX ones says nothing of them |
| Further owned paths of `OwnedTransactions` in its own module | `InstallProtoc` and `ManagedEnvironment` model what is bound and claimed, one step per call |
| Floating-point and string constants, the parser of expressions, the text the generator emits | Library arithmetic and formatting; nothing to interleave or to fail halfway |
| Reflection, views, the debugger and the layout of generated files | Presentation |
| Namespaces of files and their validation across files | The same allocator as `NameAllocation`, over more scopes |
| Descriptor sets and import scanning | Parsers; their closures are planned below |
| Allocators, hash tables, streams, bytes of varints | One operation has no steps between which others act; the repository's own unit tests and sanitizer runs reach them |
| CMake target set-up, tool discovery, CI and release scripts but the publisher | Sequential, with no state between two steps |

## Plan

1. `DescriptorClosure`: the transitive closure and cycle detection of
   descriptor sets and imports against reachability.
2. Theorems: the refinement when a kill falls beside a reset, over `CleanInv`.
   The modules of the parts are complete by themselves and take their bounds as constants.
