------------------------ MODULE FormatterSupervision ------------------------
(***************************************************************************)
(* _run_formatter_bounded of cpp.py and the supervisor it runs on POSIX,   *)
(* _formatter_supervisor.py.  The supervisor leads the process group of    *)
(* the formatter, reports how it ended and stays until the group is        *)
(* killed.  Two threads drain the formatter's output under one limit, one  *)
(* feeds its input, and the caller waits for the status up to a deadline.  *)
(*                                                                         *)
(* Output is counted in reads.  The formatter may write, start a           *)
(* descendant in its group or outside it, ignore its input, hang or end.   *)
(* The wait for a killed process does not expire; every other timed wait   *)
(* may, whenever it is not already over.                                   *)
(***************************************************************************)
EXTENDS Absent, Naturals

CONSTANTS
    OutputLimit,   \* max_output_bytes, in reads
    PipeSize,      \* unread output a pipe holds
    MostWritten    \* bound on what is written to one pipe
ASSUME FormatterAssumption ==
    /\ OutputLimit \in Nat /\ PipeSize \in Nat \ {0} /\ MostWritten \in Nat
    /\ None \notin {"read", "look", "claim", "kill", "closed", "write", "launching", "running",
                    "holding", "dead", "reaped", "succeeded", "failed", "launch_error"}

VARIABLES
    caller,       \* where the caller is
    drain,        \* where the thread of each output is
    feeder,       \* where the thread of the input is
    supervisor,   \* its life
    formatter,    \* its life
    child,        \* a descendant in the group
    stray,        \* a descendant outside it
    pipe,         \* unread output
    wrote,        \* history: all that was written to each pipe
    kept,         \* what each thread has collected
    overflow,     \* output_limit_reached
    requested,    \* termination_requested
    expired,      \* whether the deadline has passed
    status,       \* what the supervisor reported
    outcome       \* what the caller knows so far

processes == <<supervisor, formatter, child, stray>>
outputs == <<pipe, wrote>>
fmVars == <<caller, drain, feeder, processes, outputs, kept, overflow, requested, expired,
            status, outcome>>

Outputs == {"stdout", "stderr"}
Ends == {"returned", "timeout", "limit", "error"}
Alive(life) == life \in {"running", "holding"}
(* Who holds the far end of the pipes: the supervisor lets go once it has   *)
(* started the formatter.                                                   *)
Held == supervisor = "launching" \/ Alive(formatter) \/ Alive(child) \/ Alive(stray)
GroupDead == ~Alive(formatter) /\ ~Alive(child) /\ supervisor \in {"dead", "reaped"}

(* killpg: everything in the group dies, wherever it is.                    *)
Killed(life) == IF Alive(life) THEN "dead" ELSE life
KillGroup ==
    /\ supervisor' = IF supervisor = "reaped" THEN "reaped" ELSE "dead"
    /\ formatter' = Killed(formatter) /\ child' = Killed(child)
    /\ UNCHANGED stray

---------------------------------------------------------------------------
(* The supervisor and what it supervises *)

Launch ==
    /\ supervisor = "launching" /\ supervisor' = "running"
    /\ \/ formatter' = "running" /\ UNCHANGED status
       \/ status' = "launch_error" /\ UNCHANGED formatter
    /\ UNCHANGED <<caller, drain, feeder, child, stray, outputs, kept, overflow, requested, expired, outcome>>
Report ==
    /\ supervisor = "running" /\ formatter \in {"succeeded", "failed"}
    /\ status' = formatter /\ supervisor' = "holding"
    /\ UNCHANGED <<caller, drain, feeder, formatter, child, stray, outputs, kept, overflow, requested,
                   expired, outcome>>
SupervisorStep == Launch \/ Report

Write(life, o) ==
    /\ Alive(life) /\ pipe[o] < PipeSize /\ wrote[o] < MostWritten
    /\ pipe' = [pipe EXCEPT ![o] = @ + 1] /\ wrote' = [wrote EXCEPT ![o] = @ + 1]
    /\ UNCHANGED <<caller, drain, feeder, processes, kept, overflow, requested, expired, status, outcome>>
EndFormatter ==
    /\ Alive(formatter) /\ formatter' \in {"succeeded", "failed"}
    /\ UNCHANGED <<caller, drain, feeder, supervisor, child, stray, outputs, kept, overflow, requested,
                   expired, status, outcome>>
StartDescendant ==
    /\ Alive(formatter)
    /\ \/ child = None /\ child' = "running" /\ UNCHANGED stray
       \/ stray = None /\ stray' = "running" /\ UNCHANGED child
    /\ UNCHANGED <<caller, drain, feeder, supervisor, formatter, outputs, kept, overflow, requested,
                   expired, status, outcome>>
EndDescendant ==
    /\ \/ Alive(child) /\ child' = "dead" /\ UNCHANGED stray
       \/ Alive(stray) /\ stray' = "dead" /\ UNCHANGED child
    /\ UNCHANGED <<caller, drain, feeder, supervisor, formatter, outputs, kept, overflow, requested,
                   expired, status, outcome>>
ToolStep ==
    \/ \E o \in Outputs : Write(formatter, o) \/ Write(child, o) \/ Write(stray, o)
    \/ EndFormatter \/ StartDescendant \/ EndDescendant

---------------------------------------------------------------------------
(* The threads *)

(* read_stream: the limit of both outputs is checked and charged under one  *)
(* lock.                                                                    *)
Size == kept["stdout"] + kept["stderr"]
Fits == Size < OutputLimit
Read(o) ==
    /\ drain[o] = "read"
    /\ \/ /\ pipe[o] > 0 /\ pipe' = [pipe EXCEPT ![o] = @ - 1]
          /\ IF Fits THEN kept' = [kept EXCEPT ![o] = @ + 1] /\ UNCHANGED overflow
             ELSE overflow' = TRUE /\ UNCHANGED kept
          /\ drain' = [drain EXCEPT ![o] = "look"]
       \/ /\ pipe[o] = 0 /\ ~Held
          /\ drain' = [drain EXCEPT ![o] = "closed"] /\ UNCHANGED <<pipe, kept, overflow>>
    /\ UNCHANGED <<caller, feeder, processes, wrote, requested, expired, status, outcome>>
Look(o) ==
    /\ drain[o] = "look"
    /\ drain' = [drain EXCEPT ![o] = IF overflow THEN "claim" ELSE "read"]
    /\ UNCHANGED <<caller, feeder, processes, outputs, kept, overflow, requested, expired, status, outcome>>
(* terminate_process_tree: the first to ask kills, the others go on.        *)
ClaimByDrain(o) ==
    /\ drain[o] = "claim" /\ requested' = TRUE
    /\ drain' = [drain EXCEPT ![o] = IF requested THEN "closed" ELSE "kill"]
    /\ UNCHANGED <<caller, feeder, processes, outputs, kept, overflow, expired, status, outcome>>
KillByDrain(o) ==
    /\ drain[o] = "kill" /\ KillGroup
    /\ drain' = [drain EXCEPT ![o] = "closed"]
    /\ UNCHANGED <<caller, feeder, outputs, kept, overflow, requested, expired, status, outcome>>
(* write_input: it ends when the formatter has read all, or nobody can.     *)
Feed ==
    /\ feeder = "write" /\ (Alive(formatter) \/ ~Held)
    /\ feeder' = "closed"
    /\ UNCHANGED <<caller, drain, processes, outputs, kept, overflow, requested, expired, status, outcome>>
DrainStep(o) == Read(o) \/ Look(o) \/ ClaimByDrain(o) \/ KillByDrain(o)

---------------------------------------------------------------------------
(* The caller *)

CallerAt(from, to) == caller = from /\ caller' = to
ThreadsDone == feeder \in {None, "closed"} /\ \A o \in Outputs : drain[o] \in {None, "closed"}
(* The threads are started one by one, and each start may fail.             *)
StartThread ==
    /\ \/ /\ CallerAt("start_stdout", "start_stderr")
          /\ drain' = [drain EXCEPT !["stdout"] = "read"] /\ UNCHANGED feeder
       \/ /\ CallerAt("start_stderr", "start_stdin")
          /\ drain' = [drain EXCEPT !["stderr"] = "read"] /\ UNCHANGED feeder
       \/ CallerAt("start_stdin", "wait") /\ feeder' = "write" /\ UNCHANGED drain
    /\ UNCHANGED <<processes, outputs, kept, overflow, requested, expired, status, outcome>>
StartFails ==
    /\ caller \in {"start_stdout", "start_stderr", "start_stdin"} /\ caller' = "abort"
    /\ UNCHANGED <<drain, feeder, processes, outputs, kept, overflow, requested, expired, status, outcome>>
(* _cleanup_formatter_setup_failure kills without asking who already has.   *)
Abort ==
    /\ CallerAt("abort", "abort_reap") /\ KillGroup
    /\ UNCHANGED <<drain, feeder, outputs, kept, overflow, requested, expired, status, outcome>>
AbortReap ==
    /\ CallerAt("abort_reap", "abort_join") /\ supervisor = "dead"
    /\ supervisor' = "reaped"
    /\ UNCHANGED <<drain, feeder, formatter, child, stray, outputs, kept, overflow, requested, expired,
                   status, outcome>>
AbortJoin ==
    /\ CallerAt("abort_join", "error")
    /\ UNCHANGED <<drain, feeder, processes, outputs, kept, overflow, requested, expired, status, outcome>>

(* wait_for_formatter_exit *)
Wait ==
    /\ CallerAt("wait", "terminate")
    /\ \/ ~expired /\ status # None
          /\ outcome' = IF status = "launch_error" THEN "error" ELSE status
       \/ expired /\ outcome' = "timeout"
       \/ /\ ~expired /\ status = None /\ supervisor = "dead"
          /\ outcome' = IF overflow THEN None ELSE "error"
    /\ UNCHANGED <<drain, feeder, processes, outputs, kept, overflow, requested, expired, status>>
(* Faulty: whoever wants the group dead kills it.                           *)
TerminateAnyway ==
    /\ caller = "terminate" /\ requested' = TRUE
    /\ caller' = "kill"
    /\ UNCHANGED <<drain, feeder, processes, outputs, kept, overflow, expired, status, outcome>>
Terminate ==
    /\ caller = "terminate" /\ requested' = TRUE
    /\ caller' = IF requested THEN "reap" ELSE "kill"
    /\ UNCHANGED <<drain, feeder, processes, outputs, kept, overflow, expired, status, outcome>>
Kill ==
    /\ CallerAt("kill", "reap") /\ KillGroup
    /\ UNCHANGED <<drain, feeder, outputs, kept, overflow, requested, expired, status, outcome>>
Reap ==
    /\ CallerAt("reap", "join") /\ supervisor = "dead"
    /\ supervisor' = "reaped"
    /\ UNCHANGED <<drain, feeder, formatter, child, stray, outputs, kept, overflow, requested, expired,
                   status, outcome>>
(* The threads have half a second to end, and then another.                 *)
Join ==
    /\ CallerAt("join", "raise")
    /\ \/ ThreadsDone /\ UNCHANGED outcome
       \/ /\ ~ThreadsDone
          /\ outcome' = IF outcome = "timeout" \/ overflow THEN outcome
                        ELSE IF outcome = "error" THEN "error" ELSE "descendants"
    /\ UNCHANGED <<drain, feeder, processes, outputs, kept, overflow, requested, expired, status>>
Raise ==
    /\ caller = "raise"
    /\ caller' = CASE outcome = "timeout" -> "timeout"
                   [] outcome # "timeout" /\ overflow -> "limit"
                   [] ~overflow /\ outcome \in {"error", "descendants", None} -> "error"
                   [] ~overflow /\ outcome \in {"succeeded", "failed"} -> "returned"
    /\ UNCHANGED <<drain, feeder, processes, outputs, kept, overflow, requested, expired, status, outcome>>
CallerStep ==
    StartThread \/ StartFails \/ Abort \/ AbortReap \/ AbortJoin \/ Wait \/ Terminate \/ Kill
    \/ Reap \/ Join \/ Raise

Expire ==
    /\ caller # "idle" /\ ~expired /\ expired' = TRUE
    /\ UNCHANGED <<caller, drain, feeder, processes, outputs, kept, overflow, requested, status, outcome>>

(* _start_formatter_process                                                 *)
StartSupervisor ==
    /\ CallerAt("idle", "start_stdout") /\ supervisor' = "launching"
    /\ UNCHANGED <<drain, feeder, formatter, child, stray, outputs, kept, overflow, requested, expired,
                   status, outcome>>
FormatInit ==
    /\ caller = "idle" /\ drain = [o \in Outputs |-> None] /\ feeder = None
    /\ supervisor = None /\ formatter = None /\ child = None /\ stray = None
    /\ pipe = [o \in Outputs |-> 0] /\ wrote = pipe /\ kept = pipe
    /\ overflow = FALSE /\ requested = FALSE /\ expired = FALSE /\ status = None /\ outcome = None
FormatNext ==
    \/ StartSupervisor \/ SupervisorStep \/ ToolStep \/ Feed \/ CallerStep \/ Expire
    \/ \E o \in Outputs : DrainStep(o)
(* The kernel runs every thread, and the clock; nothing makes the formatter *)
(* or its descendants go on.                                                *)
FormatFairness ==
    /\ WF_fmVars(SupervisorStep) /\ WF_fmVars(CallerStep) /\ WF_fmVars(Expire)
    /\ WF_fmVars(Feed) /\ \A o \in Outputs : WF_fmVars(DrainStep(o))
FormatSpec == FormatInit /\ [][FormatNext]_fmVars
============================================================================
