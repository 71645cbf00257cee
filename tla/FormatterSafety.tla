-------------------------- MODULE FormatterSafety --------------------------
(* The types of FormatterSupervision and what the caller may rely on when   *)
(* it has its result or its exception.                                      *)
EXTENDS FormatterSupervision

Lives == {None, "running", "holding", "dead"}
Statuses == {None, "launch_error", "succeeded", "failed"}

(* Every thread and process is at a step of the code.                       *)
FormatTypeOK ==
    /\ caller \in {"idle", "start_stdout", "start_stderr", "start_stdin", "abort", "abort_reap",
                   "abort_join", "wait", "terminate", "kill", "reap", "join", "raise"} \cup Ends
    /\ drain \in [Outputs -> {None, "read", "look", "claim", "kill", "closed"}]
    /\ feeder \in {None, "write", "closed"}
    /\ supervisor \in {None, "launching", "running", "holding", "dead", "reaped"}
    /\ formatter \in Lives \cup {"succeeded", "failed"} /\ {child, stray} \subseteq Lives
    /\ pipe \in [Outputs -> 0 .. PipeSize] /\ {wrote, kept} \subseteq [Outputs -> 0 .. MostWritten]
    /\ {overflow, requested, expired} \subseteq BOOLEAN
    /\ status \in Statuses
    /\ outcome \in {None, "succeeded", "failed", "timeout", "error", "descendants"}

(* A result is whole: all that was written was collected, by threads that   *)
(* have ended, though the group was killed before they had drained it.      *)
ResultWhole ==
    caller = "returned" => kept = wrote /\ ThreadsDone /\ outcome = status

(* Both outputs together never take more memory than the limit.             *)
LimitKept == Size <= OutputLimit

(* However the run ends, nobody of the formatter's group outlives it.       *)
NoDescendants == caller \in Ends => GroupDead

(* The group is killed only while its leader is not reaped, so that its     *)
(* number means nobody else; a thread that could not be started is the      *)
(* exception, as its cleanup does not ask who is killing.                   *)
GroupOwned ==
    [][\A o \in Outputs : drain[o] = "kill" /\ drain'[o] # "kill" /\ feeder # None
        => supervisor # "reaped"]_fmVars

(* The caller ends within its deadlines, whatever the formatter does and    *)
(* whoever keeps its pipes open.                                            *)
FormatterEnds == caller = "start_stdout" ~> caller \in Ends

(* The threads end too, unless a process that left the group keeps the      *)
(* pipes.                                                                   *)
ThreadsEnd == caller \in Ends /\ ~Alive(stray) ~> ThreadsDone

(* The caller gets all of the output or an error, within the limit, and     *)
(* nobody but the formatter's group is killed, and all of that.             *)
FormatterSafe == [](ResultWhole /\ LimitKept /\ NoDescendants) /\ GroupOwned
============================================================================
