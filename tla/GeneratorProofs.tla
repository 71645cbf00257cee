-------------------------- MODULE GeneratorProofs --------------------------
(***************************************************************************)
(* Proofs about the generator, for every size of an instance: the          *)
(* supervision of clang-format and the resolution of constants.            *)
(*                                                                         *)
(* The result of a formatter is trusted because the drains have collected  *)
(* all that was written unless the limit was reached, the group is killed  *)
(* by one thread alone, before its supervisor is reaped, and the outcome   *)
(* is what that supervisor reported.  A constant is resolved exactly when  *)
(* no chain from it is too long, because the memo holds for each the       *)
(* length of its longest chain, and the stack is a chain itself.           *)
(***************************************************************************)
EXTENDS FormatterSafety, ResolutionSafety, SequenceTheorems, WellFoundedInduction, TLAPS

---------------------------------------------------------------------------
(* The supervision of the formatter *)

(* The parts of the types.                                                  *)
ThreadsTyped ==
    /\ caller \in {"idle", "start_stdout", "start_stderr", "start_stdin", "abort", "abort_reap",
                   "abort_join", "wait", "terminate", "kill", "reap", "join", "raise"} \cup Ends
    /\ drain \in [Outputs -> {None, "read", "look", "claim", "kill", "closed"}]
    /\ feeder \in {None, "write", "closed"}
LivesTyped ==
    /\ supervisor \in {None, "launching", "running", "holding", "dead", "reaped"}
    /\ formatter \in Lives \cup {"succeeded", "failed"} /\ child \in Lives /\ stray \in Lives
OutputsTyped ==
    /\ pipe \in [Outputs -> 0 .. PipeSize]
    /\ wrote \in [Outputs -> 0 .. MostWritten] /\ kept \in [Outputs -> 0 .. MostWritten]
KnownTyped ==
    /\ overflow \in BOOLEAN /\ requested \in BOOLEAN /\ expired \in BOOLEAN
    /\ status \in Statuses
    /\ outcome \in {None, "succeeded", "failed", "timeout", "error", "descendants"}

(* What a thread collected and what waits for it is all that was written,   *)
(* unless the limit was reached and it threw some away.                     *)
Accounted ==
    \A o \in Outputs :
        /\ kept[o] + pipe[o] <= wrote[o]
        /\ ~overflow => kept[o] + pipe[o] = wrote[o]
(* The life of the supervisor, and what can run and be reported beside it.  *)
Supervised ==
    /\ caller = "idle" <=> supervisor = None
    /\ supervisor \in {None, "launching"} =>
          formatter = None /\ child = None /\ stray = None /\ status = None
    /\ status \in {"succeeded", "failed"} => supervisor \notin {"launching", "running"}
    /\ status = "launch_error" => formatter = None
    /\ supervisor \in {"dead", "reaped"} => ~Alive(formatter) /\ ~Alive(child)
    /\ caller \in {"join", "raise", "abort_join"} \cup Ends => supervisor = "reaped"
(* Which threads have been started.                                         *)
Starting == {"idle", "start_stdout", "start_stderr", "start_stdin"}
Aborting == {"abort", "abort_reap", "abort_join"}
Past == {"wait", "terminate", "kill", "reap", "join", "raise", "returned", "timeout", "limit"}
Started ==
    /\ caller \in {"idle", "start_stdout"} => \A o \in Outputs : drain[o] = None
    /\ caller = "start_stderr" => drain["stderr"] = None
    /\ caller \in {"start_stderr", "start_stdin"} \cup Past => drain["stdout"] # None
    /\ caller \in {"start_stdin"} \cup Past => drain["stderr"] # None
    /\ caller \in Starting \cup Aborting => feeder = None
    /\ caller \in Past => feeder # None
(* A thread ends when its pipe has, or because the limit was reached.       *)
Drained ==
    \A o \in Outputs :
        /\ drain[o] \in {"claim", "kill"} => overflow
        /\ drain[o] = "closed" /\ ~overflow => pipe[o] = 0 /\ ~Held
(* One at a time holds the claim to kill the group, and while it does, or   *)
(* nobody has claimed it, the group is not killed, unless setup failed.     *)
Aborted == caller \in {"abort_reap", "abort_join"} \/ (caller \in Ends /\ feeder = None)
Killers == {o \in Outputs : drain[o] = "kill"}
Claimed ==
    /\ caller = "kill" => Killers = {}
    /\ \A o, p \in Killers : o = p
    /\ Killers # {} \/ caller = "kill" => requested
    /\ ~Aborted /\ (Killers # {} \/ caller = "kill" \/ ~requested) =>
          supervisor \notin {"dead", "reaped"}
(* The result is what the supervisor reported.                              *)
Result == outcome \in {"succeeded", "failed"}
Reported ==
    /\ caller \in {"terminate", "kill", "reap", "join", "raise"} /\ Result => outcome = status
    /\ caller = "raise" /\ Result => ThreadsDone \/ overflow
    /\ caller = "returned" => Result /\ outcome = status /\ ThreadsDone /\ ~overflow
FormatInv ==
    /\ ThreadsTyped /\ LivesTyped /\ OutputsTyped /\ KnownTyped
    /\ Accounted /\ LimitKept /\ Supervised /\ Started /\ Drained /\ Claimed /\ Reported

(* The steps, each of one thread, process or part of the caller.             *)
LEMMA FormatSteps == [FormatNext]_fmVars =>
    \/ StartSupervisor
    \/ Launch
    \/ Report
    \/ \E life \in {formatter, child, stray} : \E o \in Outputs : Write(life, o)
    \/ EndFormatter
    \/ StartDescendant
    \/ EndDescendant
    \/ \E o \in Outputs : Read(o)
    \/ \E o \in Outputs : Look(o)
    \/ \E o \in Outputs : ClaimByDrain(o)
    \/ \E o \in Outputs : KillByDrain(o)
    \/ Feed
    \/ StartThread
    \/ StartFails
    \/ Abort
    \/ AbortReap
    \/ AbortJoin
    \/ Wait
    \/ Terminate
    \/ Kill
    \/ Reap
    \/ Join
    \/ Raise
    \/ Expire
    \/ UNCHANGED fmVars
BY DEF FormatNext, SupervisorStep, ToolStep, CallerStep, DrainStep

(* Every step leaves every thread at a step of the code.                    *)
LEMMA ThreadTypesKept == ThreadsTyped /\ KnownTyped /\ [FormatNext]_fmVars => ThreadsTyped'
<1> SUFFICES ASSUME ThreadsTyped, KnownTyped, [FormatNext]_fmVars PROVE ThreadsTyped'
  OBVIOUS
<1> USE FormatterAssumption
<1>1. CASE StartSupervisor
  BY <1>1 DEF StartSupervisor, ThreadsTyped, KnownTyped, Ends, CallerAt, KillGroup, Killed, Alive, processes, outputs
<1>2. ASSUME NEW o \in Outputs, Read(o) PROVE ThreadsTyped'
  BY <1>2 DEF Read, ThreadsTyped, KnownTyped, Ends, CallerAt, KillGroup, Killed, Alive, processes, outputs
<1>3. ASSUME NEW o \in Outputs, Look(o) PROVE ThreadsTyped'
  BY <1>3 DEF Look, ThreadsTyped, KnownTyped, Ends, CallerAt, KillGroup, Killed, Alive, processes, outputs
<1>4. ASSUME NEW o \in Outputs, ClaimByDrain(o) PROVE ThreadsTyped'
  BY <1>4 DEF ClaimByDrain, ThreadsTyped, KnownTyped, Ends, CallerAt, KillGroup, Killed, Alive, processes, outputs
<1>5. ASSUME NEW o \in Outputs, KillByDrain(o) PROVE ThreadsTyped'
  BY <1>5 DEF KillByDrain, ThreadsTyped, KnownTyped, Ends, CallerAt, KillGroup, Killed, Alive, processes, outputs
<1>6. CASE Feed
  BY <1>6 DEF Feed, ThreadsTyped, KnownTyped, Ends, CallerAt, KillGroup, Killed, Alive, processes, outputs
<1>7. CASE StartThread
  BY <1>7 DEF StartThread, ThreadsTyped, KnownTyped, Ends, CallerAt, KillGroup, Killed, Alive, processes, outputs
<1>8. CASE StartFails
  BY <1>8 DEF StartFails, ThreadsTyped, KnownTyped, Ends, CallerAt, KillGroup, Killed, Alive, processes, outputs
<1>9. CASE Abort
  BY <1>9 DEF Abort, ThreadsTyped, KnownTyped, Ends, CallerAt, KillGroup, Killed, Alive, processes, outputs
<1>10. CASE AbortReap
  BY <1>10 DEF AbortReap, ThreadsTyped, KnownTyped, Ends, CallerAt, KillGroup, Killed, Alive, processes, outputs
<1>11. CASE AbortJoin
  BY <1>11 DEF AbortJoin, ThreadsTyped, KnownTyped, Ends, CallerAt, KillGroup, Killed, Alive, processes, outputs
<1>12. CASE Wait
  BY <1>12 DEF Wait, ThreadsTyped, KnownTyped, Ends, CallerAt, KillGroup, Killed, Alive, processes, outputs
<1>13. CASE Terminate
  BY <1>13 DEF Terminate, ThreadsTyped, KnownTyped, Ends, CallerAt, KillGroup, Killed, Alive, processes, outputs
<1>14. CASE Kill
  BY <1>14 DEF Kill, ThreadsTyped, KnownTyped, Ends, CallerAt, KillGroup, Killed, Alive, processes, outputs
<1>15. CASE Reap
  BY <1>15 DEF Reap, ThreadsTyped, KnownTyped, Ends, CallerAt, KillGroup, Killed, Alive, processes, outputs
<1>16. CASE Join
  BY <1>16 DEF Join, ThreadsTyped, KnownTyped, Ends, CallerAt, KillGroup, Killed, Alive, processes, outputs
<1>17. CASE Raise
  BY <1>17 DEF Raise, ThreadsTyped, KnownTyped, Ends, CallerAt, KillGroup, Killed, Alive, processes, outputs
<1>18. CASE \/ Launch
            \/ Report
            \/ \E life \in {formatter, child, stray} : \E o \in Outputs : Write(life, o)
            \/ EndFormatter
            \/ StartDescendant
            \/ EndDescendant
            \/ Expire
            \/ UNCHANGED fmVars
  <2>1. UNCHANGED <<caller, drain, feeder>>
    BY <1>18 DEF Launch, Report, Write, EndFormatter, StartDescendant, EndDescendant, Expire, fmVars, CallerAt, processes, outputs
  <2> QED BY <2>1 DEF ThreadsTyped, KnownTyped, Ends, Alive
<1> QED BY <1>1, <1>2, <1>3, <1>4, <1>5, <1>6, <1>7, <1>8, <1>9, <1>10, <1>11, <1>12, <1>13, <1>14, <1>15, <1>16, <1>17, <1>18, FormatSteps

(* Every process has one of its lives.                                      *)
LEMMA LifeTypesKept == LivesTyped /\ [FormatNext]_fmVars => LivesTyped'
<1> SUFFICES ASSUME LivesTyped, [FormatNext]_fmVars PROVE LivesTyped'
  OBVIOUS
<1> USE FormatterAssumption
<1>1. CASE StartSupervisor
  BY <1>1 DEF StartSupervisor, LivesTyped, Lives, CallerAt, KillGroup, Killed, Alive, processes, outputs
<1>2. CASE Launch
  BY <1>2 DEF Launch, LivesTyped, Lives, CallerAt, KillGroup, Killed, Alive, processes, outputs
<1>3. CASE Report
  BY <1>3 DEF Report, LivesTyped, Lives, CallerAt, KillGroup, Killed, Alive, processes, outputs
<1>4. CASE EndFormatter
  BY <1>4 DEF EndFormatter, LivesTyped, Lives, CallerAt, KillGroup, Killed, Alive, processes, outputs
<1>5. CASE StartDescendant
  BY <1>5 DEF StartDescendant, LivesTyped, Lives, CallerAt, KillGroup, Killed, Alive, processes, outputs
<1>6. CASE EndDescendant
  BY <1>6 DEF EndDescendant, LivesTyped, Lives, CallerAt, KillGroup, Killed, Alive, processes, outputs
<1>7. ASSUME NEW o \in Outputs, KillByDrain(o) PROVE LivesTyped'
  BY <1>7 DEF KillByDrain, LivesTyped, Lives, CallerAt, KillGroup, Killed, Alive, processes, outputs
<1>8. CASE Abort
  BY <1>8 DEF Abort, LivesTyped, Lives, CallerAt, KillGroup, Killed, Alive, processes, outputs
<1>9. CASE AbortReap
  BY <1>9 DEF AbortReap, LivesTyped, Lives, CallerAt, KillGroup, Killed, Alive, processes, outputs
<1>10. CASE Kill
  BY <1>10 DEF Kill, LivesTyped, Lives, CallerAt, KillGroup, Killed, Alive, processes, outputs
<1>11. CASE Reap
  BY <1>11 DEF Reap, LivesTyped, Lives, CallerAt, KillGroup, Killed, Alive, processes, outputs
<1>12. CASE \/ \E life \in {formatter, child, stray} : \E o \in Outputs : Write(life, o)
            \/ \E o \in Outputs : Read(o)
            \/ \E o \in Outputs : Look(o)
            \/ \E o \in Outputs : ClaimByDrain(o)
            \/ Feed
            \/ StartThread
            \/ StartFails
            \/ AbortJoin
            \/ Wait
            \/ Terminate
            \/ Join
            \/ Raise
            \/ Expire
            \/ UNCHANGED fmVars
  <2>1. UNCHANGED <<supervisor, formatter, child, stray>>
    BY <1>12 DEF Write, Read, Look, ClaimByDrain, Feed, StartThread, StartFails, AbortJoin, Wait, Terminate, Join, Raise, Expire, fmVars, CallerAt, processes, outputs
  <2> QED BY <2>1 DEF LivesTyped, Lives, Alive
<1> QED BY <1>1, <1>2, <1>3, <1>4, <1>5, <1>6, <1>7, <1>8, <1>9, <1>10, <1>11, <1>12, FormatSteps

(* Outputs are counted within their bounds.                                 *)
LEMMA OutputTypesKept == OutputsTyped /\ Accounted /\ [FormatNext]_fmVars => OutputsTyped'
<1> SUFFICES ASSUME OutputsTyped, Accounted, [FormatNext]_fmVars PROVE OutputsTyped'
  OBVIOUS
<1> USE FormatterAssumption
<1>1. ASSUME NEW life \in {formatter, child, stray}, NEW o \in Outputs, Write(life, o) PROVE OutputsTyped'
  <2>1. /\ pipe[o] \in 0 .. PipeSize /\ pipe[o] < PipeSize /\ wrote[o] \in 0 .. MostWritten /\ wrote[o] < MostWritten
        /\ pipe' = [pipe EXCEPT ![o] = @ + 1] /\ wrote' = [wrote EXCEPT ![o] = @ + 1] /\ kept' = kept
    BY <1>1 DEF Write, OutputsTyped
  <2>2. pipe[o] + 1 \in 0 .. PipeSize /\ wrote[o] + 1 \in 0 .. MostWritten
    BY <2>1
  <2> QED BY <2>1, <2>2 DEF OutputsTyped
<1>2. ASSUME NEW o \in Outputs, Read(o) PROVE OutputsTyped'
  <2>1. /\ pipe[o] \in 0 .. PipeSize /\ kept[o] \in 0 .. MostWritten /\ wrote[o] \in 0 .. MostWritten
        /\ kept[o] + pipe[o] <= wrote[o] /\ wrote' = wrote
    BY <1>2 DEF Read, OutputsTyped, Accounted
  <2>2. CASE pipe[o] > 0 /\ pipe' = [pipe EXCEPT ![o] = @ - 1] /\ kept' \in {kept, [kept EXCEPT ![o] = @ + 1]}
    <3>1. pipe[o] - 1 \in 0 .. PipeSize /\ kept[o] + 1 \in 0 .. MostWritten
      BY <2>1, <2>2
    <3> QED BY <2>1, <2>2, <3>1 DEF OutputsTyped
  <2>3. CASE UNCHANGED <<pipe, kept>>
    BY <2>1, <2>3 DEF OutputsTyped
  <2> QED BY <1>2, <2>2, <2>3 DEF Read
<1>3. CASE \/ StartSupervisor
           \/ Launch
           \/ Report
           \/ EndFormatter
           \/ StartDescendant
           \/ EndDescendant
           \/ \E o \in Outputs : Look(o)
           \/ \E o \in Outputs : ClaimByDrain(o)
           \/ \E o \in Outputs : KillByDrain(o)
           \/ Feed
           \/ StartThread
           \/ StartFails
           \/ Abort
           \/ AbortReap
           \/ AbortJoin
           \/ Wait
           \/ Terminate
           \/ Kill
           \/ Reap
           \/ Join
           \/ Raise
           \/ Expire
           \/ UNCHANGED fmVars
  <2>1. UNCHANGED <<pipe, wrote, kept>>
    BY <1>3 DEF StartSupervisor, Launch, Report, EndFormatter, StartDescendant, EndDescendant, Look, ClaimByDrain, KillByDrain, Feed, StartThread, StartFails, Abort, AbortReap, AbortJoin, Wait, Terminate, Kill, Reap, Join, Raise, Expire, fmVars, CallerAt, processes, outputs
  <2> QED BY <2>1 DEF OutputsTyped, Accounted, Alive
<1> QED BY <1>1, <1>2, <1>3, FormatSteps

(* What the caller and the supervisor know is one of what they tell apart.  *)
LEMMA KnownTypesKept == KnownTyped /\ LivesTyped /\ [FormatNext]_fmVars => KnownTyped'
<1> SUFFICES ASSUME KnownTyped, LivesTyped, [FormatNext]_fmVars PROVE KnownTyped'
  OBVIOUS
<1> USE FormatterAssumption
<1>1. CASE Launch
  BY <1>1 DEF Launch, KnownTyped, Statuses, CallerAt, KillGroup, Killed, Alive, processes, outputs
<1>2. CASE Report
  BY <1>2 DEF Report, KnownTyped, Statuses, CallerAt, KillGroup, Killed, Alive, processes, outputs
<1>3. ASSUME NEW o \in Outputs, Read(o) PROVE KnownTyped'
  BY <1>3 DEF Read, KnownTyped, Statuses, CallerAt, KillGroup, Killed, Alive, processes, outputs
<1>4. ASSUME NEW o \in Outputs, ClaimByDrain(o) PROVE KnownTyped'
  BY <1>4 DEF ClaimByDrain, KnownTyped, Statuses, CallerAt, KillGroup, Killed, Alive, processes, outputs
<1>5. CASE Wait
  BY <1>5 DEF Wait, KnownTyped, Statuses, CallerAt, KillGroup, Killed, Alive, processes, outputs
<1>6. CASE Terminate
  BY <1>6 DEF Terminate, KnownTyped, Statuses, CallerAt, KillGroup, Killed, Alive, processes, outputs
<1>7. CASE Join
  BY <1>7 DEF Join, KnownTyped, Statuses, CallerAt, KillGroup, Killed, Alive, processes, outputs
<1>8. CASE Expire
  BY <1>8 DEF Expire, KnownTyped, Statuses, CallerAt, KillGroup, Killed, Alive, processes, outputs
<1>9. CASE \/ StartSupervisor
           \/ \E life \in {formatter, child, stray} : \E o \in Outputs : Write(life, o)
           \/ EndFormatter
           \/ StartDescendant
           \/ EndDescendant
           \/ \E o \in Outputs : Look(o)
           \/ \E o \in Outputs : KillByDrain(o)
           \/ Feed
           \/ StartThread
           \/ StartFails
           \/ Abort
           \/ AbortReap
           \/ AbortJoin
           \/ Kill
           \/ Reap
           \/ Raise
           \/ UNCHANGED fmVars
  <2>1. UNCHANGED <<overflow, requested, expired, status, outcome>>
    BY <1>9 DEF StartSupervisor, Write, EndFormatter, StartDescendant, EndDescendant, Look, KillByDrain, Feed, StartThread, StartFails, Abort, AbortReap, AbortJoin, Kill, Reap, Raise, fmVars, CallerAt, processes, outputs
  <2> QED BY <2>1 DEF KnownTyped, Statuses, Alive
<1> QED BY <1>1, <1>2, <1>3, <1>4, <1>5, <1>6, <1>7, <1>8, <1>9, FormatSteps

(* Nothing is collected that was not written, or beyond the limit.          *)
LEMMA AccountingKept == OutputsTyped /\ Accounted /\ LimitKept /\ [FormatNext]_fmVars => (Accounted /\ LimitKept)'
<1> SUFFICES ASSUME OutputsTyped, Accounted, LimitKept, [FormatNext]_fmVars PROVE (Accounted /\ LimitKept)'
  OBVIOUS
<1> USE FormatterAssumption
<1>1. ASSUME NEW life \in {formatter, child, stray}, NEW o \in Outputs, Write(life, o) PROVE (Accounted /\ LimitKept)'
  <2>1. /\ pipe' = [pipe EXCEPT ![o] = @ + 1] /\ wrote' = [wrote EXCEPT ![o] = @ + 1]
        /\ UNCHANGED <<kept, overflow>>
    BY <1>1 DEF Write
  <2>2. \A p \in Outputs : pipe[p] \in Nat /\ kept[p] \in Nat /\ wrote[p] \in Nat
    BY DEF OutputsTyped
  <2>3. \A p \in Outputs : pipe'[p] = pipe[p] + (IF p = o THEN 1 ELSE 0) /\ wrote'[p] = wrote[p] + (IF p = o THEN 1 ELSE 0)
    BY <2>1, <2>2 DEF OutputsTyped
  <2> QED BY <2>1, <2>2, <2>3 DEF Accounted, LimitKept, Size
<1>2. ASSUME NEW o \in Outputs, Read(o) PROVE (Accounted /\ LimitKept)'
  <2>1. /\ UNCHANGED wrote
        /\ \/ /\ pipe[o] > 0 /\ pipe' = [pipe EXCEPT ![o] = @ - 1]
              /\ IF Fits THEN kept' = [kept EXCEPT ![o] = @ + 1] /\ UNCHANGED overflow
                 ELSE overflow' = TRUE /\ UNCHANGED kept
           \/ UNCHANGED <<pipe, kept, overflow>>
    BY <1>2 DEF Read
  <2>2. \A p \in Outputs : pipe[p] \in Nat /\ kept[p] \in Nat /\ wrote[p] \in Nat
    BY DEF OutputsTyped
  <2>3. ASSUME NEW f \in {pipe, kept}, NEW n \in Nat
        PROVE  \A p \in Outputs : [f EXCEPT ![o] = n][p] = IF p = o THEN n ELSE f[p]
    BY DEF OutputsTyped
  <2>4. CASE UNCHANGED <<pipe, kept, overflow>>
    BY <2>1, <2>4 DEF Accounted, LimitKept, Size
  <2>5. CASE /\ pipe[o] > 0 /\ pipe' = [pipe EXCEPT ![o] = @ - 1]
             /\ IF Fits THEN kept' = [kept EXCEPT ![o] = @ + 1] /\ UNCHANGED overflow
                ELSE overflow' = TRUE /\ UNCHANGED kept
    <3>1. \A p \in Outputs : pipe'[p] = IF p = o THEN pipe[p] - 1 ELSE pipe[p]
      BY <2>2, <2>3, <2>5
    <3>2. CASE ~Fits
      BY <2>1, <2>2, <2>5, <3>1, <3>2 DEF Accounted, LimitKept, Size
    <3>3. CASE Fits
      <4>1. \A p \in Outputs : kept'[p] = IF p = o THEN kept[p] + 1 ELSE kept[p]
        BY <2>5, <3>3 DEF OutputsTyped
      <4>2. Accounted'
        BY <2>1, <2>2, <2>5, <3>1, <3>3, <4>1 DEF Accounted
      <4>3. LimitKept'
        BY <2>2, <3>3, <4>1 DEF LimitKept, Size, Fits, Outputs
      <4> QED BY <4>2, <4>3
    <3> QED BY <3>2, <3>3
  <2> QED BY <2>1, <2>4, <2>5
<1>3. CASE \/ StartSupervisor
           \/ Launch
           \/ Report
           \/ EndFormatter
           \/ StartDescendant
           \/ EndDescendant
           \/ \E o \in Outputs : Look(o)
           \/ \E o \in Outputs : ClaimByDrain(o)
           \/ \E o \in Outputs : KillByDrain(o)
           \/ Feed
           \/ StartThread
           \/ StartFails
           \/ Abort
           \/ AbortReap
           \/ AbortJoin
           \/ Wait
           \/ Terminate
           \/ Kill
           \/ Reap
           \/ Join
           \/ Raise
           \/ Expire
           \/ UNCHANGED fmVars
  <2>1. UNCHANGED <<pipe, wrote, kept, overflow>>
    BY <1>3 DEF StartSupervisor, Launch, Report, EndFormatter, StartDescendant, EndDescendant, Look, ClaimByDrain, KillByDrain, Feed, StartThread, StartFails, Abort, AbortReap, AbortJoin, Wait, Terminate, Kill, Reap, Join, Raise, Expire, fmVars, CallerAt, processes, outputs
  <2> QED BY <2>1 DEF Accounted, LimitKept, Size, Fits, Outputs, Alive
<1> QED BY <1>1, <1>2, <1>3, FormatSteps

(* A killed supervisor takes the group with it, and reports but once.       *)
LEMMA SupervisionKept == ThreadsTyped /\ LivesTyped /\ KnownTyped /\ Supervised /\ Started /\ [FormatNext]_fmVars => Supervised'
<1> SUFFICES ASSUME ThreadsTyped, LivesTyped, KnownTyped, Supervised, Started, [FormatNext]_fmVars PROVE Supervised'
  OBVIOUS
<1> USE FormatterAssumption
<1>1. CASE StartSupervisor
  BY <1>1 DEF StartSupervisor, Supervised, Started, Ends, ThreadsTyped, LivesTyped, KnownTyped, Lives, Statuses, CallerAt, KillGroup, Killed, Alive, processes, outputs
<1>2. CASE Launch
  BY <1>2 DEF Launch, Supervised, Started, Ends, ThreadsTyped, LivesTyped, KnownTyped, Lives, Statuses, CallerAt, KillGroup, Killed, Alive, processes, outputs
<1>3. CASE Report
  BY <1>3 DEF Report, Supervised, Started, Ends, ThreadsTyped, LivesTyped, KnownTyped, Lives, Statuses, CallerAt, KillGroup, Killed, Alive, processes, outputs
<1>4. CASE EndFormatter
  BY <1>4 DEF EndFormatter, Supervised, Started, Ends, ThreadsTyped, LivesTyped, KnownTyped, Lives, Statuses, CallerAt, KillGroup, Killed, Alive, processes, outputs
<1>5. CASE StartDescendant
  BY <1>5 DEF StartDescendant, Supervised, Started, Ends, ThreadsTyped, LivesTyped, KnownTyped, Lives, Statuses, CallerAt, KillGroup, Killed, Alive, processes, outputs
<1>6. CASE EndDescendant
  BY <1>6 DEF EndDescendant, Supervised, Started, Ends, ThreadsTyped, LivesTyped, KnownTyped, Lives, Statuses, CallerAt, KillGroup, Killed, Alive, processes, outputs
<1>7. ASSUME NEW o \in Outputs, KillByDrain(o) PROVE Supervised'
  BY <1>7 DEF KillByDrain, Supervised, Started, Ends, ThreadsTyped, LivesTyped, KnownTyped, Lives, Statuses, CallerAt, KillGroup, Killed, Alive, processes, outputs
<1>8. CASE StartThread
  BY <1>8 DEF StartThread, Supervised, Started, Ends, ThreadsTyped, LivesTyped, KnownTyped, Lives, Statuses, CallerAt, KillGroup, Killed, Alive, processes, outputs
<1>9. CASE StartFails
  BY <1>9 DEF StartFails, Supervised, Started, Ends, ThreadsTyped, LivesTyped, KnownTyped, Lives, Statuses, CallerAt, KillGroup, Killed, Alive, processes, outputs
<1>10. CASE Abort
  BY <1>10 DEF Abort, Supervised, Started, Ends, ThreadsTyped, LivesTyped, KnownTyped, Lives, Statuses, CallerAt, KillGroup, Killed, Alive, processes, outputs
<1>11. CASE AbortReap
  BY <1>11 DEF AbortReap, Supervised, Started, Ends, ThreadsTyped, LivesTyped, KnownTyped, Lives, Statuses, CallerAt, KillGroup, Killed, Alive, processes, outputs
<1>12. CASE AbortJoin
  BY <1>12 DEF AbortJoin, Supervised, Started, Ends, ThreadsTyped, LivesTyped, KnownTyped, Lives, Statuses, CallerAt, KillGroup, Killed, Alive, processes, outputs
<1>13. CASE Wait
  BY <1>13 DEF Wait, Supervised, Started, Ends, ThreadsTyped, LivesTyped, KnownTyped, Lives, Statuses, CallerAt, KillGroup, Killed, Alive, processes, outputs
<1>14. CASE Terminate
  BY <1>14 DEF Terminate, Supervised, Started, Ends, ThreadsTyped, LivesTyped, KnownTyped, Lives, Statuses, CallerAt, KillGroup, Killed, Alive, processes, outputs
<1>15. CASE Kill
  BY <1>15 DEF Kill, Supervised, Started, Ends, ThreadsTyped, LivesTyped, KnownTyped, Lives, Statuses, CallerAt, KillGroup, Killed, Alive, processes, outputs
<1>16. CASE Reap
  BY <1>16 DEF Reap, Supervised, Started, Ends, ThreadsTyped, LivesTyped, KnownTyped, Lives, Statuses, CallerAt, KillGroup, Killed, Alive, processes, outputs
<1>17. CASE Join
  BY <1>17 DEF Join, Supervised, Started, Ends, ThreadsTyped, LivesTyped, KnownTyped, Lives, Statuses, CallerAt, KillGroup, Killed, Alive, processes, outputs
<1>18. CASE Raise
  BY <1>18 DEF Raise, Supervised, Started, Ends, ThreadsTyped, LivesTyped, KnownTyped, Lives, Statuses, CallerAt, KillGroup, Killed, Alive, processes, outputs
<1>19. CASE \/ \E life \in {formatter, child, stray} : \E o \in Outputs : Write(life, o)
            \/ \E o \in Outputs : Read(o)
            \/ \E o \in Outputs : Look(o)
            \/ \E o \in Outputs : ClaimByDrain(o)
            \/ Feed
            \/ Expire
            \/ UNCHANGED fmVars
  <2>1. UNCHANGED <<caller, supervisor, formatter, child, stray, status>>
    BY <1>19 DEF Write, Read, Look, ClaimByDrain, Feed, Expire, fmVars, CallerAt, processes, outputs
  <2> QED BY <2>1 DEF Supervised, Started, Ends, Lives, Statuses, Alive
<1> QED BY <1>1, <1>2, <1>3, <1>4, <1>5, <1>6, <1>7, <1>8, <1>9, <1>10, <1>11, <1>12, <1>13, <1>14, <1>15, <1>16, <1>17, <1>18, <1>19, FormatSteps

(* No thread runs before its start.                                         *)
LEMMA StartsKept == ThreadsTyped /\ LivesTyped /\ KnownTyped /\ Started /\ [FormatNext]_fmVars => Started'
<1> SUFFICES ASSUME ThreadsTyped, LivesTyped, KnownTyped, Started, [FormatNext]_fmVars PROVE Started'
  OBVIOUS
<1> USE FormatterAssumption
<1>1. CASE StartSupervisor
  BY <1>1 DEF StartSupervisor, Started, Starting, Aborting, Past, Ends, Outputs, ThreadsTyped, LivesTyped, KnownTyped, CallerAt, KillGroup, Killed, Alive, processes, outputs
<1>2. ASSUME NEW o \in Outputs, Read(o) PROVE Started'
  BY <1>2 DEF Read, Started, Starting, Aborting, Past, Ends, Outputs, ThreadsTyped, LivesTyped, KnownTyped, CallerAt, KillGroup, Killed, Alive, processes, outputs
<1>3. ASSUME NEW o \in Outputs, Look(o) PROVE Started'
  BY <1>3 DEF Look, Started, Starting, Aborting, Past, Ends, Outputs, ThreadsTyped, LivesTyped, KnownTyped, CallerAt, KillGroup, Killed, Alive, processes, outputs
<1>4. ASSUME NEW o \in Outputs, ClaimByDrain(o) PROVE Started'
  BY <1>4 DEF ClaimByDrain, Started, Starting, Aborting, Past, Ends, Outputs, ThreadsTyped, LivesTyped, KnownTyped, CallerAt, KillGroup, Killed, Alive, processes, outputs
<1>5. ASSUME NEW o \in Outputs, KillByDrain(o) PROVE Started'
  BY <1>5 DEF KillByDrain, Started, Starting, Aborting, Past, Ends, Outputs, ThreadsTyped, LivesTyped, KnownTyped, CallerAt, KillGroup, Killed, Alive, processes, outputs
<1>6. CASE Feed
  BY <1>6 DEF Feed, Started, Starting, Aborting, Past, Ends, Outputs, ThreadsTyped, LivesTyped, KnownTyped, CallerAt, KillGroup, Killed, Alive, processes, outputs
<1>7. CASE StartThread
  BY <1>7 DEF StartThread, Started, Starting, Aborting, Past, Ends, Outputs, ThreadsTyped, LivesTyped, KnownTyped, CallerAt, KillGroup, Killed, Alive, processes, outputs
<1>8. CASE StartFails
  BY <1>8 DEF StartFails, Started, Starting, Aborting, Past, Ends, Outputs, ThreadsTyped, LivesTyped, KnownTyped, CallerAt, KillGroup, Killed, Alive, processes, outputs
<1>9. CASE Abort
  BY <1>9 DEF Abort, Started, Starting, Aborting, Past, Ends, Outputs, ThreadsTyped, LivesTyped, KnownTyped, CallerAt, KillGroup, Killed, Alive, processes, outputs
<1>10. CASE AbortReap
  BY <1>10 DEF AbortReap, Started, Starting, Aborting, Past, Ends, Outputs, ThreadsTyped, LivesTyped, KnownTyped, CallerAt, KillGroup, Killed, Alive, processes, outputs
<1>11. CASE AbortJoin
  BY <1>11 DEF AbortJoin, Started, Starting, Aborting, Past, Ends, Outputs, ThreadsTyped, LivesTyped, KnownTyped, CallerAt, KillGroup, Killed, Alive, processes, outputs
<1>12. CASE Wait
  BY <1>12 DEF Wait, Started, Starting, Aborting, Past, Ends, Outputs, ThreadsTyped, LivesTyped, KnownTyped, CallerAt, KillGroup, Killed, Alive, processes, outputs
<1>13. CASE Terminate
  BY <1>13 DEF Terminate, Started, Starting, Aborting, Past, Ends, Outputs, ThreadsTyped, LivesTyped, KnownTyped, CallerAt, KillGroup, Killed, Alive, processes, outputs
<1>14. CASE Kill
  BY <1>14 DEF Kill, Started, Starting, Aborting, Past, Ends, Outputs, ThreadsTyped, LivesTyped, KnownTyped, CallerAt, KillGroup, Killed, Alive, processes, outputs
<1>15. CASE Reap
  BY <1>15 DEF Reap, Started, Starting, Aborting, Past, Ends, Outputs, ThreadsTyped, LivesTyped, KnownTyped, CallerAt, KillGroup, Killed, Alive, processes, outputs
<1>16. CASE Join
  BY <1>16 DEF Join, Started, Starting, Aborting, Past, Ends, Outputs, ThreadsTyped, LivesTyped, KnownTyped, CallerAt, KillGroup, Killed, Alive, processes, outputs
<1>17. CASE Raise
  BY <1>17 DEF Raise, Started, Starting, Aborting, Past, Ends, Outputs, ThreadsTyped, LivesTyped, KnownTyped, CallerAt, KillGroup, Killed, Alive, processes, outputs
<1>18. CASE \/ Launch
            \/ Report
            \/ \E life \in {formatter, child, stray} : \E o \in Outputs : Write(life, o)
            \/ EndFormatter
            \/ StartDescendant
            \/ EndDescendant
            \/ Expire
            \/ UNCHANGED fmVars
  <2>1. UNCHANGED <<caller, drain, feeder>>
    BY <1>18 DEF Launch, Report, Write, EndFormatter, StartDescendant, EndDescendant, Expire, fmVars, CallerAt, processes, outputs
  <2> QED BY <2>1 DEF Started, Starting, Aborting, Past, Ends, Outputs, Alive
<1> QED BY <1>1, <1>2, <1>3, <1>4, <1>5, <1>6, <1>7, <1>8, <1>9, <1>10, <1>11, <1>12, <1>13, <1>14, <1>15, <1>16, <1>17, <1>18, FormatSteps

(* A thread that ended without the limit has seen the end of its pipe.      *)
LEMMA DrainsKept == ThreadsTyped /\ LivesTyped /\ KnownTyped /\ OutputsTyped /\ Supervised /\ Started /\ Drained /\ [FormatNext]_fmVars => Drained'
<1> SUFFICES ASSUME ThreadsTyped, LivesTyped, KnownTyped, OutputsTyped, Supervised, Started, Drained, [FormatNext]_fmVars PROVE Drained'
  OBVIOUS
<1> USE FormatterAssumption
<1>1. CASE StartSupervisor
  BY <1>1 DEF StartSupervisor, Drained, Held, Started, Supervised, ThreadsTyped, LivesTyped, KnownTyped, Lives, CallerAt, KillGroup, Killed, Alive, processes, outputs
<1>2. CASE Launch
  BY <1>2 DEF Launch, Drained, Held, Started, Supervised, ThreadsTyped, LivesTyped, KnownTyped, Lives, CallerAt, KillGroup, Killed, Alive, processes, outputs
<1>3. CASE Report
  BY <1>3 DEF Report, Drained, Held, Started, Supervised, ThreadsTyped, LivesTyped, KnownTyped, Lives, CallerAt, KillGroup, Killed, Alive, processes, outputs
<1>4. ASSUME NEW life \in {formatter, child, stray}, NEW o \in Outputs, Write(life, o) PROVE Drained'
  BY <1>4 DEF Write, Drained, Held, Started, Supervised, ThreadsTyped, LivesTyped, KnownTyped, Lives, CallerAt, KillGroup, Killed, Alive, processes, outputs
<1>5. CASE EndFormatter
  BY <1>5 DEF EndFormatter, Drained, Held, Started, Supervised, ThreadsTyped, LivesTyped, KnownTyped, Lives, CallerAt, KillGroup, Killed, Alive, processes, outputs
<1>6. CASE StartDescendant
  BY <1>6 DEF StartDescendant, Drained, Held, Started, Supervised, ThreadsTyped, LivesTyped, KnownTyped, Lives, CallerAt, KillGroup, Killed, Alive, processes, outputs
<1>7. CASE EndDescendant
  BY <1>7 DEF EndDescendant, Drained, Held, Started, Supervised, ThreadsTyped, LivesTyped, KnownTyped, Lives, CallerAt, KillGroup, Killed, Alive, processes, outputs
<1>8. ASSUME NEW o \in Outputs, Read(o) PROVE Drained'
  <2>1. UNCHANGED processes /\ (overflow => overflow') /\ (Held' <=> Held)
    BY <1>8 DEF Read, processes, Held, KnownTyped
  <2>2. CASE /\ pipe[o] > 0 /\ drain' = [drain EXCEPT ![o] = "look"] /\ pipe' = [pipe EXCEPT ![o] = @ - 1]
    <3>1. \A p \in Outputs \ {o} : drain'[p] = drain[p] /\ pipe'[p] = pipe[p]
      BY <2>2 DEF ThreadsTyped, OutputsTyped
    <3>2. drain'[o] = "look"
      BY <2>2 DEF ThreadsTyped
    <3> QED BY <2>1, <3>1, <3>2 DEF Drained
  <2>3. CASE /\ pipe[o] = 0 /\ ~Held /\ drain' = [drain EXCEPT ![o] = "closed"] /\ UNCHANGED pipe
    <3>1. \A p \in Outputs \ {o} : drain'[p] = drain[p]
      BY <2>3 DEF ThreadsTyped
    <3>2. drain'[o] = "closed"
      BY <2>3 DEF ThreadsTyped
    <3> QED BY <2>1, <2>3, <3>1, <3>2 DEF Drained
  <2> QED BY <1>8, <2>2, <2>3 DEF Read
<1>9. ASSUME NEW o \in Outputs, Look(o) PROVE Drained'
  BY <1>9 DEF Look, Drained, Held, Started, Supervised, ThreadsTyped, LivesTyped, KnownTyped, Lives, CallerAt, KillGroup, Killed, Alive, processes, outputs
<1>10. ASSUME NEW o \in Outputs, ClaimByDrain(o) PROVE Drained'
  BY <1>10 DEF ClaimByDrain, Drained, Held, Started, Supervised, ThreadsTyped, LivesTyped, KnownTyped, Lives, CallerAt, KillGroup, Killed, Alive, processes, outputs
<1>11. ASSUME NEW o \in Outputs, KillByDrain(o) PROVE Drained'
  BY <1>11 DEF KillByDrain, Drained, Held, Started, Supervised, ThreadsTyped, LivesTyped, KnownTyped, Lives, CallerAt, KillGroup, Killed, Alive, processes, outputs
<1>12. CASE StartThread
  BY <1>12 DEF StartThread, Drained, Held, Started, Supervised, ThreadsTyped, LivesTyped, KnownTyped, Lives, CallerAt, KillGroup, Killed, Alive, processes, outputs
<1>13. CASE Abort
  BY <1>13 DEF Abort, Drained, Held, Started, Supervised, ThreadsTyped, LivesTyped, KnownTyped, Lives, CallerAt, KillGroup, Killed, Alive, processes, outputs
<1>14. CASE AbortReap
  BY <1>14 DEF AbortReap, Drained, Held, Started, Supervised, ThreadsTyped, LivesTyped, KnownTyped, Lives, CallerAt, KillGroup, Killed, Alive, processes, outputs
<1>15. CASE Kill
  BY <1>15 DEF Kill, Drained, Held, Started, Supervised, ThreadsTyped, LivesTyped, KnownTyped, Lives, CallerAt, KillGroup, Killed, Alive, processes, outputs
<1>16. CASE Reap
  BY <1>16 DEF Reap, Drained, Held, Started, Supervised, ThreadsTyped, LivesTyped, KnownTyped, Lives, CallerAt, KillGroup, Killed, Alive, processes, outputs
<1>17. CASE \/ Feed
            \/ StartFails
            \/ AbortJoin
            \/ Wait
            \/ Terminate
            \/ Join
            \/ Raise
            \/ Expire
            \/ UNCHANGED fmVars
  <2>1. UNCHANGED <<drain, overflow, pipe, supervisor, formatter, child, stray>>
    BY <1>17 DEF Feed, StartFails, AbortJoin, Wait, Terminate, Join, Raise, Expire, fmVars, CallerAt, processes, outputs
  <2> QED BY <2>1 DEF Drained, Held, Started, Supervised, Lives, Alive
<1> QED BY <1>1, <1>2, <1>3, <1>4, <1>5, <1>6, <1>7, <1>8, <1>9, <1>10, <1>11, <1>12, <1>13, <1>14, <1>15, <1>16, <1>17, FormatSteps

(* Who kills the group has claimed it alone.                                *)
LEMMA ClaimsKept == ThreadsTyped /\ LivesTyped /\ KnownTyped /\ Supervised /\ Started /\ Claimed /\ [FormatNext]_fmVars => Claimed'
<1> SUFFICES ASSUME ThreadsTyped, LivesTyped, KnownTyped, Supervised, Started, Claimed, [FormatNext]_fmVars PROVE Claimed'
  OBVIOUS
<1> USE FormatterAssumption
<1>1. CASE StartSupervisor
  BY <1>1 DEF StartSupervisor, Claimed, Killers, Aborted, Ends, Started, Starting, Aborting, Past, Supervised, ThreadsTyped, LivesTyped, KnownTyped, CallerAt, KillGroup, Killed, Alive, processes, outputs
<1>2. CASE Launch
  BY <1>2 DEF Launch, Claimed, Killers, Aborted, Ends, Started, Starting, Aborting, Past, Supervised, ThreadsTyped, LivesTyped, KnownTyped, CallerAt, KillGroup, Killed, Alive, processes, outputs
<1>3. CASE Report
  BY <1>3 DEF Report, Claimed, Killers, Aborted, Ends, Started, Starting, Aborting, Past, Supervised, ThreadsTyped, LivesTyped, KnownTyped, CallerAt, KillGroup, Killed, Alive, processes, outputs
<1>4. ASSUME NEW o \in Outputs, Read(o) PROVE Claimed'
  <2>1. drain'[o] # "kill" /\ UNCHANGED <<caller, feeder, requested, supervisor>>
    BY <1>4 DEF Read, processes, ThreadsTyped
  <2>2. \A p \in Outputs \ {o} : drain'[p] = drain[p]
    BY <1>4 DEF Read, ThreadsTyped
  <2>3. Killers' \subseteq Killers
    BY <2>1, <2>2 DEF Killers
  <2> QED BY <2>1, <2>3 DEF Claimed, Aborted
<1>5. ASSUME NEW o \in Outputs, Look(o) PROVE Claimed'
  BY <1>5 DEF Look, Claimed, Killers, Aborted, Ends, Started, Starting, Aborting, Past, Supervised, ThreadsTyped, LivesTyped, KnownTyped, CallerAt, KillGroup, Killed, Alive, processes, outputs
<1>6. ASSUME NEW o \in Outputs, ClaimByDrain(o) PROVE Claimed'
  BY <1>6 DEF ClaimByDrain, Claimed, Killers, Aborted, Ends, Started, Starting, Aborting, Past, Supervised, ThreadsTyped, LivesTyped, KnownTyped, CallerAt, KillGroup, Killed, Alive, processes, outputs
<1>7. ASSUME NEW o \in Outputs, KillByDrain(o) PROVE Claimed'
  <2>1. drain' = [drain EXCEPT ![o] = "closed"] /\ UNCHANGED <<caller, feeder, requested>> /\ o \in Killers
    BY <1>7 DEF KillByDrain, Killers
  <2>2. Killers' = {} /\ Killers # {}
    BY <2>1 DEF Killers, Claimed, ThreadsTyped
  <2>3. requested /\ caller # "kill"
    BY <2>2 DEF Claimed
  <2> QED BY <2>1, <2>2, <2>3 DEF Claimed
<1>8. CASE Feed
  BY <1>8 DEF Feed, Claimed, Killers, Aborted, Ends, Started, Starting, Aborting, Past, Supervised, ThreadsTyped, LivesTyped, KnownTyped, CallerAt, KillGroup, Killed, Alive, processes, outputs
<1>9. CASE StartThread
  <2>1. UNCHANGED <<requested, supervisor>> /\ ~Aborted /\ caller' # "kill"
    BY <1>9 DEF StartThread, CallerAt, processes, Aborted, Ends
  <2>2. \A o \in Outputs : drain'[o] = drain[o] \/ drain'[o] = "read"
    BY <1>9 DEF StartThread, ThreadsTyped
  <2>3. Killers' \subseteq Killers
    BY <2>2 DEF Killers
  <2> QED BY <2>1, <2>3 DEF Claimed
<1>10. CASE StartFails
  BY <1>10 DEF StartFails, Claimed, Killers, Aborted, Ends, Started, Starting, Aborting, Past, Supervised, ThreadsTyped, LivesTyped, KnownTyped, CallerAt, KillGroup, Killed, Alive, processes, outputs
<1>11. CASE Abort
  BY <1>11 DEF Abort, Claimed, Killers, Aborted, Ends, Started, Starting, Aborting, Past, Supervised, ThreadsTyped, LivesTyped, KnownTyped, CallerAt, KillGroup, Killed, Alive, processes, outputs
<1>12. CASE AbortReap
  BY <1>12 DEF AbortReap, Claimed, Killers, Aborted, Ends, Started, Starting, Aborting, Past, Supervised, ThreadsTyped, LivesTyped, KnownTyped, CallerAt, KillGroup, Killed, Alive, processes, outputs
<1>13. CASE AbortJoin
  BY <1>13 DEF AbortJoin, Claimed, Killers, Aborted, Ends, Started, Starting, Aborting, Past, Supervised, ThreadsTyped, LivesTyped, KnownTyped, CallerAt, KillGroup, Killed, Alive, processes, outputs
<1>14. CASE Wait
  BY <1>14 DEF Wait, Claimed, Killers, Aborted, Ends, Started, Starting, Aborting, Past, Supervised, ThreadsTyped, LivesTyped, KnownTyped, CallerAt, KillGroup, Killed, Alive, processes, outputs
<1>15. CASE Terminate
  BY <1>15 DEF Terminate, Claimed, Killers, Aborted, Ends, Started, Starting, Aborting, Past, Supervised, ThreadsTyped, LivesTyped, KnownTyped, CallerAt, KillGroup, Killed, Alive, processes, outputs
<1>16. CASE Kill
  BY <1>16 DEF Kill, Claimed, Killers, Aborted, Ends, Started, Starting, Aborting, Past, Supervised, ThreadsTyped, LivesTyped, KnownTyped, CallerAt, KillGroup, Killed, Alive, processes, outputs
<1>17. CASE Reap
  BY <1>17 DEF Reap, Claimed, Killers, Aborted, Ends, Started, Starting, Aborting, Past, Supervised, ThreadsTyped, LivesTyped, KnownTyped, CallerAt, KillGroup, Killed, Alive, processes, outputs
<1>18. CASE Join
  BY <1>18 DEF Join, Claimed, Killers, Aborted, Ends, Started, Starting, Aborting, Past, Supervised, ThreadsTyped, LivesTyped, KnownTyped, CallerAt, KillGroup, Killed, Alive, processes, outputs
<1>19. CASE Raise
  BY <1>19 DEF Raise, Claimed, Killers, Aborted, Ends, Started, Starting, Aborting, Past, Supervised, ThreadsTyped, LivesTyped, KnownTyped, CallerAt, KillGroup, Killed, Alive, processes, outputs
<1>20. CASE \/ \E life \in {formatter, child, stray} : \E o \in Outputs : Write(life, o)
            \/ EndFormatter
            \/ StartDescendant
            \/ EndDescendant
            \/ Expire
            \/ UNCHANGED fmVars
  <2>1. UNCHANGED <<caller, feeder, drain, requested, supervisor>>
    BY <1>20 DEF Write, EndFormatter, StartDescendant, EndDescendant, Expire, fmVars, CallerAt, processes, outputs
  <2> QED BY <2>1 DEF Claimed, Killers, Aborted, Ends, Started, Starting, Aborting, Past, Supervised, Alive
<1> QED BY <1>1, <1>2, <1>3, <1>4, <1>5, <1>6, <1>7, <1>8, <1>9, <1>10, <1>11, <1>12, <1>13, <1>14, <1>15, <1>16, <1>17, <1>18, <1>19, <1>20, FormatSteps

(* The result stays what the supervisor reported.                           *)
LEMMA ReportsKept == ThreadsTyped /\ LivesTyped /\ KnownTyped /\ Supervised /\ Started /\ Reported /\ [FormatNext]_fmVars => Reported'
<1> SUFFICES ASSUME ThreadsTyped, LivesTyped, KnownTyped, Supervised, Started, Reported, [FormatNext]_fmVars PROVE Reported'
  OBVIOUS
<1> USE FormatterAssumption
<1>1. CASE StartSupervisor
  BY <1>1 DEF StartSupervisor, Reported, Result, ThreadsDone, Started, Starting, Aborting, Past, Supervised, Ends, ThreadsTyped, LivesTyped, KnownTyped, Statuses, CallerAt, KillGroup, Killed, Alive, processes, outputs
<1>2. CASE Launch
  BY <1>2 DEF Launch, Reported, Result, ThreadsDone, Started, Starting, Aborting, Past, Supervised, Ends, ThreadsTyped, LivesTyped, KnownTyped, Statuses, CallerAt, KillGroup, Killed, Alive, processes, outputs
<1>3. CASE Report
  BY <1>3 DEF Report, Reported, Result, ThreadsDone, Started, Starting, Aborting, Past, Supervised, Ends, ThreadsTyped, LivesTyped, KnownTyped, Statuses, CallerAt, KillGroup, Killed, Alive, processes, outputs
<1>4. CASE EndFormatter
  BY <1>4 DEF EndFormatter, Reported, Result, ThreadsDone, Started, Starting, Aborting, Past, Supervised, Ends, ThreadsTyped, LivesTyped, KnownTyped, Statuses, CallerAt, KillGroup, Killed, Alive, processes, outputs
<1>5. ASSUME NEW o \in Outputs, Read(o) PROVE Reported'
  BY <1>5 DEF Read, Reported, Result, ThreadsDone, Started, Starting, Aborting, Past, Supervised, Ends, ThreadsTyped, LivesTyped, KnownTyped, Statuses, CallerAt, KillGroup, Killed, Alive, processes, outputs
<1>6. ASSUME NEW o \in Outputs, Look(o) PROVE Reported'
  BY <1>6 DEF Look, Reported, Result, ThreadsDone, Started, Starting, Aborting, Past, Supervised, Ends, ThreadsTyped, LivesTyped, KnownTyped, Statuses, CallerAt, KillGroup, Killed, Alive, processes, outputs
<1>7. ASSUME NEW o \in Outputs, ClaimByDrain(o) PROVE Reported'
  BY <1>7 DEF ClaimByDrain, Reported, Result, ThreadsDone, Started, Starting, Aborting, Past, Supervised, Ends, ThreadsTyped, LivesTyped, KnownTyped, Statuses, CallerAt, KillGroup, Killed, Alive, processes, outputs
<1>8. ASSUME NEW o \in Outputs, KillByDrain(o) PROVE Reported'
  BY <1>8 DEF KillByDrain, Reported, Result, ThreadsDone, Started, Starting, Aborting, Past, Supervised, Ends, ThreadsTyped, LivesTyped, KnownTyped, Statuses, CallerAt, KillGroup, Killed, Alive, processes, outputs
<1>9. CASE Feed
  BY <1>9 DEF Feed, Reported, Result, ThreadsDone, Started, Starting, Aborting, Past, Supervised, Ends, ThreadsTyped, LivesTyped, KnownTyped, Statuses, CallerAt, KillGroup, Killed, Alive, processes, outputs
<1>10. CASE StartThread
  BY <1>10 DEF StartThread, Reported, Result, ThreadsDone, Started, Starting, Aborting, Past, Supervised, Ends, ThreadsTyped, LivesTyped, KnownTyped, Statuses, CallerAt, KillGroup, Killed, Alive, processes, outputs
<1>11. CASE StartFails
  BY <1>11 DEF StartFails, Reported, Result, ThreadsDone, Started, Starting, Aborting, Past, Supervised, Ends, ThreadsTyped, LivesTyped, KnownTyped, Statuses, CallerAt, KillGroup, Killed, Alive, processes, outputs
<1>12. CASE Abort
  BY <1>12 DEF Abort, Reported, Result, ThreadsDone, Started, Starting, Aborting, Past, Supervised, Ends, ThreadsTyped, LivesTyped, KnownTyped, Statuses, CallerAt, KillGroup, Killed, Alive, processes, outputs
<1>13. CASE AbortReap
  BY <1>13 DEF AbortReap, Reported, Result, ThreadsDone, Started, Starting, Aborting, Past, Supervised, Ends, ThreadsTyped, LivesTyped, KnownTyped, Statuses, CallerAt, KillGroup, Killed, Alive, processes, outputs
<1>14. CASE AbortJoin
  BY <1>14 DEF AbortJoin, Reported, Result, ThreadsDone, Started, Starting, Aborting, Past, Supervised, Ends, ThreadsTyped, LivesTyped, KnownTyped, Statuses, CallerAt, KillGroup, Killed, Alive, processes, outputs
<1>15. CASE Wait
  BY <1>15 DEF Wait, Reported, Result, ThreadsDone, Started, Starting, Aborting, Past, Supervised, Ends, ThreadsTyped, LivesTyped, KnownTyped, Statuses, CallerAt, KillGroup, Killed, Alive, processes, outputs
<1>16. CASE Terminate
  BY <1>16 DEF Terminate, Reported, Result, ThreadsDone, Started, Starting, Aborting, Past, Supervised, Ends, ThreadsTyped, LivesTyped, KnownTyped, Statuses, CallerAt, KillGroup, Killed, Alive, processes, outputs
<1>17. CASE Kill
  BY <1>17 DEF Kill, Reported, Result, ThreadsDone, Started, Starting, Aborting, Past, Supervised, Ends, ThreadsTyped, LivesTyped, KnownTyped, Statuses, CallerAt, KillGroup, Killed, Alive, processes, outputs
<1>18. CASE Reap
  BY <1>18 DEF Reap, Reported, Result, ThreadsDone, Started, Starting, Aborting, Past, Supervised, Ends, ThreadsTyped, LivesTyped, KnownTyped, Statuses, CallerAt, KillGroup, Killed, Alive, processes, outputs
<1>19. CASE Join
  BY <1>19 DEF Join, Reported, Result, ThreadsDone, Started, Starting, Aborting, Past, Supervised, Ends, ThreadsTyped, LivesTyped, KnownTyped, Statuses, CallerAt, KillGroup, Killed, Alive, processes, outputs
<1>20. CASE Raise
  BY <1>20 DEF Raise, Reported, Result, ThreadsDone, Started, Starting, Aborting, Past, Supervised, Ends, ThreadsTyped, LivesTyped, KnownTyped, Statuses, CallerAt, KillGroup, Killed, Alive, processes, outputs
<1>21. CASE \/ \E life \in {formatter, child, stray} : \E o \in Outputs : Write(life, o)
            \/ StartDescendant
            \/ EndDescendant
            \/ Expire
            \/ UNCHANGED fmVars
  <2>1. UNCHANGED <<caller, outcome, status, overflow, drain, feeder, supervisor, formatter>>
    BY <1>21 DEF Write, StartDescendant, EndDescendant, Expire, fmVars, CallerAt, processes, outputs
  <2> QED BY <2>1 DEF Reported, Result, ThreadsDone, Started, Starting, Aborting, Past, Supervised, Ends, Statuses, Alive
<1> QED BY <1>1, <1>2, <1>3, <1>4, <1>5, <1>6, <1>7, <1>8, <1>9, <1>10, <1>11, <1>12, <1>13, <1>14, <1>15, <1>16, <1>17, <1>18, <1>19, <1>20, <1>21, FormatSteps

(* The caller of the formatter gets all of its output, or an error, within  *)
(* the limit, nobody of its group is left, and nobody else is killed: the   *)
(* lock around termination_requested gives the kill to one, which comes     *)
(* before the supervisor is reaped (_run_formatter_bounded of cpp.py).      *)
THEOREM FormatterIsSafe == FormatSpec => []FormatTypeOK /\ FormatterSafe
<1>1. FormatInit => FormatInv
  <2> SUFFICES ASSUME FormatInit PROVE FormatInv
    OBVIOUS
  <2>1. ThreadsTyped /\ LivesTyped /\ KnownTyped
    BY DEF FormatInit, ThreadsTyped, LivesTyped, KnownTyped, Lives, Statuses
  <2>2. OutputsTyped /\ Accounted /\ LimitKept
    <3>1. 0 \in 0 .. PipeSize /\ 0 \in 0 .. MostWritten /\ 0 <= OutputLimit
      BY FormatterAssumption
    <3>2. pipe = [o \in Outputs |-> 0] /\ kept = pipe /\ wrote = pipe
      BY DEF FormatInit
    <3> QED BY <3>1, <3>2 DEF OutputsTyped, Accounted, LimitKept, Size, Outputs
  <2>3. Supervised /\ Started /\ Drained
    BY FormatterAssumption
       DEF FormatInit, Supervised, Started, Starting, Aborting, Past, Drained, Ends, Alive, Outputs
  <2>4. Claimed /\ Reported
    BY FormatterAssumption DEF FormatInit, Claimed, Killers, Aborted, Reported, Ends
  <2> QED BY <2>1, <2>2, <2>3, <2>4 DEF FormatInv
<1>2. FormatInv /\ [FormatNext]_fmVars => FormatInv'
  BY ThreadTypesKept, LifeTypesKept, OutputTypesKept, KnownTypesKept, AccountingKept,
     SupervisionKept, StartsKept, DrainsKept, ClaimsKept, ReportsKept DEF FormatInv
<1>3. FormatInv => FormatTypeOK /\ ResultWhole /\ LimitKept /\ NoDescendants
  <2> SUFFICES ASSUME FormatInv
               PROVE  FormatTypeOK /\ ResultWhole /\ LimitKept /\ NoDescendants
    OBVIOUS
  <2>1. ASSUME caller = "returned" PROVE kept = wrote
    <3>1. \A o \in Outputs : drain[o] = "closed"
      BY <2>1 DEF FormatInv, Reported, ThreadsDone, Started, Past, Outputs
    <3>2. ASSUME NEW o \in Outputs PROVE kept[o] = wrote[o]
      <4>1. pipe[o] = 0 /\ kept[o] + pipe[o] = wrote[o] /\ kept[o] \in Nat
        BY <2>1, <3>1, FormatterAssumption
           DEF FormatInv, Reported, Drained, Accounted, OutputsTyped
      <4> QED BY <4>1
    <3> QED BY <3>2 DEF FormatInv, OutputsTyped
  <2>2. ResultWhole
    BY <2>1 DEF ResultWhole, FormatInv, Reported
  <2>3. NoDescendants
    BY DEF NoDescendants, GroupDead, FormatInv, Supervised
  <2>4. FormatTypeOK
    BY DEF FormatTypeOK, FormatInv, ThreadsTyped, LivesTyped, OutputsTyped, KnownTyped
  <2> QED BY <2>2, <2>3, <2>4 DEF FormatInv
<1>4. FormatInv /\ [FormatNext]_fmVars => [\A o \in Outputs :
          drain[o] = "kill" /\ drain'[o] # "kill" /\ feeder # None => supervisor # "reaped"]_fmVars
  BY DEF FormatInv, Claimed, Killers, Aborted, Started, Starting, Aborting, Ends
<1> QED BY <1>1, <1>2, <1>3, <1>4, PTL DEF FormatSpec, FormatterSafe, GroupOwned

---------------------------------------------------------------------------
(* Numbers *)

(* A set of numbers has a least one,                                        *)
LEMMA Least == ASSUME NEW S \in SUBSET Nat, S # {} PROVE \E m \in S : \A n \in S : m <= n
<1>1. PICK m \in S : \A n \in S : ~(<<n, m>> \in OpToRel(<, Nat))
  BY NatLessThanWellFounded, WFMin
<1>2. OpToRel(<, Nat) = {x \in Nat \X Nat : x[1] < x[2]}
  BY Zenon DEF OpToRel
<1>3. \A n \in S : n < m => <<n, m>> \in {x \in Nat \X Nat : x[1] < x[2]}
  OBVIOUS
<1>4. \A n \in S : ~(n < m)
  BY <1>1, <1>2, <1>3
<1> QED BY <1>4
(* and, when it is bounded, a greatest.                                     *)
LEMMA Greatest == ASSUME NEW N \in Nat, NEW S \in SUBSET (0 .. N), S # {} PROVE \E m \in S : \A n \in S : n <= m
<1>1. PICK k \in {N - m : m \in S} : \A l \in {N - m : m \in S} : k <= l
  <2>1. \A m \in S : N - m \in Nat
    OBVIOUS
  <2>2. \E m : m \in S
    OBVIOUS
  <2>3. {N - m : m \in S} \subseteq Nat /\ {N - m : m \in S} # {}
    BY <2>1, <2>2
  <2> QED BY <2>3, Least
<1>2. PICK m \in S : k = N - m
  BY <1>1
<1>3. \A n \in S : n <= m
  <2>1. \A n \in S : k <= N - n
    BY <1>1
  <2> QED BY <1>2, <2>1
<1> QED BY <1>2, <1>3

---------------------------------------------------------------------------
(* What a name means *)

Formed == WellFormed(schema) /\ None \notin Constants
(* The messages around a message, up to its package, and only these, are    *)
(* its prefixes that are messages.                                          *)
LEMMA Scopes ==
    ASSUME Formed, NEW m \in DOMAIN schema.messages
    PROVE  /\ m \in Seq(STRING) /\ schema.messages[m] \in schema.packages /\ schema.messages[m] \in Seq(STRING)
           /\ Len(m) \in Nat /\ Len(schema.messages[m]) \in Nat /\ Len(schema.messages[m]) < Len(m)
           /\ SubSeq(m, 1, Len(schema.messages[m])) = schema.messages[m]
           /\ \A n \in 0 .. Len(m) : SubSeq(m, 1, n) \in DOMAIN schema.messages <=> n > Len(schema.messages[m])
           /\ \A n \in 0 .. Len(m) : SubSeq(m, 1, n) \in Seq(STRING) /\ Len(SubSeq(m, 1, n)) = n
           /\ SubSeq(m, 1, Len(m)) = m
<1>1. /\ m \in Seq(STRING) /\ schema.messages[m] \in schema.packages /\ schema.messages[m] \in Seq(STRING)
      /\ Len(schema.messages[m]) < Len(m) /\ SubSeq(m, 1, Len(schema.messages[m])) = schema.messages[m]
      /\ \A n \in 0 .. Len(m) : SubSeq(m, 1, n) \in DOMAIN schema.messages <=> n > Len(schema.messages[m])
  BY DEF Formed, WellFormed
<1>2. Len(m) \in Nat /\ Len(schema.messages[m]) \in Nat
  BY <1>1, LenProperties
<1>3. ASSUME NEW n \in 0 .. Len(m) PROVE SubSeq(m, 1, n) \in Seq(STRING) /\ Len(SubSeq(m, 1, n)) = n
  <2>1. \A i \in 1 .. n : m[i] \in STRING
    BY <1>1, <1>2, ElementOfSeq
  <2> QED BY <1>2, <2>1, SubSeqProperties
<1> QED BY <1>1, <1>2, <1>3, SubSeqFull
(* A constant of a schema is in one package or message, and uses names.     *)
LEMMA ConstantShape ==
    ASSUME Formed, NEW c \in Constants
    PROVE  /\ c.scope \in schema.packages \cup DOMAIN schema.messages /\ c.name \in STRING /\ c.scope \in Seq(STRING)
           /\ c.scope \in schema.packages <=> c.scope \notin DOMAIN schema.messages
           /\ c = Constant(c.scope, c.name)
           /\ schema.uses[c] \in Seq(Seq(STRING) \ {<< >>})
  BY DEF Formed, WellFormed, Constants, Constant
(* A constant is its scope and its name.                                    *)
LEMMA ConstantParts == \A s, n : Constant(s, n).scope = s /\ Constant(s, n).name = n
  BY DEF Constant
(* Two constants are equal if their scopes and names are.                   *)
LEMMA ConstantEqual ==
    ASSUME NEW s, NEW n, NEW t, NEW o
    PROVE  /\ Constant(s, n) = Constant(t, o) <=> s = t /\ n = o
           /\ Constant(s, n).scope = s /\ Constant(s, n).name = n
  BY DEF Constant

(* The levels around a message that declare a constant of this name, and    *)
(* the innermost of those that are messages.                                *)
Declares(message, name, n) ==
    n > Len(schema.messages[message]) /\ Constant(SubSeq(message, 1, n), name) \in Constants
Levels(message, name, n) == {l \in 0 .. n : Declares(message, name, l)}
Highest(message, name, n) ==
    CHOOSE m \in Levels(message, name, n) : \A l \in Levels(message, name, n) : l <= m
Reached(message, name, n) ==
    IF Levels(message, name, n) = {} THEN Declared(schema.packages, schema.messages[message], name)
    ELSE Constant(SubSeq(message, 1, Highest(message, name, n)), name)
(* If a level declares the name, the innermost one is found.                *)
LEMMA HighestIs ==
    ASSUME Formed, NEW m \in DOMAIN schema.messages, NEW name, NEW n \in 0 .. Len(m), Levels(m, name, n) # {}
    PROVE  /\ Highest(m, name, n) \in Levels(m, name, n)
           /\ \A l \in Levels(m, name, n) : l <= Highest(m, name, n)
<1>1. n \in Nat /\ Levels(m, name, n) \in SUBSET (0 .. n)
  BY Scopes DEF Levels
<1>2. \E k \in Levels(m, name, n) : \A l \in Levels(m, name, n) : l <= k
  BY <1>1, Greatest
<1> QED BY <1>2 DEF Highest
(* What find_message_constant finds at one level.                           *)
LEMMA DeclaredAt ==
    ASSUME Formed, NEW m \in DOMAIN schema.messages, NEW name, NEW n \in 0 .. Len(m), n > Len(schema.messages[m])
    PROVE  Declared(DOMAIN schema.messages, SubSeq(m, 1, n), name) =
               IF Declares(m, name, n) THEN Constant(SubSeq(m, 1, n), name) ELSE None
  BY Scopes DEF Declared, Declares
(* One turn of the loop over the enclosing messages.                        *)
Turned(message, name, n, below) ==
    IF SubSeq(message, 1, n) \notin DOMAIN schema.messages
    THEN Declared(schema.packages, schema.messages[message], name)
    ELSE LET own == Declared(DOMAIN schema.messages, SubSeq(message, 1, n), name) IN
         IF own # None THEN own ELSE below[n - 1]
(* What the innermost level gives is what each turn of the loop gives.      *)
LEMMA ReachedTurns ==
    ASSUME Formed, NEW m \in DOMAIN schema.messages, NEW name, NEW n \in 0 .. Len(m)
    PROVE  /\ n <= Len(schema.messages[m]) => Reached(m, name, n) = Declared(schema.packages, schema.messages[m], name)
           /\ n > Len(schema.messages[m]) => n - 1 \in 0 .. Len(m)
           /\ Declares(m, name, n) => Reached(m, name, n) = Constant(SubSeq(m, 1, n), name)
           /\ n > Len(schema.messages[m]) /\ ~Declares(m, name, n) => Reached(m, name, n) = Reached(m, name, n - 1)
<1>1. Len(m) \in Nat /\ Len(schema.messages[m]) \in Nat /\ n \in Nat
  BY Scopes
<1>2. ASSUME n <= Len(schema.messages[m]) PROVE Levels(m, name, n) = {}
  BY <1>1, <1>2 DEF Levels, Declares
<1>3. ASSUME Declares(m, name, n) PROVE Reached(m, name, n) = Constant(SubSeq(m, 1, n), name)
  <2>1. n \in Levels(m, name, n)
    BY <1>1, <1>3 DEF Levels
  <2>2. Highest(m, name, n) \in 0 .. n /\ n <= Highest(m, name, n)
    BY <2>1, HighestIs DEF Levels
  <2>3. Highest(m, name, n) = n
    BY <1>1, <2>2
  <2> QED BY <2>1, <2>3 DEF Reached
<1>4. ASSUME n > Len(schema.messages[m]), ~Declares(m, name, n) PROVE Levels(m, name, n) = Levels(m, name, n - 1)
  BY <1>1, <1>4 DEF Levels
<1>5. ASSUME n > Len(schema.messages[m]), ~Declares(m, name, n) PROVE Reached(m, name, n) = Reached(m, name, n - 1)
  <2>1. Levels(m, name, n) = Levels(m, name, n - 1)
    BY <1>4, <1>5
  <2>2. Highest(m, name, n) = Highest(m, name, n - 1)
    BY <2>1 DEF Highest
  <2> QED BY <2>1, <2>2 DEF Reached
<1> QED BY <1>1, <1>2, <1>3, <1>5 DEF Reached
(* The loop is well defined, and ends at the innermost level.               *)
LEMMA ClimbReaches ==
    ASSUME Formed, NEW m \in DOMAIN schema.messages, NEW name
    PROVE  Climb(schema.messages[m], m, name) = Reached(m, name, Len(m))
<1> DEFINE F(f) == [n \in 0 .. Len(m) |-> Turned(m, name, n, f)]
           found == CHOOSE f : f = F(f)
           g == [n \in 0 .. Len(m) |-> Reached(m, name, n)]
<1>0. Len(m) \in Nat /\ Len(schema.messages[m]) \in Nat
  BY Scopes
<1>1. Climb(schema.messages[m], m, name) = found[Len(m)]
  BY DEF Climb, Turned
<1>2. g = F(g)
  <2>1. ASSUME NEW n \in 0 .. Len(m) PROVE Turned(m, name, n, g) = Reached(m, name, n)
    <3>1. SubSeq(m, 1, n) \in DOMAIN schema.messages <=> n > Len(schema.messages[m])
      BY Scopes
    <3>2. CASE n <= Len(schema.messages[m])
      BY <1>0, <3>1, <3>2, ReachedTurns DEF Turned
    <3>3. CASE n > Len(schema.messages[m]) /\ Declares(m, name, n)
      <4>1. Constant(SubSeq(m, 1, n), name) # None
        BY <3>3 DEF Declares, Formed
      <4> QED BY <3>1, <3>3, <4>1, ReachedTurns, DeclaredAt DEF Turned
    <3>4. CASE n > Len(schema.messages[m]) /\ ~Declares(m, name, n)
      BY <3>1, <3>4, ReachedTurns, DeclaredAt DEF Turned
    <3> QED BY <1>0, <3>2, <3>3, <3>4
  <2> QED BY <2>1
<1>3. found = F(found)
  BY <1>2
<1>4. ASSUME NEW n \in 0 .. Len(m), found[n] # g[n] PROVE FALSE
  <2> DEFINE Wrong == {k \in 0 .. Len(m) : found[k] # g[k]}
  <2>1. PICK k \in Wrong : \A l \in Wrong : k <= l
    <3>0. n \in Wrong
      BY <1>4
    <3>1. Wrong \subseteq Nat /\ Wrong # {}
      <4>1. \A k \in Wrong : k \in Nat
        BY <1>0
      <4> QED BY <3>0, <4>1
    <3> HIDE DEF Wrong
    <3> QED BY <3>1, Least
  <2>2. found[k] = Turned(m, name, k, found) /\ g[k] = Turned(m, name, k, g)
    BY <1>2, <1>3
  <2>3. k > Len(schema.messages[m])
    BY <1>0, <2>2, Scopes DEF Turned
  <2>4. k - 1 \in 0 .. Len(m) /\ k - 1 \notin Wrong
    <3>1. k - 1 \in 0 .. Len(m) /\ ~(k <= k - 1)
      BY <1>0, <2>3
    <3> QED BY <2>1, <3>1
  <2> QED BY <2>1, <2>2, <2>4 DEF Turned
<1> QED BY <1>0, <1>1, <1>4
(* What is reached is the constant of the innermost scope around, as        *)
(* scoping says.                                                            *)
LEMMA InnermostIsReached ==
    ASSUME Formed, NEW c \in Constants, c.scope \in DOMAIN schema.messages, NEW name
    PROVE  Innermost(c, name) = Reached(c.scope, name, Len(c.scope))
<1> DEFINE m == c.scope
           package == schema.messages[m]
           found == {d \in Constants : d.scope \in Around(m) /\ d.name = name}
<1>0. /\ Len(m) \in Nat /\ Len(package) \in Nat /\ Len(package) < Len(m) /\ package \in schema.packages
      /\ \A n \in 0 .. Len(m) : SubSeq(m, 1, n) \in DOMAIN schema.messages <=> n > Len(package)
      /\ \A n \in 0 .. Len(m) : Len(SubSeq(m, 1, n)) = n
  BY Scopes
<1>1. ASSUME NEW d \in found
      PROVE  d = Constant(package, name) \/ \E n \in Levels(m, name, Len(m)) : d = Constant(SubSeq(m, 1, n), name)
  <2>1. d = Constant(d.scope, name) /\ d \in Constants
    BY <1>1, ConstantShape
  <2>2. d.scope = package \/ \E n \in 0 .. Len(m) : d.scope = SubSeq(m, 1, n) /\ d.scope \in DOMAIN schema.messages
    BY <1>1 DEF Around
  <2>3. ASSUME NEW n \in 0 .. Len(m), d.scope = SubSeq(m, 1, n), d.scope \in DOMAIN schema.messages
        PROVE  n \in Levels(m, name, Len(m))
    BY <1>0, <2>1, <2>3 DEF Levels, Declares
  <2> QED BY <2>1, <2>2, <2>3 DEF Levels
<1>2. ASSUME NEW n \in Levels(m, name, Len(m))
      PROVE  n \in 0 .. Len(m) /\ n > Len(package) /\ Constant(SubSeq(m, 1, n), name) \in found
  <2>1. n \in 0 .. Len(m) /\ n > Len(package) /\ Constant(SubSeq(m, 1, n), name) \in Constants
    BY <1>2 DEF Levels, Declares
  <2>2. SubSeq(m, 1, n) \in Around(m)
    BY <1>0, <2>1 DEF Around
  <2> QED BY <2>1, <2>2, ConstantParts
<1>3. Constant(package, name) \in Constants <=> Constant(package, name) \in found
  BY ConstantEqual DEF Around
<1>4. Innermost(c, name) = IF found = {} THEN None ELSE CHOOSE d \in found : \A e \in found : Len(e.scope) <= Len(d.scope)
  BY DEF Innermost
<1>5. CASE Levels(m, name, Len(m)) = {}
  <2>1. \A d \in found : d = Constant(package, name)
    BY <1>1, <1>5
  <2>2. Reached(m, name, Len(m)) = IF Constant(package, name) \in found THEN Constant(package, name) ELSE None
    BY <1>0, <1>3, <1>5 DEF Reached, Declared
  <2>3. Len(Constant(package, name).scope) \in Nat
    BY <1>0, ConstantEqual
  <2>4. CASE found = {}
    BY <1>4, <2>2, <2>4
  <2>5. CASE found # {}
    <3>1. Constant(package, name) \in found
      BY <2>1, <2>5
    <3>2. \A e \in found : Len(e.scope) <= Len(Constant(package, name).scope)
      BY <2>1, <2>3
    <3>3. (CHOOSE d \in found : \A e \in found : Len(e.scope) <= Len(d.scope)) = Constant(package, name)
      BY <2>1, <3>1, <3>2
    <3> QED BY <1>4, <2>2, <2>5, <3>1, <3>3
  <2> QED BY <2>4, <2>5
<1>6. CASE Levels(m, name, Len(m)) # {}
  <2> DEFINE K == Highest(m, name, Len(m))
             best == Constant(SubSeq(m, 1, K), name)
  <2>1. K \in Levels(m, name, Len(m)) /\ \A l \in Levels(m, name, Len(m)) : l <= K
    <3>1. Len(m) \in 0 .. Len(m)
      BY <1>0
    <3> QED BY <1>6, <3>1, HighestIs
  <2>2. K \in 0 .. Len(m) /\ K > Len(package) /\ best \in found /\ Len(best.scope) = K
    <3>1. K \in 0 .. Len(m) /\ K > Len(package) /\ best \in found
      BY <1>2, <2>1
    <3> QED BY <1>0, <3>1, ConstantParts
  <2>3. ASSUME NEW d \in found PROVE Len(d.scope) \in Nat /\ Len(d.scope) <= K /\ (Len(d.scope) >= K => d = best)
    <3>1. CASE d = Constant(package, name)
      BY <1>0, <2>2, <3>1, ConstantEqual
    <3>2. ASSUME NEW n \in Levels(m, name, Len(m)), d = Constant(SubSeq(m, 1, n), name)
          PROVE  Len(d.scope) \in Nat /\ Len(d.scope) <= K /\ (Len(d.scope) >= K => d = best)
      <4>1. n \in 0 .. Len(m) /\ n <= K /\ Len(d.scope) = n
        <5>1. n \in 0 .. Len(m) /\ n <= K /\ d.scope = SubSeq(m, 1, n)
          BY <1>2, <2>1, <3>2, ConstantParts
        <5> QED BY <1>0, <5>1
      <4>2. n >= K => n = K
        BY <2>2, <4>1
      <4> QED BY <1>0, <3>2, <4>1, <4>2
    <3> QED BY <1>1, <2>3, <3>1, <3>2
  <2>4. (CHOOSE d \in found : \A e \in found : Len(e.scope) <= Len(d.scope)) = best
    <3>1. \A e \in found : Len(e.scope) <= Len(best.scope)
      BY <2>2, <2>3
    <3>2. \A d \in found : (\A e \in found : Len(e.scope) <= Len(d.scope)) => Len(d.scope) >= K
      BY <2>2, <2>3
    <3> QED BY <2>2, <2>3, <3>1, <3>2
  <2> QED BY <1>4, <1>6, <2>2, <2>4 DEF Reached
<1> QED BY <1>5, <1>6

(* A constant whose scope and name make up a path.                          *)
LEMMA PathSplits ==
    ASSUME NEW path \in Seq(STRING), path # << >>
    PROVE  /\ Len(path) \in Nat \ {0} /\ Initial(path) \in Seq(STRING) /\ Final(path) \in STRING
           /\ path = Initial(path) \o <<Final(path)>>
<1>1. Len(path) \in Nat \ {0}
  BY EmptySeq
<1>2. Final(path) \in STRING
  BY <1>1, ElementOfSeq DEF Final
<1>3. \A i \in 1 .. Len(path) - 1 : path[i] \in STRING
  BY <1>1, ElementOfSeq
<1>4. Initial(path) \in Seq(STRING)
  BY <1>1, <1>3, SubSeqProperties DEF Initial
<1>5. SubSeq(path, 1, Len(path)) = path /\ 1 \in 1 .. Len(path) /\ Len(path) \in 1 .. Len(path)
  BY <1>1, SubSeqFull
<1>6. SubSeq(path, 1, Len(path)) = SubSeq(path, 1, Len(path) - 1) \o <<path[Len(path)]>>
  BY <1>5, SubSeqRecursiveSecond
<1> QED BY <1>1, <1>2, <1>4, <1>5, <1>6 DEF Initial, Final
(* The full name of a constant.                                             *)
Full(scope, name) == scope \o <<name>>
(* A full name tells the scope from the name.                               *)
LEMMA FullNames ==
    ASSUME NEW S, NEW s \in Seq(S), NEW e \in S, NEW t \in Seq(S), NEW f \in S
    PROVE  Full(s, e) = Full(t, f) <=> s = t /\ e = f
<1>1. Append(s, e) = s \o <<e>> /\ Append(t, f) = t \o <<f>>
  BY AppendIsConcat
<1>2. Append(s, e) = Append(t, f) <=> s = t /\ e = f
  BY AppendInjective
<1> QED BY <1>1, <1>2 DEF Full
(* A path names a constant if it is its scope and its name.                 *)
LEMMA PathNames ==
    ASSUME Formed, NEW d \in Constants, NEW s \in Seq(STRING), NEW name \in STRING
    PROVE  d.scope \o <<d.name>> = s \o <<name>> <=> d = Constant(s, name)
<1>1. d.scope \in Seq(STRING) /\ d.name \in STRING /\ d = Constant(d.scope, d.name)
  BY ConstantShape
<1>2. Full(d.scope, d.name) = Full(s, name) <=> d.scope = s /\ d.name = name
  BY <1>1, FullNames
<1>3. d = Constant(s, name) <=> d.scope = s /\ d.name = name
  BY <1>1, ConstantParts
<1> QED BY <1>2, <1>3 DEF Full

(* A qualified name is looked up where scoping says: from the root, or as   *)
(* a message of the package unless the root has one of that name.           *)
LEMMA QualifiedMeans ==
    ASSUME Formed, NEW c \in Constants, c.scope \in DOMAIN schema.messages,
           NEW path \in Seq(STRING), path # << >>, Len(path) # 1
    PROVE  FindConstant(c.scope, path) = Qualified(c, path)
<1> DEFINE package == schema.messages[c.scope]
           scope == Initial(path)
           name == Final(path)
           root == {d \in Constants : d.scope \o <<d.name>> = path}
           relative == {d \in Constants : d.scope \in DOMAIN schema.messages /\ d.scope \o <<d.name>> = package \o path}
<1>0. /\ scope \in Seq(STRING) /\ name \in STRING /\ path = scope \o <<name>> /\ package \in Seq(STRING)
      /\ package \in schema.packages
  BY PathSplits, Scopes
<1>1. \A d \in Constants : d \in root <=> d = Constant(scope, name)
  <2>1. \A d \in Constants : d.scope \o <<d.name>> = scope \o <<name>> <=> d = Constant(scope, name)
    BY <1>0, PathNames
  <2> QED BY <1>0, <2>1
<1>2. package \o scope \in Seq(STRING) /\ package \o path = (package \o scope) \o <<name>>
  <2>1. <<name>> \in Seq(STRING)
    BY <1>0
  <2>2. (package \o scope) \o <<name>> = package \o (scope \o <<name>>)
    <3>1. ASSUME NEW s \in Seq(STRING), NEW t \in Seq(STRING), NEW u \in Seq(STRING) PROVE (s \o t) \o u = s \o (t \o u)
      BY ConcatAssociative
    <3> HIDE DEF package, scope, name
    <3> QED BY <1>0, <2>1, <3>1
  <2>3. package \o scope \in Seq(STRING)
    BY <1>0, ConcatProperties
  <2> QED BY <1>0, <2>2, <2>3
<1>3. \A d \in Constants : d \in relative <=> d.scope \in DOMAIN schema.messages /\ d = Constant(package \o scope, name)
  <2>1. \A d \in Constants :
           d.scope \o <<d.name>> = (package \o scope) \o <<name>> <=> d = Constant(package \o scope, name)
    BY <1>0, <1>2, PathNames
  <2> QED BY <1>2, <2>1
<1>4. Qualified(c, path) =
        IF root # {} THEN CHOOSE d \in root : TRUE
        ELSE IF relative # {} /\ scope \notin DOMAIN schema.messages THEN CHOOSE d \in relative : TRUE ELSE None
  BY DEF Qualified
<1>5. FindConstant(c.scope, path) =
        IF Declared(schema.packages, scope, name) # None THEN Declared(schema.packages, scope, name)
        ELSE IF scope \in DOMAIN schema.messages THEN Declared(DOMAIN schema.messages, scope, name)
        ELSE Declared(DOMAIN schema.messages, package \o scope, name)
  BY DEF FindConstant, FindMessageConstant
<1>6. CASE Constant(scope, name) \in Constants
  <2>1. scope \in schema.packages \cup DOMAIN schema.messages /\ Constant(scope, name) # None
    BY <1>6, ConstantShape, ConstantEqual DEF Formed
  <2>2. root = {Constant(scope, name)}
    BY <1>1, <1>6
  <2>3. FindConstant(c.scope, path) = Constant(scope, name)
    BY <1>5, <1>6, <2>1 DEF Declared
  <2>4. (CHOOSE d \in root : TRUE) = Constant(scope, name)
    BY <2>2
  <2> QED BY <1>4, <2>2, <2>3, <2>4
<1>7. CASE Constant(scope, name) \notin Constants
  <2>1. root = {}
    BY <1>1, <1>7
  <2>2. FindConstant(c.scope, path) =
          IF scope \in DOMAIN schema.messages THEN None ELSE Declared(DOMAIN schema.messages, package \o scope, name)
    BY <1>5, <1>7 DEF Declared
  <2>3. CASE package \o scope \in DOMAIN schema.messages /\ Constant(package \o scope, name) \in Constants
    <3>1. relative = {Constant(package \o scope, name)}
      <4>1. Constant(package \o scope, name) \in relative
        <5>1. Constant(package \o scope, name).scope = package \o scope
          BY ConstantParts
        <5> HIDE DEF package, scope, name, relative
        <5> QED BY <1>3, <2>3, <5>1
      <4>2. \A d \in relative : d = Constant(package \o scope, name)
        <5>1. \A d \in relative : d \in Constants
          OBVIOUS
        <5> HIDE DEF package, scope, name, relative
        <5> QED BY <1>3, <5>1
      <4> HIDE DEF relative
      <4> QED BY <4>1, <4>2
    <3>2. (CHOOSE d \in relative : TRUE) = Constant(package \o scope, name)
      BY <3>1
    <3> QED BY <1>4, <2>1, <2>2, <2>3, <3>1, <3>2 DEF Declared
  <2>4. CASE ~(package \o scope \in DOMAIN schema.messages /\ Constant(package \o scope, name) \in Constants)
    <3>1. relative = {}
      <4>1. ASSUME NEW d \in relative PROVE FALSE
        <5>1. d \in Constants
          OBVIOUS
        <5>2. d.scope \in DOMAIN schema.messages /\ d = Constant(package \o scope, name)
          <6> HIDE DEF package, scope, name, relative
          <6> QED BY <1>3, <4>1, <5>1
        <5>3. Constant(package \o scope, name).scope = package \o scope
          BY ConstantParts
        <5> HIDE DEF package, scope, name, relative
        <5> QED BY <2>4, <5>1, <5>2, <5>3
      <4> HIDE DEF relative
      <4> QED BY <4>1
    <3> QED BY <1>4, <2>1, <2>2, <2>4, <3>1 DEF Declared
  <2> QED BY <2>3, <2>4
<1> QED BY <1>6, <1>7

(* What lookup finds is what a name means.                                  *)
LEMMA LookupMeans ==
    ASSUME Formed, NEW c \in Constants, NEW path \in Seq(STRING), path # << >>
    PROVE  Lookup(c, path) = Meant(c, path) /\ Lookup(c, path) \in Constants \cup {None}
<1>1. c.scope \in schema.packages <=> c.scope \notin DOMAIN schema.messages
  BY ConstantShape
<1>2. CASE c.scope \in DOMAIN schema.messages
  <2>1. CASE Len(path) = 1
    <3>1. Lookup(c, path) = Climb(schema.messages[c.scope], c.scope, path[1]) /\ Meant(c, path) = Innermost(c, path[1])
      BY <1>1, <1>2, <2>1 DEF Lookup, FindConstant, Meant
    <3>2. Lookup(c, path) = Reached(c.scope, path[1], Len(c.scope))
      BY <1>2, <3>1, ClimbReaches
    <3>3. Reached(c.scope, path[1], Len(c.scope)) \in Constants \cup {None}
      <4>1. Len(c.scope) \in 0 .. Len(c.scope)
        BY <1>2, Scopes
      <4> QED BY <1>2, <4>1, HighestIs DEF Reached, Declared, Levels, Declares
    <3> QED BY <1>2, <3>1, <3>2, <3>3, InnermostIsReached
  <2>2. CASE Len(path) # 1
    <3>1. Lookup(c, path) = FindConstant(c.scope, path) /\ Meant(c, path) = Qualified(c, path)
      BY <1>1, <1>2, <2>2 DEF Lookup, Meant
    <3>2. FindConstant(c.scope, path) \in Constants \cup {None}
      BY <2>2 DEF FindConstant, FindMessageConstant, Declared
    <3> QED BY <1>2, <2>2, <3>1, <3>2, QualifiedMeans
  <2> QED BY <2>1, <2>2
<1>3. CASE c.scope \notin DOMAIN schema.messages
  <2> DEFINE scope == IF Len(path) = 1 THEN c.scope ELSE Initial(path)
             name == Final(path)
             found == {d \in Constants : d.scope = scope /\ d.name = name}
  <2>1. Lookup(c, path) = Declared(schema.packages, scope, name)
    BY <1>3 DEF Lookup, LookupPackageConstant
  <2>2. Meant(c, path) = IF found = {} \/ scope \notin schema.packages THEN None ELSE CHOOSE d \in found : TRUE
    BY <1>1, <1>3 DEF Meant
  <2>3. \A d \in Constants : d \in found <=> d = Constant(scope, name)
    BY ConstantShape, ConstantEqual
  <2>4. CASE Constant(scope, name) \in Constants
    <3>1. found = {Constant(scope, name)}
      BY <2>3, <2>4
    <3>2. (CHOOSE d \in found : TRUE) = Constant(scope, name)
      BY <3>1
    <3> QED BY <2>1, <2>2, <2>4, <3>1, <3>2 DEF Declared
  <2>5. CASE Constant(scope, name) \notin Constants
    <3>1. found = {}
      BY <2>3, <2>5
    <3> QED BY <2>1, <2>2, <2>5, <3>1 DEF Declared
  <2> QED BY <2>4, <2>5
<1> QED BY <1>2, <1>3

---------------------------------------------------------------------------
(* Chains of constants *)

Named(c, i) == Lookup(c, schema.uses[c][i])
(* A chain of this many constants begins with this one.                     *)
Chained(c, k) == \E f \in [1 .. k -> Constants] : f[1] = c /\ \A i \in 1 .. k - 1 : f[i + 1] \in Needs(f[i])
(* What a constant needs is what the lookup of its names finds.             *)
LEMMA NeedsAreNamed ==
    ASSUME Formed, NEW c \in Constants
    PROVE  /\ Len(schema.uses[c]) \in Nat
           /\ Needs(c) = {Named(c, i) : i \in 1 .. Len(schema.uses[c])}
           /\ Needs(c) \subseteq Constants \cup {None}
<1>1. schema.uses[c] \in Seq(Seq(STRING) \ {<< >>})
  BY ConstantShape
<1>2. Len(schema.uses[c]) \in Nat /\ DOMAIN schema.uses[c] = 1 .. Len(schema.uses[c])
  BY <1>1, LenProperties
<1>3. ASSUME NEW i \in 1 .. Len(schema.uses[c])
      PROVE  Named(c, i) = Meant(c, schema.uses[c][i]) /\ Named(c, i) \in Constants \cup {None}
  <2>1. schema.uses[c][i] \in Seq(STRING) \ {<< >>}
    BY <1>1, ElementOfSeq
  <2> QED BY <2>1, LookupMeans DEF Named
<1> QED BY <1>2, <1>3 DEF Needs
(* Every constant is a chain.                                               *)
LEMMA ChainOfOne == ASSUME NEW c \in Constants PROVE Chained(c, 1)
<1>1. [i \in 1 .. 1 |-> c] \in [1 .. 1 -> Constants] /\ [i \in 1 .. 1 |-> c][1] = c /\ 1 .. (1 - 1) = {}
  OBVIOUS
<1> QED BY <1>1 DEF Chained
(* A chain grows in front by a constant that needs its first,               *)
LEMMA ChainGrows ==
    ASSUME NEW c \in Constants, NEW d \in Needs(c), NEW k \in Nat \ {0}, Chained(d, k)
    PROVE  Chained(c, k + 1)
<1>1. PICK f \in [1 .. k -> Constants] : f[1] = d /\ \A i \in 1 .. k - 1 : f[i + 1] \in Needs(f[i])
  BY DEF Chained
<1> DEFINE g == [i \in 1 .. k + 1 |-> IF i = 1 THEN c ELSE f[i - 1]]
<1>2. g \in [1 .. k + 1 -> Constants] /\ g[1] = c
  <2>1. \A i \in 1 .. k + 1 : i # 1 => i - 1 \in 1 .. k
    OBVIOUS
  <2> QED BY <2>1
<1>3. ASSUME NEW i \in 1 .. (k + 1) - 1 PROVE g[i + 1] \in Needs(g[i])
  <2>1. g[i + 1] = f[i] /\ i \in 1 .. k
    OBVIOUS
  <2>2. CASE i = 1
    BY <1>1, <2>1, <2>2
  <2>3. CASE i # 1
    <3>1. i - 1 \in 1 .. k - 1 /\ g[i] = f[i - 1] /\ (i - 1) + 1 = i
      BY <2>1, <2>3
    <3> QED BY <1>1, <2>1, <3>1
  <2> QED BY <2>2, <2>3
<1> HIDE DEF g
<1> QED BY <1>2, <1>3 DEF Chained
(* and shrinks in front to one that its first constant needs.               *)
LEMMA ChainShrinks ==
    ASSUME NEW c \in Constants, NEW k \in Nat, k > 1, Chained(c, k)
    PROVE  \E d \in Needs(c) \cap Constants : Chained(d, k - 1)
<1>1. PICK f \in [1 .. k -> Constants] : f[1] = c /\ \A i \in 1 .. k - 1 : f[i + 1] \in Needs(f[i])
  BY DEF Chained
<1> DEFINE g == [i \in 1 .. k - 1 |-> f[i + 1]]
<1>2. g \in [1 .. k - 1 -> Constants] /\ g[1] = f[2] /\ f[2] \in Needs(c) \cap Constants
  <2>1. \A i \in 1 .. k - 1 : i + 1 \in 1 .. k
    OBVIOUS
  <2>2. 1 \in 1 .. k - 1 /\ 1 + 1 = 2 /\ f[1 + 1] \in Needs(f[1])
    BY <1>1
  <2> QED BY <1>1, <2>1, <2>2
<1>3. ASSUME NEW i \in 1 .. (k - 1) - 1 PROVE g[i + 1] \in Needs(g[i])
  <2>1. i + 1 \in 1 .. k - 1 /\ i \in 1 .. k - 1 /\ g[i + 1] = f[(i + 1) + 1] /\ g[i] = f[i + 1]
    OBVIOUS
  <2> QED BY <1>1, <2>1
<1> HIDE DEF g
<1>4. Chained(f[2], k - 1)
  BY <1>2, <1>3 DEF Chained
<1> QED BY <1>2, <1>4
(* A schema is too deep if a chain of one more than allowed begins anywhere. *)
LEMMA ChainsTooDeep == TooDeep <=> \E c \in Constants : Chained(c, MaxDepth + 1)
<1>1. (MaxDepth + 1) - 1 = MaxDepth /\ 1 \in 1 .. MaxDepth + 1
  BY ResolutionAssumption DEF ResolutionAssumption
<1> QED BY <1>1 DEF TooDeep, Chains, Chained
(* In a circle there are chains of every length.                            *)
LEMMA CircleChains ==
    ASSUME NEW S \in SUBSET Constants, \A c \in S : \E d \in S : d \in Needs(c), NEW c \in S, NEW k \in Nat \ {0}
    PROVE  Chained(c, k)
<1> DEFINE Short == {l \in Nat \ {0} : \E d \in S : ~Chained(d, l)}
<1> SUFFICES ASSUME Short # {} PROVE FALSE
  OBVIOUS
<1>1. PICK l \in Short : \A n \in Short : l <= n
  <2>1. Short \subseteq Nat
    OBVIOUS
  <2> HIDE DEF Short
  <2> QED BY <2>1, Least
<1>2. PICK d \in S : ~Chained(d, l)
  BY <1>1
<1>3. PICK e \in S : e \in Needs(d)
  BY <1>2
<1>4. l # 1
  BY <1>2, ChainOfOne
<1>5. l - 1 \in Nat \ {0} /\ l - 1 \notin Short
  <2>1. l \in Nat \ {0} /\ l - 1 \in Nat \ {0} /\ ~(l <= l - 1)
    BY <1>4
  <2> HIDE DEF Short
  <2> QED BY <1>1, <2>1
<1>6. Chained(e, l - 1)
  BY <1>3, <1>5
<1>7. Chained(d, (l - 1) + 1)
  BY <1>2, <1>3, <1>5, <1>6, ChainGrows
<1>8. (l - 1) + 1 = l
  BY <1>1
<1> QED BY <1>2, <1>7, <1>8
(* A step changes nothing of the schema.                                    *)
LEMMA SchemaStays ==
    ASSUME UNCHANGED schema
    PROVE  /\ Constants' = Constants /\ (Formed' <=> Formed)
           /\ \A c : Needs(c)' = Needs(c)
           /\ \A c, i : Named(c, i)' = Named(c, i)
           /\ \A c, k : Chained(c, k)' <=> Chained(c, k)
           /\ (TooDeep' <=> TooDeep) /\ (SomeUnknown' <=> SomeUnknown)
<1>1. Constants' = Constants
  BY DEF Constants
<1>2. Formed' <=> Formed
  BY <1>1 DEF Formed, WellFormed
<1>3. ASSUME NEW c PROVE Needs(c)' = Needs(c)
  BY <1>1 DEF Needs, Meant, Innermost, Qualified, Around, Constants, Initial, Final
<1>4. ASSUME NEW c, NEW i PROVE Named(c, i)' = Named(c, i)
  BY DEF Named, Lookup, FindConstant, Climb, FindMessageConstant, LookupPackageConstant, Declared, Constants, Initial, Final
<1>5. \A c, k : Chained(c, k)' <=> Chained(c, k)
  BY <1>1, <1>3 DEF Chained
<1>6. (TooDeep' <=> TooDeep) /\ (SomeUnknown' <=> SomeUnknown)
  BY <1>1, <1>3 DEF TooDeep, Chains, SomeUnknown
<1> QED BY <1>1, <1>2, <1>3, <1>4, <1>5, <1>6

---------------------------------------------------------------------------
(* Resolution *)

(* What is done has its depth: the longest chain that begins with it.       *)
DoneOK(d) ==
    \A c \in DOMAIN d :
        /\ c \in Constants /\ d[c] \in 1 .. MaxDepth
        /\ Chained(c, d[c]) /\ \A k \in Nat : k > d[c] => ~Chained(c, k)
        /\ \A e \in Needs(c) : e \in DOMAIN d /\ d[e] < d[c]
(* What is being resolved has the depth of what it has named so far.        *)
Frames == [constant : Constants, next : Nat \ {0}, deepest : 0 .. MaxDepth]
FrameOK(d, f) ==
    /\ f.constant \notin DOMAIN d /\ f.next <= Len(schema.uses[f.constant]) + 1
    /\ \A j \in 1 .. f.next - 1 :
          Named(f.constant, j) \in DOMAIN d /\ d[Named(f.constant, j)] <= f.deepest
    /\ f.deepest = 0 \/ \E j \in 1 .. f.next - 1 : d[Named(f.constant, j)] = f.deepest
(* Each is named by the one below it, and none is there twice.              *)
Stacked(s) ==
    /\ s \in Seq(Frames) /\ Len(s) <= MaxDepth
    /\ \A i \in 1 .. Len(s) - 1 :
          /\ s[i].next <= Len(schema.uses[s[i].constant])
          /\ Named(s[i].constant, s[i].next) = s[i + 1].constant
    /\ \A i, j \in 1 .. Len(s) : s[i].constant = s[j].constant => i = j
StackOK(d, s) == Stacked(s) /\ \A i \in 1 .. Len(s) : FrameOK(d, s[i])
VerdictOK ==
    /\ verdict = "resolved" => DOMAIN done = Constants
    /\ verdict = "unknown" => SomeUnknown
    /\ verdict \in {"cycle", "deep"} => TooDeep
ResInv == Formed /\ DoneOK(done) /\ StackOK(done, stack) /\ VerdictOK

(* One more constant is begun.                                              *)
LEMMA ResolveKeeps ==
    ASSUME Formed, NEW d, NEW s, StackOK(d, s), NEW c \in Constants \ DOMAIN d, Len(s) < MaxDepth,
           \A i \in 1 .. Len(s) : s[i].constant # c,
           s = << >> \/ (s[Len(s)].next <= Len(schema.uses[s[Len(s)].constant])
                            /\ Named(s[Len(s)].constant, s[Len(s)].next) = c)
    PROVE  StackOK(d, Append(s, [constant |-> c, next |-> 1, deepest |-> 0]))
<1> DEFINE frame == [constant |-> c, next |-> 1, deepest |-> 0]
           t == Append(s, frame)
<1>1. s \in Seq(Frames) /\ frame \in Frames /\ Len(s) \in Nat
  <2>1. MaxDepth \in Nat
    BY ResolutionAssumption DEF ResolutionAssumption
  <2>2. s \in Seq(Frames)
    BY DEF StackOK, Stacked
  <2>3. frame \in Frames
    BY <2>1 DEF Frames
  <2> QED BY <2>2, <2>3, LenProperties
<1>2. /\ t \in Seq(Frames) /\ Len(t) = Len(s) + 1 /\ t[Len(s) + 1] = frame
      /\ \A i \in 1 .. Len(s) : t[i] = s[i]
  BY <1>1, AppendProperties
<1>3. frame.constant = c /\ frame.next = 1 /\ frame.deepest = 0 /\ 1 .. frame.next - 1 = {}
  OBVIOUS
<1>4. FrameOK(d, frame)
  <2>1. Len(schema.uses[c]) \in Nat
    BY NeedsAreNamed
  <2> HIDE DEF frame
  <2> QED BY <1>3, <2>1 DEF FrameOK
<1> HIDE DEF frame, t
<1>5. \A i \in 1 .. Len(t) : FrameOK(d, t[i])
  <2>1. \A i \in 1 .. Len(t) : i = Len(s) + 1 \/ i \in 1 .. Len(s)
    BY <1>1, <1>2
  <2> QED BY <1>2, <1>4, <2>1 DEF StackOK
<1>6. Len(t) <= MaxDepth
  BY <1>1, <1>2, ResolutionAssumption DEF ResolutionAssumption
<1>7. ASSUME NEW i \in 1 .. Len(t) - 1
      PROVE  t[i].next <= Len(schema.uses[t[i].constant]) /\ Named(t[i].constant, t[i].next) = t[i + 1].constant
  <2>1. i \in 1 .. Len(s) /\ t[i] = s[i]
    BY <1>1, <1>2
  <2>2. CASE i = Len(s)
    <3>1. s # << >>
      BY <2>1
    <3> QED BY <1>2, <1>3, <2>1, <2>2, <3>1
  <2>3. CASE i # Len(s)
    <3>1. i \in 1 .. Len(s) - 1 /\ t[i + 1] = s[i + 1]
      BY <1>1, <1>2, <2>1, <2>3
    <3> QED BY <2>1, <3>1 DEF StackOK, Stacked
  <2> QED BY <2>2, <2>3
<1>8. ASSUME NEW i \in 1 .. Len(t), NEW j \in 1 .. Len(t), t[i].constant = t[j].constant PROVE i = j
  <2>1. (i = Len(s) + 1 \/ i \in 1 .. Len(s)) /\ (j = Len(s) + 1 \/ j \in 1 .. Len(s))
    BY <1>1, <1>2
  <2>2. \A k \in 1 .. Len(s) : t[k].constant = s[k].constant /\ t[k].constant # c
    BY <1>2
  <2>3. t[Len(s) + 1].constant = c
    BY <1>2, <1>3
  <2>4. \A k, l \in 1 .. Len(s) : s[k].constant = s[l].constant => k = l
    BY DEF StackOK, Stacked
  <2> QED BY <1>8, <2>1, <2>2, <2>3, <2>4
<1>9. StackOK(d, t)
  BY <1>2, <1>5, <1>6, <1>7, <1>8 DEF StackOK, Stacked
<1> QED BY <1>9 DEF t, frame

(* The name at which the last frame stands is done.                         *)
LEMMA AdvanceKeeps ==
    ASSUME Formed, NEW d, DoneOK(d), NEW s, Stacked(s), s # << >>, \A i \in 1 .. Len(s) : FrameOK(d, s[i]),
           s[Len(s)].next <= Len(schema.uses[s[Len(s)].constant]),
           Named(s[Len(s)].constant, s[Len(s)].next) \in DOMAIN d
    PROVE  StackOK(d, Advance(s, d[Named(s[Len(s)].constant, s[Len(s)].next)]))
<1> DEFINE top == s[Len(s)]
           depth == d[Named(top.constant, top.next)]
           frame == [constant |-> top.constant, next |-> top.next + 1, deepest |-> Deeper(top.deepest, depth)]
           t == [s EXCEPT ![Len(s)] = frame]
<1>1. s \in Seq(Frames) /\ Len(s) \in Nat \ {0} /\ Len(s) \in 1 .. Len(s)
  BY EmptySeq DEF Stacked
<1>2. top \in Frames /\ top.constant \in Constants /\ top.next \in Nat \ {0} /\ top.deepest \in 0 .. MaxDepth
  <2>1. top \in Frames
    BY <1>1, ElementOfSeq
  <2> QED BY <2>1 DEF Frames
<1>3. depth \in 1 .. MaxDepth /\ FrameOK(d, top) /\ MaxDepth \in Nat
  BY <1>1, ResolutionAssumption DEF DoneOK, ResolutionAssumption
<1>4. Len(schema.uses[top.constant]) \in Nat
  BY <1>2, NeedsAreNamed
<1> HIDE DEF top, depth
<1>5. frame \in Frames /\ frame.constant = top.constant /\ frame.next = top.next + 1
      /\ frame.deepest \in 0 .. MaxDepth /\ top.deepest <= frame.deepest /\ depth <= frame.deepest
      /\ frame.deepest \in {top.deepest, depth}
  BY <1>2, <1>3 DEF Frames, Deeper
<1>6. Advance(s, depth) = t
  <2>1. top = [constant |-> top.constant, next |-> top.next, deepest |-> top.deepest]
    BY <1>2 DEF Frames
  <2>2. Advance(s, depth) = [s EXCEPT ![Len(s)] = [[top EXCEPT !.next = @ + 1] EXCEPT !.deepest = Deeper(@, depth)]]
    <3>1. s = [i \in 1 .. Len(s) |-> s[i]]
      BY <1>1, LenProperties
    <3> QED BY <1>1, <3>1 DEF Advance, top
  <2>3. [[top EXCEPT !.next = @ + 1] EXCEPT !.deepest = Deeper(@, depth)] = frame
    <3> DEFINE n == top.next
               e == top.deepest
    <3>1. top = [constant |-> top.constant, next |-> n, deepest |-> e] /\ n = top.next /\ e = top.deepest
      BY <2>1
    <3>2. [top EXCEPT !.next = @ + 1] = [constant |-> top.constant, next |-> n + 1, deepest |-> e]
      BY <3>1
    <3> HIDE DEF n, e
    <3>3. ASSUME NEW r, NEW c, NEW m, NEW x, NEW y, r = [constant |-> c, next |-> m, deepest |-> x]
          PROVE  [r EXCEPT !.deepest = y] = [constant |-> c, next |-> m, deepest |-> y]
      BY <3>3
    <3>4. [top EXCEPT !.next = @ + 1].deepest = e
      BY <3>2
    <3> DEFINE moved == [top EXCEPT !.next = @ + 1]
    <3>5. moved = [constant |-> top.constant, next |-> n + 1, deepest |-> e]
      BY <3>2
    <3> HIDE DEF moved
    <3>6. [moved EXCEPT !.deepest = Deeper(e, depth)] = [constant |-> top.constant, next |-> n + 1, deepest |-> Deeper(e, depth)]
      BY <3>3, <3>5
    <3> QED BY <3>1, <3>4, <3>6 DEF frame, moved
  <2> QED BY <2>2, <2>3
<1> HIDE DEF frame
<1>7. t \in Seq(Frames) /\ Len(t) = Len(s) /\ t[Len(s)] = frame /\ \A i \in 1 .. Len(s) - 1 : t[i] = s[i]
  <2>1. /\ t \in Seq(Frames) /\ Len(t) = Len(s)
        /\ \A j \in 1 .. Len(s) : t[j] = IF j = Len(s) THEN frame ELSE s[j]
    BY <1>1, <1>5, ExceptSeq
  <2> QED BY <1>1, <2>1
<1> HIDE DEF t
<1>8. FrameOK(d, frame)
  <2>1. frame.constant \notin DOMAIN d /\ frame.next <= Len(schema.uses[frame.constant]) + 1
    BY <1>2, <1>3, <1>4, <1>5 DEF FrameOK, top
  <2>2. ASSUME NEW j \in 1 .. frame.next - 1
        PROVE  Named(frame.constant, j) \in DOMAIN d /\ d[Named(frame.constant, j)] <= frame.deepest
    <3>1. CASE j = top.next
      BY <1>5, <3>1 DEF top, depth
    <3>2. CASE j # top.next
      <4>1. j \in 1 .. top.next - 1
        BY <1>2, <1>5, <3>2
      <4>2. Named(top.constant, j) \in DOMAIN d /\ d[Named(top.constant, j)] <= top.deepest
        BY <1>3, <4>1 DEF FrameOK
      <4>3. d[Named(top.constant, j)] \in Nat
        BY <1>3, <4>2 DEF DoneOK
      <4> QED BY <1>2, <1>3, <1>5, <4>2, <4>3
    <3> QED BY <3>1, <3>2
  <2>3. frame.deepest = 0 \/ \E j \in 1 .. frame.next - 1 : d[Named(frame.constant, j)] = frame.deepest
    <3>1. CASE frame.deepest = depth
      <4>1. top.next \in 1 .. frame.next - 1
        BY <1>2, <1>5
      <4> QED BY <1>5, <3>1, <4>1 DEF depth
    <3>2. CASE frame.deepest = top.deepest
      <4>1. \A j \in 1 .. top.next - 1 : j \in 1 .. frame.next - 1
        BY <1>2, <1>5
      <4> QED BY <1>3, <1>5, <3>2, <4>1 DEF FrameOK
    <3> QED BY <1>5, <3>1, <3>2
  <2> QED BY <2>1, <2>2, <2>3 DEF FrameOK
<1>9. \A i \in 1 .. Len(t) : FrameOK(d, t[i]) /\ t[i].constant = s[i].constant
  <2>1. \A i \in 1 .. Len(t) : i = Len(s) \/ i \in 1 .. Len(s) - 1
    BY <1>1, <1>7
  <2> QED BY <1>1, <1>5, <1>7, <1>8, <2>1 DEF top
<1>10. ASSUME NEW i \in 1 .. Len(t) - 1
       PROVE  t[i].next <= Len(schema.uses[t[i].constant]) /\ Named(t[i].constant, t[i].next) = t[i + 1].constant
  <2>1. i \in 1 .. Len(s) - 1 /\ i + 1 \in 1 .. Len(t) /\ t[i] = s[i]
    BY <1>1, <1>7
  <2> QED BY <1>9, <2>1 DEF Stacked
<1>11. Stacked(t)
  BY <1>7, <1>9, <1>10 DEF Stacked
<1> QED BY <1>6, <1>9, <1>11 DEF StackOK, top, depth
(* What a stack says of its constants: each needs the next one, and the     *)
(* last one what it has come to.                                            *)
LEMMA StackedNeeds ==
    ASSUME Formed, NEW s, Stacked(s)
    PROVE  /\ Len(s) \in Nat /\ s \in Seq(Frames)
           /\ \A i \in 1 .. Len(s) : s[i] \in Frames /\ s[i].constant \in Constants
           /\ \A i \in 1 .. Len(s) - 1 : s[i + 1].constant \in Needs(s[i].constant)
           /\ \A i \in 1 .. Len(s) : s[i].next <= Len(schema.uses[s[i].constant]) =>
                  /\ Named(s[i].constant, s[i].next) \in Needs(s[i].constant)
                  /\ Named(s[i].constant, s[i].next) \in Constants \cup {None}
<1>1. s \in Seq(Frames) /\ Len(s) \in Nat
  BY LenProperties DEF Stacked
<1>2. ASSUME NEW i \in 1 .. Len(s)
      PROVE  s[i] \in Frames /\ s[i].constant \in Constants /\ s[i].next \in Nat \ {0}
  <2>1. s[i] \in Frames
    BY <1>1, ElementOfSeq
  <2> QED BY <2>1 DEF Frames
<1>3. ASSUME NEW i \in 1 .. Len(s), s[i].next <= Len(schema.uses[s[i].constant])
      PROVE  /\ Named(s[i].constant, s[i].next) \in Needs(s[i].constant)
             /\ Named(s[i].constant, s[i].next) \in Constants \cup {None}
  <2>1. s[i].constant \in Constants /\ s[i].next \in 1 .. Len(schema.uses[s[i].constant])
    <3>1. Len(schema.uses[s[i].constant]) \in Nat
      BY <1>2, NeedsAreNamed
    <3> QED BY <1>2, <1>3, <3>1
  <2>2. Named(s[i].constant, s[i].next) \in Needs(s[i].constant)
    BY <2>1, NeedsAreNamed
  <2> QED BY <2>1, <2>2, NeedsAreNamed
<1>4. ASSUME NEW i \in 1 .. Len(s) - 1 PROVE s[i + 1].constant \in Needs(s[i].constant)
  <2>1. i \in 1 .. Len(s)
    BY <1>1
  <2>2. s[i].next <= Len(schema.uses[s[i].constant]) /\ Named(s[i].constant, s[i].next) = s[i + 1].constant
    BY DEF Stacked
  <2> QED BY <1>3, <2>1, <2>2
<1> QED BY <1>1, <1>2, <1>3, <1>4

(* The faults of enter_constant_dependency: a name of a constant under      *)
(* evaluation closes a circle, and chains in a circle have any length.      *)
LEMMA CycleIsTooDeep ==
    ASSUME Formed, NEW s, Stacked(s), s # << >>, s[Len(s)].next <= Len(schema.uses[s[Len(s)].constant]),
           NEW i \in 1 .. Len(s), Named(s[Len(s)].constant, s[Len(s)].next) = s[i].constant
    PROVE  TooDeep
<1> DEFINE S == {s[j].constant : j \in i .. Len(s)}
<1>1. Len(s) \in Nat /\ i \in 1 .. Len(s) /\ Len(s) \in 1 .. Len(s)
  BY StackedNeeds
<1>2. S \in SUBSET Constants
  BY <1>1, StackedNeeds
<1>3. ASSUME NEW c \in S PROVE \E d \in S : d \in Needs(c)
  <2>1. PICK j \in i .. Len(s) : c = s[j].constant
    BY <1>3
  <2>2. CASE j = Len(s)
    <3>1. s[i].constant \in S /\ s[i].constant \in Needs(s[j].constant)
      BY <1>1, <2>2, StackedNeeds
    <3> QED BY <2>1, <3>1
  <2>3. CASE j # Len(s)
    <3>1. j \in 1 .. Len(s) - 1 /\ j + 1 \in i .. Len(s)
      BY <1>1, <2>3
    <3>2. s[j + 1].constant \in S /\ s[j + 1].constant \in Needs(s[j].constant)
      BY <3>1, StackedNeeds
    <3> QED BY <2>1, <3>2
  <2> QED BY <2>2, <2>3
<1>4. s[i].constant \in S /\ MaxDepth + 1 \in Nat \ {0}
  BY <1>1, ResolutionAssumption DEF ResolutionAssumption
<1> HIDE DEF S
<1>5. Chained(s[i].constant, MaxDepth + 1)
  BY <1>2, <1>3, <1>4, CircleChains
<1> QED BY <1>2, <1>4, <1>5, ChainsTooDeep
(* A name on a full stack that is not resolved yet makes a longer chain.    *)
LEMMA FullIsTooDeep ==
    ASSUME Formed, NEW s, Stacked(s), s # << >>, s[Len(s)].next <= Len(schema.uses[s[Len(s)].constant]),
           Named(s[Len(s)].constant, s[Len(s)].next) # None, Len(s) >= MaxDepth
    PROVE  TooDeep
<1> DEFINE c == Named(s[Len(s)].constant, s[Len(s)].next)
           chain == [i \in 1 .. MaxDepth + 1 |-> IF i <= MaxDepth THEN s[i].constant ELSE c]
<1>1. Len(s) = MaxDepth /\ MaxDepth \in Nat \ {0}
  BY StackedNeeds, ResolutionAssumption DEF ResolutionAssumption, Stacked
<1>2. c \in Constants /\ c \in Needs(s[MaxDepth].constant)
  <2>1. Len(s) \in 1 .. Len(s)
    BY <1>1
  <2> QED BY <1>1, <2>1, StackedNeeds
<1> HIDE DEF c
<1>3. chain \in Chains
  BY <1>1, <1>2, StackedNeeds DEF Chains
<1>4. ASSUME NEW i \in 1 .. MaxDepth PROVE chain[i + 1] \in Needs(chain[i])
  <2>1. chain[i] = s[i].constant
    BY <1>1
  <2>2. CASE i = MaxDepth
    BY <1>1, <1>2, <2>1, <2>2
  <2>3. CASE i # MaxDepth
    <3>1. i \in 1 .. Len(s) - 1 /\ chain[i + 1] = s[i + 1].constant
      BY <1>1, <2>3
    <3> QED BY <2>1, <3>1, StackedNeeds
  <2> QED BY <2>2, <2>3
<1> HIDE DEF chain
<1> QED BY <1>3, <1>4 DEF TooDeep
(* The memo with one more constant.                                         *)
Finished(d, c, depth) == [e \in DOMAIN d \cup {c} |-> IF e = c THEN depth ELSE d[e]]
(* A constant whose last name is done has one more than its deepest         *)
(* dependency as its depth: a chain of that many begins with it.            *)
LEMMA TopIsFinished ==
    ASSUME Formed, NEW d, DoneOK(d), NEW s, StackOK(d, s), s # << >>,
           s[Len(s)].next > Len(schema.uses[s[Len(s)].constant])
    PROVE  /\ s[Len(s)].constant \in Constants \ DOMAIN d /\ s[Len(s)].deepest \in 0 .. MaxDepth
           /\ \A e \in Needs(s[Len(s)].constant) : e \in DOMAIN d /\ d[e] <= s[Len(s)].deepest
           /\ Chained(s[Len(s)].constant, s[Len(s)].deepest + 1)
<1> DEFINE top == s[Len(s)]
<1>1. Len(s) \in 1 .. Len(s) /\ Stacked(s)
  BY EmptySeq DEF StackOK, Stacked
<1>2. /\ top \in Frames /\ FrameOK(d, top) /\ top.constant \in Constants /\ top.next \in Nat \ {0}
      /\ top.deepest \in 0 .. MaxDepth
  <2>1. top \in Frames /\ FrameOK(d, top)
    BY <1>1, StackedNeeds DEF StackOK
  <2> QED BY <2>1 DEF Frames
<1>3. Len(schema.uses[top.constant]) = top.next - 1 /\ Needs(top.constant) = {Named(top.constant, j) : j \in 1 .. top.next - 1}
  <2>1. /\ Len(schema.uses[top.constant]) \in Nat
        /\ Needs(top.constant) = {Named(top.constant, j) : j \in 1 .. Len(schema.uses[top.constant])}
    BY <1>2, NeedsAreNamed
  <2>2. top.next <= Len(schema.uses[top.constant]) + 1
    BY <1>2 DEF FrameOK
  <2> QED BY <1>2, <2>1, <2>2
<1> HIDE DEF top
<1>4. \A e \in Needs(top.constant) : e \in DOMAIN d /\ d[e] <= top.deepest
  BY <1>2, <1>3 DEF FrameOK
<1>5. CASE top.deepest = 0
  BY <1>2, <1>4, <1>5, ChainOfOne DEF FrameOK, top
<1>6. CASE top.deepest # 0
  <2>1. PICK e \in Needs(top.constant) : d[e] = top.deepest
    BY <1>2, <1>3, <1>6 DEF FrameOK
  <2>2. Chained(e, top.deepest) /\ top.deepest \in Nat \ {0}
    BY <1>2, <1>4, <1>6, <2>1 DEF DoneOK
  <2>3. Chained(top.constant, top.deepest + 1)
    BY <1>2, <2>1, <2>2, ChainGrows
  <2> QED BY <1>2, <1>4, <2>3 DEF FrameOK, top
<1> QED BY <1>5, <1>6
(* The memo stays right with the constant that is finished,                 *)
LEMMA FinishKeepsDone ==
    ASSUME Formed, NEW d, DoneOK(d), NEW c \in Constants \ DOMAIN d, NEW deepest \in 0 .. MaxDepth,
           \A e \in Needs(c) : e \in DOMAIN d /\ d[e] <= deepest,
           Chained(c, deepest + 1), deepest + 1 <= MaxDepth
    PROVE  DoneOK(Finished(d, c, deepest + 1))
<1> DEFINE f == Finished(d, c, deepest + 1)
<1>1. /\ DOMAIN f = DOMAIN d \cup {c} /\ f[c] = deepest + 1
      /\ \A e \in DOMAIN d : f[e] = d[e]
  BY DEF Finished
<1>2. deepest \in Nat /\ MaxDepth \in Nat
  BY ResolutionAssumption DEF ResolutionAssumption
<1> HIDE DEF f
<1>3. ASSUME NEW k \in Nat, k > deepest + 1 PROVE ~Chained(c, k)
  <2> SUFFICES ASSUME Chained(c, k) PROVE FALSE
    OBVIOUS
  <2>1. PICK e \in Needs(c) \cap Constants : Chained(e, k - 1)
    BY <1>2, <1>3, ChainShrinks
  <2>2. e \in DOMAIN d /\ d[e] <= deepest /\ d[e] \in 1 .. MaxDepth
    BY <2>1 DEF DoneOK
  <2>3. k - 1 \in Nat /\ k - 1 > d[e]
    BY <1>2, <1>3, <2>2
  <2> QED BY <2>1, <2>2, <2>3 DEF DoneOK
<1>4. ASSUME NEW e \in DOMAIN d
      PROVE  /\ e \in Constants /\ f[e] \in 1 .. MaxDepth /\ Chained(e, f[e])
             /\ \A k \in Nat : k > f[e] => ~Chained(e, k)
             /\ \A x \in Needs(e) : x \in DOMAIN f /\ f[x] < f[e]
  BY <1>1 DEF DoneOK
<1>5. /\ f[c] \in 1 .. MaxDepth /\ Chained(c, f[c])
      /\ \A k \in Nat : k > f[c] => ~Chained(c, k)
  BY <1>1, <1>2, <1>3
<1>6. ASSUME NEW x \in Needs(c) PROVE x \in DOMAIN f /\ f[x] < f[c]
  <2>1. x \in DOMAIN d /\ d[x] <= deepest /\ d[x] \in 1 .. MaxDepth
    BY DEF DoneOK
  <2> QED BY <1>1, <1>2, <2>1
<1>7. DoneOK(f)
  BY <1>1, <1>4, <1>5, <1>6 DEF DoneOK
<1> QED BY <1>7 DEF f
(* and so does what is left of the stack.                                   *)
LEMMA FinishKeepsStack ==
    ASSUME Formed, NEW d, NEW s, StackOK(d, s), s # << >>, NEW depth, DoneOK(Finished(d, s[Len(s)].constant, depth))
    PROVE  StackOK(Finished(d, s[Len(s)].constant, depth),
                   IF Initial(s) = << >> THEN Initial(s) ELSE Advance(Initial(s), depth))
<1> DEFINE c == s[Len(s)].constant
           f == Finished(d, c, depth)
           rest == Initial(s)
<1>1. s \in Seq(Frames) /\ Len(s) \in Nat \ {0} /\ Stacked(s)
  BY EmptySeq DEF StackOK, Stacked
<1>2. /\ DOMAIN f = DOMAIN d \cup {c} /\ f[c] = depth
      /\ (c \notin DOMAIN d => \A e \in DOMAIN d : f[e] = d[e])
  BY DEF Finished
<1>3. /\ rest \in Seq(Frames) /\ Len(rest) = Len(s) - 1
      /\ \A i \in 1 .. Len(s) - 1 : rest[i] = s[i] /\ i \in 1 .. Len(s)
  <2>1. \A i \in 1 .. Len(s) - 1 : i \in 1 .. Len(s)
    BY <1>1
  <2>2. \A i \in 1 .. Len(s) - 1 : s[i] \in Frames
    BY <1>1, <2>1, ElementOfSeq
  <2> DEFINE n == Len(s) - 1
  <2>3. n \in Nat /\ 1 \in Int /\ n \in Int
    BY <1>1
  <2> HIDE DEF n
  <2>4. /\ SubSeq(s, 1, n) \in Seq(Frames)
        /\ Len(SubSeq(s, 1, n)) = IF 1 <= n THEN n - 1 + 1 ELSE 0
        /\ \A i \in 1 .. n - 1 + 1 : SubSeq(s, 1, n)[i] = s[1 + i - 1]
    BY <2>2, <2>3, SubSeqProperties DEF n
  <2>5. rest = SubSeq(s, 1, n)
    BY DEF Initial, n
  <2> HIDE DEF rest
  <2>6. Len(rest) = n /\ \A i \in 1 .. n : rest[i] = s[i]
    BY <2>3, <2>4, <2>5
  <2> QED BY <2>1, <2>4, <2>5, <2>6 DEF n
<1>4. c \notin DOMAIN d
  <2>1. Len(s) \in 1 .. Len(s)
    BY <1>1
  <2> QED BY <2>1 DEF StackOK, FrameOK
<1> HIDE DEF f
<1>5. ASSUME NEW i \in 1 .. Len(s) - 1 PROVE FrameOK(f, s[i])
  <2>1. FrameOK(d, s[i]) /\ i \in 1 .. Len(s) /\ Len(s) \in 1 .. Len(s) /\ i # Len(s)
    BY <1>1, <1>3 DEF StackOK
  <2>2. s[i].constant # c
    BY <2>1 DEF StackOK, Stacked
  <2> QED BY <1>2, <1>4, <2>1, <2>2 DEF FrameOK
<1>6. Stacked(rest)
  <2>1. Len(rest) <= MaxDepth
    BY <1>1, <1>3, ResolutionAssumption DEF ResolutionAssumption, StackOK, Stacked
  <2>2. ASSUME NEW i \in 1 .. Len(rest) - 1
        PROVE  rest[i].next <= Len(schema.uses[rest[i].constant]) /\ Named(rest[i].constant, rest[i].next) = rest[i + 1].constant
    <3>1. i \in 1 .. Len(s) - 1 /\ i + 1 \in 1 .. Len(s) - 1
      BY <1>1, <1>3
    <3> QED BY <1>1, <1>3, <3>1 DEF Stacked
  <2>3. \A i, j \in 1 .. Len(rest) : rest[i].constant = rest[j].constant => i = j
    BY <1>1, <1>3 DEF Stacked
  <2> QED BY <1>3, <2>1, <2>2, <2>3 DEF Stacked
<1>7. \A i \in 1 .. Len(rest) : FrameOK(f, rest[i])
  BY <1>3, <1>5
<1>8. CASE rest = << >>
  BY <1>6, <1>7, <1>8 DEF StackOK, f
<1>9. CASE rest # << >>
  <2>1. Len(rest) \in 1 .. Len(s) - 1 /\ Len(rest) + 1 = Len(s)
    <3>1. Len(rest) \in Nat \ {0}
      BY <1>3, <1>9, EmptySeq
    <3> QED BY <1>1, <1>3, <3>1
  <2>2. /\ rest[Len(rest)] = s[Len(rest)] /\ s[Len(rest)].next <= Len(schema.uses[s[Len(rest)].constant])
        /\ Named(s[Len(rest)].constant, s[Len(rest)].next) = c
    BY <1>1, <1>3, <2>1 DEF Stacked
  <2>3. DoneOK(f) /\ c \in DOMAIN f
    BY <1>2 DEF f
  <2> HIDE DEF rest, c
  <2>4. StackOK(f, Advance(rest, f[c]))
    BY <1>6, <1>7, <1>9, <2>2, <2>3, AdvanceKeeps
  <2> QED BY <1>2, <1>9, <2>4 DEF f, rest, c
<1> QED BY <1>8, <1>9
(* A step keeps the schema, so what is so of a memo and a stack stays so.   *)
LEMMA SchemaKeeps ==
    ASSUME UNCHANGED schema
    PROVE  /\ \A d : DoneOK(d)' <=> DoneOK(d)
           /\ \A d, s : StackOK(d, s)' <=> StackOK(d, s)
<1>1. ASSUME NEW d PROVE DoneOK(d)' <=> DoneOK(d)
  BY SchemaStays DEF DoneOK
<1>2. ASSUME NEW d, NEW f PROVE FrameOK(d, f)' <=> FrameOK(d, f)
  BY SchemaStays DEF FrameOK
<1>3. ASSUME NEW s PROVE Stacked(s)' <=> Stacked(s)
  <2>1. Frames' = Frames
    BY SchemaStays DEF Frames
  <2> QED BY <2>1, SchemaStays DEF Stacked
<1>4. ASSUME NEW d, NEW s PROVE StackOK(d, s)' <=> StackOK(d, s)
  BY <1>2, <1>3 DEF StackOK
<1> QED BY <1>1, <1>4
(* Nothing is resolved at first.                                            *)
LEMMA ResolutionStarts == ResolutionInit(Schemas) => ResInv
<1> SUFFICES ASSUME ResolutionInit(Schemas) PROVE ResInv
  OBVIOUS
<1>1. schema \in Schemas /\ done = << >> /\ stack = << >> /\ verdict = None
  BY DEF ResolutionInit
<1>2. Formed
  BY <1>1, ResolutionAssumption DEF ResolutionAssumption, Formed, Constants
<1>3. DOMAIN done = {} /\ Len(stack) = 0 /\ stack \in Seq(Frames)
  BY <1>1
<1>4. DoneOK(done)
  BY <1>3 DEF DoneOK
<1>5. StackOK(done, stack)
  BY <1>3, ResolutionAssumption DEF ResolutionAssumption, StackOK, Stacked
<1>6. VerdictOK
  BY <1>1, ResolutionAssumption DEF ResolutionAssumption, VerdictOK
<1> QED BY <1>2, <1>4, <1>5, <1>6 DEF ResInv
(* An empty stack is right beside any memo.                                 *)
LEMMA EmptyStack == ASSUME NEW d PROVE StackOK(d, << >>)
<1>1. Len(<< >>) = 0 /\ << >> \in Seq(Frames)
  OBVIOUS
<1> QED BY <1>1, ResolutionAssumption DEF ResolutionAssumption, StackOK, Stacked
(* A schema is refused for a fault it has.                                  *)
LEMMA RefusalKeeps ==
    ASSUME ResInv, NEW v \in {"unknown", "cycle", "deep"}, RefuseSchema(v),
           v = "unknown" => SomeUnknown, v # "unknown" => TooDeep
    PROVE  ResInv'
<1>1. UNCHANGED schema /\ done' = done /\ stack' = << >> /\ verdict' = v
  BY DEF RefuseSchema
<1>2. Formed' /\ (TooDeep' <=> TooDeep) /\ (SomeUnknown' <=> SomeUnknown)
  BY <1>1, SchemaStays DEF ResInv
<1>3. DoneOK(done)' /\ StackOK(done, stack)'
  BY <1>1, SchemaKeeps, EmptyStack DEF ResInv
<1>4. VerdictOK'
  BY <1>1, <1>2 DEF VerdictOK
<1> QED BY <1>2, <1>3, <1>4 DEF ResInv
(* Every other step but the last keeps the memo and the stack.              *)
LEMMA WorkKeeps ==
    ASSUME ResInv, UNCHANGED <<schema, verdict>>, verdict = None, DoneOK(done'), StackOK(done', stack')
    PROVE  ResInv'
<1>1. Formed'
  BY SchemaStays DEF ResInv
<1>2. DoneOK(done)' /\ StackOK(done, stack)'
  BY SchemaKeeps
<1>3. VerdictOK'
  BY ResolutionAssumption DEF ResolutionAssumption, VerdictOK
<1> QED BY <1>1, <1>2, <1>3 DEF ResInv
(* _resolve_constants_and_arrays begins with a constant not done yet.       *)
LEMMA BeginKeeps == ResInv /\ BeginConstant => ResInv'
<1> SUFFICES ASSUME ResInv, BeginConstant PROVE ResInv'
  OBVIOUS
<1>1. verdict = None /\ stack = << >> /\ UNCHANGED <<schema, done, verdict>>
  BY DEF BeginConstant
<1>2. PICK c \in Constants \ DOMAIN done : stack' = Resolve(c)
  BY DEF BeginConstant, ConstantsOf
<1>3. Formed /\ StackOK(done, stack) /\ Len(stack) = 0 /\ Len(stack) < MaxDepth
  BY <1>1, ResolutionAssumption DEF ResInv, ResolutionAssumption
<1>4. StackOK(done, stack')
  <2>1. \A i \in 1 .. Len(stack) : stack[i].constant # c
    BY <1>3
  <2>2. StackOK(done, Append(stack, [constant |-> c, next |-> 1, deepest |-> 0]))
    BY <1>1, <1>2, <1>3, <2>1, ResolveKeeps
  <2> QED BY <1>2, <2>2 DEF Resolve
<1> QED BY <1>1, <1>4, WorkKeeps DEF ResInv
(* resolve_constant meets a name: unknown, in a circle, done, one too many  *)
(* or to be resolved first.                                                 *)
LEMMA NameKeeps == ResInv /\ ResolveName => ResInv'
<1> SUFFICES ASSUME ResInv, ResolveName PROVE ResInv'
  OBVIOUS
<1> DEFINE c == Lookup(Top.constant, schema.uses[Top.constant][Top.next])
<1>1. /\ verdict = None /\ stack # << >> /\ Top = stack[Len(stack)]
      /\ Top.next <= Len(schema.uses[Top.constant]) /\ c = Named(Top.constant, Top.next)
  BY DEF ResolveName, Named, Top
<1>2. Formed /\ DoneOK(done) /\ StackOK(done, stack) /\ Stacked(stack)
  BY DEF ResInv, StackOK
<1>3. /\ Len(stack) \in 1 .. Len(stack) /\ Top.constant \in Constants
      /\ c \in Needs(Top.constant) /\ c \in Constants \cup {None}
  <2>1. Len(stack) \in 1 .. Len(stack)
    BY <1>1, <1>2, EmptySeq DEF Stacked
  <2> QED BY <1>1, <1>2, <2>1, StackedNeeds
<1>4. /\ c = None => RefuseSchema("unknown")
      /\ c # None /\ c \in Active => RefuseSchema("cycle")
      /\ c # None /\ c \notin Active /\ c \in DOMAIN done =>
            stack' = Advance(stack, done[c]) /\ UNCHANGED <<schema, done, verdict>>
      /\ c # None /\ c \notin Active /\ c \notin DOMAIN done /\ Len(stack) >= MaxDepth => RefuseSchema("deep")
      /\ c # None /\ c \notin Active /\ c \notin DOMAIN done /\ ~(Len(stack) >= MaxDepth) =>
            stack' = Resolve(c) /\ UNCHANGED <<schema, done, verdict>>
  BY DEF ResolveName
<1> HIDE DEF c
<1>5. CASE c = None
  <2>1. SomeUnknown
    BY <1>3, <1>5 DEF SomeUnknown
  <2> QED BY <1>4, <1>5, <2>1, RefusalKeeps
<1>6. CASE c # None /\ c \in Active
  <2>1. PICK i \in 1 .. Len(stack) : c = stack[i].constant
    BY <1>2, <1>6, LenProperties DEF Active, Stacked
  <2>2. TooDeep
    BY <1>1, <1>2, <2>1, CycleIsTooDeep
  <2> QED BY <1>4, <1>6, <2>2, RefusalKeeps
<1>7. CASE c # None /\ c \notin Active /\ c \in DOMAIN done
  <2>1. StackOK(done, Advance(stack, done[c]))
    BY <1>1, <1>2, <1>7, AdvanceKeeps DEF StackOK
  <2> QED BY <1>1, <1>2, <1>4, <1>7, <2>1, WorkKeeps
<1>8. CASE c # None /\ c \notin Active /\ c \notin DOMAIN done /\ Len(stack) >= MaxDepth
  <2>1. TooDeep
    BY <1>1, <1>2, <1>8, FullIsTooDeep
  <2> QED BY <1>4, <1>8, <2>1, RefusalKeeps
<1>9. CASE c # None /\ c \notin Active /\ c \notin DOMAIN done /\ ~(Len(stack) >= MaxDepth)
  <2>1. \A i \in 1 .. Len(stack) : stack[i].constant # c
    BY <1>2, <1>9, LenProperties DEF Active, Stacked
  <2>2. c \in Constants \ DOMAIN done /\ Len(stack) < MaxDepth
    BY <1>3, <1>9, ResolutionAssumption DEF ResolutionAssumption
  <2>3. StackOK(done, Resolve(c))
    BY <1>1, <1>2, <2>1, <2>2, ResolveKeeps DEF Resolve
  <2> QED BY <1>1, <1>2, <1>4, <1>9, <2>3, WorkKeeps
<1> QED BY <1>3, <1>5, <1>6, <1>7, <1>8, <1>9
(* resolve_constant has met all names of an expression.                     *)
LEMMA FinishKeeps == ResInv /\ FinishConstant => ResInv'
<1> SUFFICES ASSUME ResInv, FinishConstant PROVE ResInv'
  OBVIOUS
<1>1. /\ verdict = None /\ stack # << >> /\ Top = stack[Len(stack)]
      /\ Top.next > Len(schema.uses[Top.constant])
  BY DEF FinishConstant, Top
<1>2. Formed /\ DoneOK(done) /\ StackOK(done, stack)
  BY DEF ResInv
<1>3. /\ Top.constant \in Constants \ DOMAIN done /\ Top.deepest \in 0 .. MaxDepth
      /\ \A e \in Needs(Top.constant) : e \in DOMAIN done /\ done[e] <= Top.deepest
      /\ Chained(Top.constant, Top.deepest + 1)
  BY <1>1, <1>2, TopIsFinished
<1>4. CASE Top.deepest + 1 > MaxDepth
  <2>1. RefuseSchema("deep")
    BY <1>4 DEF FinishConstant
  <2>2. Top.deepest + 1 = MaxDepth + 1
    BY <1>3, <1>4, ResolutionAssumption DEF ResolutionAssumption
  <2>3. TooDeep
    BY <1>3, <2>2, ChainsTooDeep
  <2> QED BY <2>1, <2>3, RefusalKeeps
<1>5. CASE ~(Top.deepest + 1 > MaxDepth)
  <2>1. /\ done' = Finished(done, Top.constant, Top.deepest + 1)
        /\ stack' = IF Initial(stack) = << >> THEN Initial(stack) ELSE Advance(Initial(stack), Top.deepest + 1)
        /\ UNCHANGED <<schema, verdict>>
    BY <1>5 DEF FinishConstant, Finished
  <2>2. Top.deepest + 1 <= MaxDepth
    BY <1>3, <1>5, ResolutionAssumption DEF ResolutionAssumption
  <2>3. DoneOK(done')
    BY <1>2, <1>3, <2>1, <2>2, FinishKeepsDone
  <2>4. StackOK(done', stack')
    BY <1>1, <1>2, <2>1, <2>3, FinishKeepsStack
  <2> QED BY <1>1, <2>1, <2>3, <2>4, WorkKeeps
<1> QED BY <1>4, <1>5
(* Every constant is done.                                                  *)
LEMMA AllResolvedKeeps == ResInv /\ AllResolved => ResInv'
<1> SUFFICES ASSUME ResInv, AllResolved PROVE ResInv'
  OBVIOUS
<1>1. DOMAIN done = Constants /\ verdict' = "resolved" /\ UNCHANGED <<schema, done, stack>>
  BY DEF AllResolved
<1>2. Formed' /\ DoneOK(done)' /\ StackOK(done, stack)' /\ Constants' = Constants
  BY <1>1, SchemaStays, SchemaKeeps DEF ResInv
<1>3. VerdictOK'
  BY <1>1, <1>2 DEF VerdictOK
<1> QED BY <1>2, <1>3 DEF ResInv
(* Every step keeps the invariant.                                          *)
LEMMA ResolutionKeeps == ResInv /\ [ResolutionNext]_resVars => ResInv'
<1> SUFFICES ASSUME ResInv, [ResolutionNext]_resVars PROVE ResInv'
  OBVIOUS
<1>1. CASE UNCHANGED resVars
  <2>1. UNCHANGED <<schema, done, stack, verdict>>
    BY <1>1 DEF resVars
  <2>2. Formed' /\ DoneOK(done)' /\ StackOK(done, stack)' /\ Constants' = Constants
        /\ (TooDeep' <=> TooDeep) /\ (SomeUnknown' <=> SomeUnknown)
    BY <2>1, SchemaStays, SchemaKeeps DEF ResInv
  <2> QED BY <2>1, <2>2 DEF ResInv, VerdictOK
<1> QED BY <1>1, BeginKeeps, NameKeeps, FinishKeeps, AllResolvedKeeps DEF ResolutionNext
(* The invariant is what the verdict and the memo promise.                  *)
LEMMA ResolvedExactly == ResInv => ResolutionExact
<1> SUFFICES ASSUME ResInv PROVE ResolutionExact
  OBVIOUS
<1>1. NeededFirst
  BY DEF ResInv, DoneOK, NeededFirst
<1>2. ASSUME verdict = "resolved" PROVE ~SomeUnknown /\ ~TooDeep
  <2>1. DOMAIN done = Constants /\ None \notin Constants /\ DoneOK(done)
    BY <1>2 DEF ResInv, VerdictOK, Formed
  <2>2. ~SomeUnknown
    BY <2>1 DEF DoneOK, SomeUnknown
  <2>3. \A c \in Constants : MaxDepth + 1 \in Nat /\ MaxDepth + 1 > done[c]
    BY <2>1, ResolutionAssumption DEF DoneOK, ResolutionAssumption
  <2>4. ~TooDeep
    BY <2>1, <2>3, ChainsTooDeep DEF DoneOK
  <2> QED BY <2>2, <2>4
<1>3. VerdictExact
  BY <1>2 DEF ResInv, VerdictOK, VerdictExact
<1> QED BY <1>1, <1>3 DEF ResolutionExact
ResolutionSpec == ResolutionInit(Schemas) /\ [][ResolutionNext]_resVars
(* The constants of any schema that protoc hands over are resolved if and   *)
(* only if every name they use means a constant and no chain of them is     *)
(* longer than allowed; a refusal names a fault the schema has; and what a  *)
(* constant needs is resolved before it (resolve_constant,                  *)
(* resolve_package_constant and the lookups of model.py).                   *)
THEOREM ResolutionIsExact == ResolutionSpec => []ResolutionExact
<1> QED BY ResolutionStarts, ResolutionKeeps, ResolvedExactly, PTL DEF ResolutionSpec
============================================================================
