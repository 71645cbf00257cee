-------------------------- MODULE DownloadArchive --------------------------
(***************************************************************************)
(* download_archive of install_protoc.py: a worker thread reads a response *)
(* and hands its chunks through a queue of two to the caller, who writes   *)
(* them, digests them and gives up at a deadline of the wall clock.        *)
(*                                                                         *)
(* A chunk is its number.  The server sends any number of chunks up to     *)
(* ServerChunks, announces a length or does not, errs, or says nothing     *)
(* until the timeout of the socket ends the wait with an error.            *)
(***************************************************************************)
EXTENDS Absent, Integers, Sequences

CONSTANTS
    QueueSize,      \* maxsize of the queue
    MaxChunks,      \* max_bytes, in chunks
    ServerChunks    \* the most a server sends
ASSUME DownloadAssumption ==
    /\ QueueSize \in Nat \ {0} /\ MaxChunks \in Nat /\ ServerChunks \in Nat
    /\ None \notin {"open", "closed"}

VARIABLES
    reader,      \* where the caller is
    worker,      \* where the thread is
    events,      \* the queue
    offered,     \* the event the worker is publishing
    cancelled,   \* the event that tells the worker to stop
    active,      \* active_response[0]: the response the caller may close
    response,    \* the response itself: absent, open, closed
    received,    \* chunks the worker has read
    written,     \* chunks in the archive
    archive,     \* whether the archive file exists
    late,        \* whether the deadline has passed
    after        \* history: events taken after the deadline

dlVars == <<reader, worker, events, offered, cancelled, active, response, received, written,
            archive, late, after>>

ReaderEnd == {"returned", "raised"}
Event(kind, n) == [kind |-> kind, chunk |-> n]

---------------------------------------------------------------------------
(* The thread *)

WorkerAt(from, to) == worker = from /\ worker' = to
(* urlopen answers or errs, however late.                                   *)
UrlOpen ==
    /\ \/ WorkerAt("open", "register") /\ response' = "open" /\ UNCHANGED offered
       \/ /\ WorkerAt("open", "unregister") /\ offered' = Event("error", 0)
          /\ UNCHANGED response
    /\ UNCHANGED <<reader, events, cancelled, active, received, written, archive, late, after>>
Register ==
    /\ WorkerAt("register", "length") /\ active' = TRUE
    /\ UNCHANGED <<reader, events, offered, cancelled, response, received, written, archive, late, after>>
(* The with statement closes the response on every way out.                 *)
LeaveResponse(event) ==
    /\ worker' = "unregister" /\ offered' = event /\ response' = "closed"
(* A Content-Length may already say that it is too much.                    *)
CheckLength ==
    /\ worker = "length"
    /\ \/ worker' = "loop" /\ UNCHANGED <<offered, response>>
       \/ LeaveResponse(Event("error", 0))
    /\ UNCHANGED <<reader, events, cancelled, active, received, written, archive, late, after>>
Loop ==
    /\ worker = "loop"
    /\ IF cancelled THEN LeaveResponse(Event("done", 0))
       ELSE worker' = "read" /\ UNCHANGED <<offered, response>>
    /\ UNCHANGED <<reader, events, cancelled, active, received, written, archive, late, after>>
TooMuch(n) == n > MaxChunks
(* A read gives a chunk, the end, or an error; a closed response an error.  *)
ReadChunk ==
    /\ worker = "read"
    /\ \/ /\ response = "open" /\ received < ServerChunks /\ received' = received + 1
          /\ IF TooMuch(received') THEN LeaveResponse(Event("error", 0))
             ELSE worker' = "put" /\ offered' = Event("chunk", received') /\ UNCHANGED response
       \/ response = "open" /\ LeaveResponse(Event("done", 0)) /\ UNCHANGED received
       \/ LeaveResponse(Event("error", 0)) /\ UNCHANGED received
    /\ UNCHANGED <<reader, events, cancelled, active, written, archive, late, after>>
Unregister ==
    /\ WorkerAt("unregister", "put") /\ active' = FALSE
    /\ UNCHANGED <<reader, events, offered, cancelled, response, received, written, archive, late, after>>
(* publish: look whether it was cancelled, then wait a little for a place.  *)
Chunking == offered.kind = "chunk"
Publish ==
    /\ worker = "put"
    /\ IF cancelled
       THEN /\ IF Chunking THEN response' = "closed" ELSE UNCHANGED response
            /\ worker' = IF Chunking THEN "abandon" ELSE "ended"
       ELSE worker' = "offer" /\ UNCHANGED response
    /\ UNCHANGED <<reader, events, offered, cancelled, active, received, written, archive, late, after>>
(* Faulty: the queue has no limit.                                          *)
OfferUnbounded ==
    /\ worker = "offer" /\ events' = Append(events, offered)
    /\ worker' = IF Chunking THEN "loop" ELSE "ended"
    /\ UNCHANGED <<reader, offered, cancelled, active, response, received, written, archive, late, after>>
Offer ==
    /\ worker = "offer"
    /\ IF Len(events) < QueueSize
       THEN /\ events' = Append(events, offered)
            /\ worker' = IF Chunking THEN "loop" ELSE "ended"
       ELSE worker' = "put" /\ UNCHANGED events
    /\ UNCHANGED <<reader, offered, cancelled, active, response, received, written, archive, late, after>>
(* The return of a cancelled worker still passes its finally clause.        *)
Abandon ==
    /\ WorkerAt("abandon", "ended") /\ active' = FALSE
    /\ UNCHANGED <<reader, events, offered, cancelled, response, received, written, archive, late, after>>

WorkerRuns ==
    Register \/ CheckLength \/ Loop \/ ReadChunk \/ Unregister \/ Publish \/ Offer \/ Abandon

---------------------------------------------------------------------------
(* The caller *)

CheckDeadline ==
    /\ reader = "check"
    /\ reader' = IF late THEN "cancel" ELSE "get"
    /\ UNCHANGED <<worker, events, offered, cancelled, active, response, received, written, archive,
                   late, after>>
Get ==
    /\ reader = "get" /\ events # <<>>
    /\ events' = Tail(events) /\ after' = IF late THEN after + 1 ELSE after
    /\ CASE Head(events).kind = "chunk" ->
              written' = Append(written, Head(events).chunk) /\ reader' = "check"
         [] Head(events).kind = "error" -> reader' = "cancel" /\ UNCHANGED written
         [] Head(events).kind = "done" -> reader' = "join" /\ UNCHANGED written
    /\ UNCHANGED <<worker, offered, cancelled, active, response, received, archive, late>>
(* Faulty: the caller waits for an event as long as the worker lives.       *)
GetUntimed ==
    /\ reader = "get" /\ events = <<>> /\ worker = "ended"
    /\ reader' = "cancel"
    /\ UNCHANGED <<worker, events, offered, cancelled, active, response, received, written, archive,
                   late, after>>
GetTimesOut ==
    /\ reader = "get" /\ events = <<>> /\ late
    /\ reader' = "cancel"
    /\ UNCHANGED <<worker, events, offered, cancelled, active, response, received, written, archive,
                   late, after>>
CancelDownload ==
    /\ reader = "cancel" /\ cancelled' = TRUE /\ reader' = "close"
    /\ UNCHANGED <<worker, events, offered, active, response, received, written, archive, late, after>>
(* Faulty: the partial archive is left.                                     *)
CloseResponseOnly ==
    /\ reader = "close" /\ reader' = "raised"
    /\ response' = IF active THEN "closed" ELSE response
    /\ UNCHANGED <<worker, events, offered, cancelled, active, received, written, archive, late, after>>
CloseResponse ==
    /\ reader = "close" /\ reader' = "unlink"
    /\ response' = IF active THEN "closed" ELSE response
    /\ UNCHANGED <<worker, events, offered, cancelled, active, received, written, archive, late, after>>
UnlinkArchive ==
    /\ reader = "unlink" /\ archive' = FALSE /\ reader' = "raised"
    /\ UNCHANGED <<worker, events, offered, cancelled, active, response, received, written, late, after>>
JoinWorker ==
    /\ reader = "join" /\ worker = "ended" /\ reader' = "returned"
    /\ UNCHANGED <<worker, events, offered, cancelled, active, response, received, written, archive,
                   late, after>>
ReaderStep ==
    CheckDeadline \/ Get \/ GetTimesOut \/ CancelDownload \/ CloseResponse \/ UnlinkArchive \/ JoinWorker

DeadlinePasses ==
    /\ reader # "idle" /\ ~late /\ late' = TRUE
    /\ UNCHANGED <<reader, worker, events, offered, cancelled, active, response, received, written,
                   archive, after>>

StartDownload ==
    /\ reader = "idle" /\ reader' = "check" /\ WorkerAt("idle", "open") /\ archive' = TRUE
    /\ UNCHANGED <<events, offered, cancelled, active, response, received, written, late, after>>
DownloadInit ==
    /\ reader = "idle" /\ worker = "idle" /\ events = <<>> /\ offered = Event(None, 0)
    /\ cancelled = FALSE /\ active = FALSE /\ response = None /\ received = 0
    /\ written = <<>> /\ archive = FALSE /\ late = FALSE /\ after = 0
DownloadNext == StartDownload \/ UrlOpen \/ WorkerRuns \/ ReaderStep \/ DeadlinePasses
(* The timeout of the socket bounds every wait but that for a name to be    *)
(* resolved, so urlopen may never answer.                                   *)
DownloadFairness ==
    WF_dlVars(WorkerRuns) /\ WF_dlVars(ReaderStep) /\ WF_dlVars(DeadlinePasses)
DownloadSpec == DownloadInit /\ [][DownloadNext]_dlVars
============================================================================
