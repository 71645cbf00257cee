--------------------------- MODULE DownloadSafety ---------------------------
(* The types of DownloadArchive and what the caller and the thread promise  *)
(* each other.                                                              *)
EXTENDS DownloadArchive

Kinds == {"chunk", "error", "done"}

(* Both threads are at a step of the code, and the queue holds events.      *)
DownloadTypeOK ==
    /\ reader \in {"idle", "check", "get", "cancel", "close", "unlink", "join"} \cup ReaderEnd
    /\ worker \in {"idle", "open", "register", "length", "loop", "read", "unregister", "put",
                   "offer", "abandon", "ended"}
    /\ events \in Seq([kind : Kinds, chunk : 0 .. ServerChunks]) /\ Len(events) <= QueueSize
    /\ offered \in [kind : OrNone(Kinds), chunk : 0 .. ServerChunks]
    /\ {cancelled, active, archive, late} \subseteq BOOLEAN
    /\ response \in {None, "open", "closed"}
    /\ received \in 0 .. ServerChunks /\ written \in Seq(1 .. ServerChunks) /\ after \in Nat

(* A returned digest is that of everything the server sent, in its order:   *)
(* neither a cancelled worker's "done" nor a lost chunk passes for the end. *)
DigestCovers ==
    reader \in {"join", "returned"} =>
        /\ written = [i \in 1 .. received |-> i]
        /\ ~cancelled /\ events = <<>>

(* The archive never holds more than the limit, though the limit is kept by *)
(* the thread and the file by the caller.                                   *)
ArchiveBounded == Len(written) <= MaxChunks

(* After the deadline the caller takes the event it was waiting for and no  *)
(* other, however fast the server sends.                                    *)
DeadlineHolds == after <= 1

(* A download that raised leaves no archive, and one that returned has no   *)
(* thread left and no open response.                                        *)
EndIsClean ==
    /\ reader = "raised" => ~archive /\ cancelled
    /\ reader = "returned" => archive /\ worker = "ended" /\ response # "open"

(* The thread never leaves an open response behind.                         *)
ResponseClosed == worker \in {"ended", "abandon", "unregister"} => response # "open"

(* The caller ends, whatever the server does.                               *)
DownloadEnds == reader = "check" ~> reader \in ReaderEnd

(* Once it has its response the thread ends too, though the queue it puts   *)
(* to may be full and nobody takes from it any more.                        *)
WorkerEnds == cancelled /\ worker # "open" ~> worker = "ended"

(* The caller and its thread agree on the digest, the limit, the deadline   *)
(* and on who closes the response and removes the archive.                  *)
DownloadSafe == DigestCovers /\ ArchiveBounded /\ DeadlineHolds /\ EndIsClean /\ ResponseClosed
============================================================================
