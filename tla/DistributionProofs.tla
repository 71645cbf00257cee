------------------------- MODULE DistributionProofs -------------------------
(***************************************************************************)
(* Proofs about what is distributed, for every size of an instance: the    *)
(* download of protoc, with its thread and its queue, the installation of  *)
(* protoc, and the publication of a release of protocyte itself.           *)
(*                                                                         *)
(* A download is safe because what is written, queued and offered is at    *)
(* every moment what was received, in its order.  An installation is kept  *)
(* because wherever the swap may have put what it replaces, a record on    *)
(* disk says so, and after one failure at most the run knows where that is. *)
(* A release is verified because a publisher that saw its draft alone stays *)
(* alone with it: another's draft that appears later finds it there.        *)
(***************************************************************************)
EXTENDS DownloadSafety, InstallSafety, PublishSafety, SequenceTheorems, TLAPS

---------------------------------------------------------------------------
(* The download and its thread *)

(* What the caller has written, what waits in the queue and what the thread *)
(* is offering are together what was received, in its order; only the last  *)
(* event of the queue is no chunk, and the thread has ended behind it.      *)
Offering == worker \in {"put", "offer"}
Ending == worker \in {"unregister", "put", "offer"} /\ ~Chunking
Ordered ==
    /\ written = [i \in 1 .. Len(written) |-> i]
    /\ \A i \in 1 .. Len(events) :
          \/ events[i].kind = "chunk" /\ events[i].chunk = Len(written) + i
          \/ events[i].kind # "chunk" /\ i = Len(events) /\ worker = "ended"
Bounded ==
    /\ Len(written) <= MaxChunks
    /\ \A i \in 1 .. Len(events) : events[i].kind = "chunk" => events[i].chunk <= MaxChunks
Tallied ==
    /\ worker \in {"idle", "open", "register", "length", "loop", "read"} =>
          received = Len(written) + Len(events)
    /\ Offering /\ Chunking =>
          /\ offered.chunk = received /\ received <= MaxChunks
          /\ received = Len(written) + Len(events) + 1
    /\ Ending /\ offered.kind = "done" /\ ~cancelled => received = Len(written) + Len(events)
    /\ \A i \in 1 .. Len(events) : events[i].kind = "done" /\ ~cancelled =>
          received = Len(written) + Len(events) - 1
(* A thread on its way out has closed its response and offers no chunk.     *)
Closing ==
    /\ worker \in {"idle", "open"} => response = None /\ ~active
    /\ worker = "unregister" => ~Chunking
    /\ worker = "unregister" \/ Offering => offered.kind \in Kinds
    /\ worker \in {"ended", "abandon"} \/ Ending => response # "open"
(* Where the caller may be, and what is so there.                           *)
Placed ==
    /\ reader \in {"idle", "check", "get", "join", "returned"} => ~cancelled
    /\ reader \in {"close", "unlink", "raised"} => cancelled
    /\ reader \in {"join", "returned"} =>
          events = <<>> /\ worker = "ended" /\ received = Len(written)
    /\ reader = "raised" => ~archive
    /\ reader \notin {"idle", "raised"} => archive
    /\ reader = "idle" <=> worker = "idle"
    /\ reader = "idle" => events = <<>> /\ written = <<>>
Timely ==
    /\ after <= 1 /\ (~late => after = 0)
    /\ reader \in {"get", "idle"} => after = 0
DownloadInv == DownloadTypeOK /\ Ordered /\ Bounded /\ Tallied /\ Closing /\ Placed /\ Timely

(* Appending leaves what was there in its place.                            *)
LEMMA Appended ==
    ASSUME NEW S, NEW s \in Seq(S), NEW e \in S
    PROVE  /\ Append(s, e) \in Seq(S) /\ Len(Append(s, e)) = Len(s) + 1 /\ Len(s) \in Nat
           /\ \A i \in 1 .. Len(s) : Append(s, e)[i] = s[i]
           /\ Append(s, e)[Len(s) + 1] = e
BY AppendProperties, LenProperties

(* Taking the first element moves every other one forward.                  *)
LEMMA Taken ==
    ASSUME NEW S, NEW s \in Seq(S), s # <<>>
    PROVE  /\ Tail(s) \in Seq(S) /\ Len(Tail(s)) = Len(s) - 1 /\ Len(s) \in Nat \ {0}
           /\ \A i \in 1 .. Len(Tail(s)) : Tail(s)[i] = s[i + 1]
           /\ Head(s) = s[1] /\ Head(s) \in S
<1>1. /\ Tail(s) \in Seq(S) /\ Len(Tail(s)) = Len(s) - 1
      /\ \A i \in 1 .. Len(Tail(s)) : Tail(s)[i] = s[i + 1]
      /\ Head(s) = s[1] /\ Head(s) \in S
  BY HeadTailProperties
<1>2. Len(s) \in Nat \ {0}
  BY EmptySeq, LenProperties
<1> QED BY <1>1, <1>2

(* The caller of _download_archive and its thread agree on the digest, the  *)
(* limit, the deadline and on who closes the response and removes the       *)
(* archive, whatever the server sends, for every size of the queue and      *)
(* every limit.                                                             *)
THEOREM DownloadIsSafe == DownloadSpec => [](DownloadTypeOK /\ DownloadSafe)
<1>1. DownloadInit => DownloadInv
  <2> SUFFICES ASSUME DownloadInit PROVE DownloadInv
    OBVIOUS
  <2>1. events = <<>> /\ written = <<>> /\ Len(events) = 0 /\ Len(written) = 0
    BY DEF DownloadInit
  <2>2. DownloadTypeOK
    <3>1. events \in Seq([kind : Kinds, chunk : 0 .. ServerChunks]) /\ written \in Seq(1 .. ServerChunks)
      BY <2>1, EmptySeq
    <3>2. 0 \in 0 .. ServerChunks /\ Len(events) <= QueueSize
      BY <2>1, DownloadAssumption
    <3> QED BY <3>1, <3>2 DEF DownloadInit, DownloadTypeOK, Event, OrNone
  <2>3. Ordered
    BY <2>1 DEF Ordered
  <2>4. Bounded /\ Tallied /\ Closing /\ Placed /\ Timely
    BY <2>1, DownloadAssumption DEF DownloadInit, Bounded, Tallied, Closing, Placed, Timely, Offering, Ending
  <2> QED BY <2>2, <2>3, <2>4 DEF DownloadInv
<1>2. DownloadInv /\ [DownloadNext]_dlVars => DownloadInv'
  <2> SUFFICES ASSUME DownloadInv, [DownloadNext]_dlVars PROVE DownloadInv'
    OBVIOUS
  <2> USE DownloadAssumption
  <2>1. CASE StartDownload
    BY <2>1
       DEF StartDownload, DownloadInv, DownloadTypeOK, Ordered, Bounded, Tallied, Closing, Placed, Timely, Event, OrNone, Kinds, Offering, Ending, Chunking, ReaderEnd, WorkerAt, LeaveResponse, TooMuch
  <2>2. CASE UrlOpen
    <3>0. /\ worker' \in {"register", "unregister"} /\ response' \in {response, "open"}
          /\ 0 \in 0 .. ServerChunks /\ Event("error", 0) \in [kind : Kinds, chunk : 0 .. ServerChunks]
      BY <2>2 DEF UrlOpen, WorkerAt, Event, Kinds
    <3>1. DownloadTypeOK'
      BY <2>2, <3>0 DEF UrlOpen, DownloadInv, DownloadTypeOK, Ordered, Bounded, Tallied, Closing, Placed, Timely, Event, OrNone, Kinds, Offering, Ending, Chunking, ReaderEnd, WorkerAt, LeaveResponse, TooMuch
    <3>2. Ordered' /\ Bounded'
      BY <2>2 DEF UrlOpen, DownloadInv, DownloadTypeOK, Ordered, Bounded, Tallied, Closing, Placed, Timely, Event, OrNone, Kinds, Offering, Ending, Chunking, ReaderEnd, WorkerAt, LeaveResponse, TooMuch
    <3>3. Tallied'
      BY <2>2 DEF UrlOpen, DownloadInv, DownloadTypeOK, Ordered, Bounded, Tallied, Closing, Placed, Timely, Event, OrNone, Kinds, Offering, Ending, Chunking, ReaderEnd, WorkerAt, LeaveResponse, TooMuch
    <3>4. Timely'
      BY <2>2 DEF UrlOpen, DownloadInv, DownloadTypeOK, Ordered, Bounded, Tallied, Closing, Placed, Timely, Event, OrNone, Kinds, Offering, Ending, Chunking, ReaderEnd, WorkerAt, LeaveResponse, TooMuch
    <3>5. Placed'
      BY <2>2 DEF UrlOpen, DownloadInv, Placed, DownloadTypeOK, ReaderEnd, WorkerAt, LeaveResponse
    <3>6. Closing'
      BY <2>2, DownloadAssumption DEF UrlOpen, DownloadInv, Closing, Offering, Ending, Chunking, Kinds, WorkerAt, LeaveResponse, Event, Placed
    <3> QED BY <3>1, <3>2, <3>3, <3>4, <3>5, <3>6 DEF DownloadInv
  <2>3. CASE Register
    BY <2>3
       DEF Register, DownloadInv, DownloadTypeOK, Ordered, Bounded, Tallied, Closing, Placed, Timely, Event, OrNone, Kinds, Offering, Ending, Chunking, ReaderEnd, WorkerAt, LeaveResponse, TooMuch
  <2>4. CASE CheckLength
    <3>1. DownloadTypeOK'
      BY <2>4 DEF CheckLength, DownloadInv, DownloadTypeOK, Ordered, Bounded, Tallied, Closing, Placed, Timely, Event, OrNone, Kinds, Offering, Ending, Chunking, ReaderEnd, WorkerAt, LeaveResponse, TooMuch
    <3>2. Ordered' /\ Bounded'
      BY <2>4 DEF CheckLength, DownloadInv, DownloadTypeOK, Ordered, Bounded, Tallied, Closing, Placed, Timely, Event, OrNone, Kinds, Offering, Ending, Chunking, ReaderEnd, WorkerAt, LeaveResponse, TooMuch
    <3>3. Tallied'
      BY <2>4 DEF CheckLength, DownloadInv, DownloadTypeOK, Ordered, Bounded, Tallied, Closing, Placed, Timely, Event, OrNone, Kinds, Offering, Ending, Chunking, ReaderEnd, WorkerAt, LeaveResponse, TooMuch
    <3>4. Timely'
      BY <2>4 DEF CheckLength, DownloadInv, DownloadTypeOK, Ordered, Bounded, Tallied, Closing, Placed, Timely, Event, OrNone, Kinds, Offering, Ending, Chunking, ReaderEnd, WorkerAt, LeaveResponse, TooMuch
    <3>5. Placed'
      BY <2>4 DEF CheckLength, DownloadInv, Placed, DownloadTypeOK, ReaderEnd, WorkerAt, LeaveResponse
    <3>6. Closing'
      BY <2>4, DownloadAssumption DEF CheckLength, DownloadInv, Closing, Offering, Ending, Chunking, Kinds, WorkerAt, LeaveResponse, Event, Placed
    <3> QED BY <3>1, <3>2, <3>3, <3>4, <3>5, <3>6 DEF DownloadInv
  <2>5. CASE Loop
    <3>1. DownloadTypeOK'
      BY <2>5 DEF Loop, DownloadInv, DownloadTypeOK, Ordered, Bounded, Tallied, Closing, Placed, Timely, Event, OrNone, Kinds, Offering, Ending, Chunking, ReaderEnd, WorkerAt, LeaveResponse, TooMuch
    <3>2. Ordered' /\ Bounded'
      BY <2>5 DEF Loop, DownloadInv, DownloadTypeOK, Ordered, Bounded, Tallied, Closing, Placed, Timely, Event, OrNone, Kinds, Offering, Ending, Chunking, ReaderEnd, WorkerAt, LeaveResponse, TooMuch
    <3>3. Tallied'
      BY <2>5 DEF Loop, DownloadInv, DownloadTypeOK, Ordered, Bounded, Tallied, Closing, Placed, Timely, Event, OrNone, Kinds, Offering, Ending, Chunking, ReaderEnd, WorkerAt, LeaveResponse, TooMuch
    <3>4. Timely'
      BY <2>5 DEF Loop, DownloadInv, DownloadTypeOK, Ordered, Bounded, Tallied, Closing, Placed, Timely, Event, OrNone, Kinds, Offering, Ending, Chunking, ReaderEnd, WorkerAt, LeaveResponse, TooMuch
    <3>5. Placed'
      BY <2>5 DEF Loop, DownloadInv, Placed, DownloadTypeOK, ReaderEnd, WorkerAt, LeaveResponse
    <3>6. Closing'
      BY <2>5, DownloadAssumption DEF Loop, DownloadInv, Closing, Offering, Ending, Chunking, Kinds, WorkerAt, LeaveResponse, Event, Placed
    <3> QED BY <3>1, <3>2, <3>3, <3>4, <3>5, <3>6 DEF DownloadInv
  <2>6. CASE ReadChunk
    BY <2>6
       DEF ReadChunk, DownloadInv, DownloadTypeOK, Ordered, Bounded, Tallied, Closing, Placed, Timely, Event, OrNone, Kinds, Offering, Ending, Chunking, ReaderEnd, WorkerAt, LeaveResponse, TooMuch
  <2>7. CASE Unregister
    BY <2>7
       DEF Unregister, DownloadInv, DownloadTypeOK, Ordered, Bounded, Tallied, Closing, Placed, Timely, Event, OrNone, Kinds, Offering, Ending, Chunking, ReaderEnd, WorkerAt, LeaveResponse, TooMuch
  <2>8. CASE Publish
    BY <2>8
       DEF Publish, DownloadInv, DownloadTypeOK, Ordered, Bounded, Tallied, Closing, Placed, Timely, Event, OrNone, Kinds, Offering, Ending, Chunking, ReaderEnd, WorkerAt, LeaveResponse, TooMuch
  <2>9. CASE Abandon
    BY <2>9
       DEF Abandon, DownloadInv, DownloadTypeOK, Ordered, Bounded, Tallied, Closing, Placed, Timely, Event, OrNone, Kinds, Offering, Ending, Chunking, ReaderEnd, WorkerAt, LeaveResponse, TooMuch
  <2>10. CASE CheckDeadline
    BY <2>10
       DEF CheckDeadline, DownloadInv, DownloadTypeOK, Ordered, Bounded, Tallied, Closing, Placed, Timely, Event, OrNone, Kinds, Offering, Ending, Chunking, ReaderEnd, WorkerAt, LeaveResponse, TooMuch
  <2>11. CASE GetTimesOut
    BY <2>11
       DEF GetTimesOut, DownloadInv, DownloadTypeOK, Ordered, Bounded, Tallied, Closing, Placed, Timely, Event, OrNone, Kinds, Offering, Ending, Chunking, ReaderEnd, WorkerAt, LeaveResponse, TooMuch
  <2>12. CASE CancelDownload
    BY <2>12
       DEF CancelDownload, DownloadInv, DownloadTypeOK, Ordered, Bounded, Tallied, Closing, Placed, Timely, Event, OrNone, Kinds, Offering, Ending, Chunking, ReaderEnd, WorkerAt, LeaveResponse, TooMuch
  <2>13. CASE CloseResponse
    <3>1. DownloadTypeOK'
      BY <2>13, DownloadAssumption DEF CloseResponse, DownloadInv, DownloadTypeOK
    <3>2. Ordered' /\ Bounded' /\ Timely'
      BY <2>13, DownloadAssumption DEF CloseResponse, DownloadInv, Ordered, Bounded, Timely, DownloadTypeOK
    <3>3. Tallied'
      BY <2>13, DownloadAssumption DEF CloseResponse, DownloadInv, Tallied, Offering, Ending, Chunking, DownloadTypeOK
    <3>4. Closing'
      BY <2>13, DownloadAssumption DEF CloseResponse, DownloadInv, Closing, Offering, Ending, Chunking, DownloadTypeOK
    <3>5. Placed'
      BY <2>13, DownloadAssumption DEF CloseResponse, DownloadInv, Placed, DownloadTypeOK
    <3> QED BY <3>1, <3>2, <3>3, <3>4, <3>5 DEF DownloadInv
  <2>14. CASE UnlinkArchive
    BY <2>14
       DEF UnlinkArchive, DownloadInv, DownloadTypeOK, Ordered, Bounded, Tallied, Closing, Placed, Timely, Event, OrNone, Kinds, Offering, Ending, Chunking, ReaderEnd, WorkerAt, LeaveResponse, TooMuch
  <2>15. CASE JoinWorker
    BY <2>15
       DEF JoinWorker, DownloadInv, DownloadTypeOK, Ordered, Bounded, Tallied, Closing, Placed, Timely, Event, OrNone, Kinds, Offering, Ending, Chunking, ReaderEnd, WorkerAt, LeaveResponse, TooMuch
  <2>16. CASE DeadlinePasses
    <3>1. DownloadTypeOK'
      BY <2>16 DEF DeadlinePasses, DownloadInv, DownloadTypeOK, Ordered, Bounded, Tallied, Closing, Placed, Timely, Event, OrNone, Kinds, Offering, Ending, Chunking, ReaderEnd, WorkerAt, LeaveResponse, TooMuch
    <3>2. Ordered' /\ Bounded'
      BY <2>16 DEF DeadlinePasses, DownloadInv, DownloadTypeOK, Ordered, Bounded, Tallied, Closing, Placed, Timely, Event, OrNone, Kinds, Offering, Ending, Chunking, ReaderEnd, WorkerAt, LeaveResponse, TooMuch
    <3>3. Tallied'
      BY <2>16 DEF DeadlinePasses, DownloadInv, DownloadTypeOK, Ordered, Bounded, Tallied, Closing, Placed, Timely, Event, OrNone, Kinds, Offering, Ending, Chunking, ReaderEnd, WorkerAt, LeaveResponse, TooMuch
    <3>4. Timely'
      BY <2>16 DEF DeadlinePasses, DownloadInv, DownloadTypeOK, Ordered, Bounded, Tallied, Closing, Placed, Timely, Event, OrNone, Kinds, Offering, Ending, Chunking, ReaderEnd, WorkerAt, LeaveResponse, TooMuch
    <3>5. Placed'
      BY <2>16 DEF DeadlinePasses, DownloadInv, Placed, DownloadTypeOK, ReaderEnd, WorkerAt, LeaveResponse
    <3>6. Closing'
      BY <2>16, DownloadAssumption DEF DeadlinePasses, DownloadInv, Closing, Offering, Ending, Chunking, Kinds, WorkerAt, LeaveResponse, Event, Placed
    <3> QED BY <3>1, <3>2, <3>3, <3>4, <3>5, <3>6 DEF DownloadInv
  <2>17. CASE Offer
    <3> DEFINE R == [kind : Kinds, chunk : 0 .. ServerChunks]
    <3>1. CASE Len(events) < QueueSize
      <4>1. offered \in R /\ events \in Seq(R) /\ written \in Seq(1 .. ServerChunks)
        BY <2>17 DEF Offer, DownloadInv, DownloadTypeOK, Closing, Offering, OrNone
      <4>2. /\ events' = Append(events, offered) /\ worker' = IF Chunking THEN "loop" ELSE "ended"
            /\ worker = "offer"
            /\ UNCHANGED <<reader, offered, cancelled, active, response, received, written, archive, late, after>>
        BY <2>17, <3>1 DEF Offer
      <4>3. /\ events' \in Seq(R) /\ Len(events') = Len(events) + 1 /\ Len(events) \in Nat
            /\ \A i \in 1 .. Len(events) : events'[i] = events[i]
            /\ events'[Len(events) + 1] = offered
        BY <4>1, <4>2, Appended
      <4>4. Len(written) \in Nat /\ received \in Nat
        BY <4>1, LenProperties DEF DownloadInv, DownloadTypeOK
      <4>5. \A i \in 1 .. Len(events) : events[i].kind = "chunk" /\ events[i].chunk = Len(written) + i
        BY <4>2 DEF DownloadInv, Ordered
      <4>6. DownloadTypeOK'
        BY <4>1, <4>2, <4>3, <3>1 DEF DownloadInv, DownloadTypeOK
      <4>7. Ordered'
        <5>1. ASSUME NEW i \in 1 .. Len(events')
              PROVE  \/ events'[i].kind = "chunk" /\ events'[i].chunk = Len(written) + i
                     \/ events'[i].kind # "chunk" /\ i = Len(events') /\ worker' = "ended"
          <6>1. CASE i \in 1 .. Len(events)
            BY <6>1, <4>3, <4>5
          <6>2. CASE i = Len(events) + 1
            <7>1. Chunking => offered.chunk = Len(written) + i
              BY <6>2, <4>2, <4>3, <4>4 DEF DownloadInv, Tallied, Offering
            <7> QED BY <7>1, <6>2, <4>2, <4>3 DEF Chunking
          <6> QED BY <6>1, <6>2, <4>3
        <5>2. written' = [i \in 1 .. Len(written') |-> i]
          BY <4>2 DEF DownloadInv, Ordered
        <5> QED BY <5>1, <5>2, <4>2 DEF Ordered
      <4>8. Bounded'
        <5>1. ASSUME NEW i \in 1 .. Len(events'), events'[i].kind = "chunk"
              PROVE  events'[i].chunk <= MaxChunks
          <6>1. CASE i \in 1 .. Len(events)
            BY <6>1, <5>1, <4>3 DEF DownloadInv, Bounded
          <6>2. CASE i = Len(events) + 1
            BY <6>2, <5>1, <4>2, <4>3 DEF DownloadInv, Tallied, Offering, Chunking
          <6> QED BY <6>1, <6>2, <4>3
        <5> QED BY <5>1, <4>2 DEF DownloadInv, Bounded
      <4>9. Tallied'
        <5>1. /\ worker' \in {"idle", "open", "register", "length", "loop", "read"} =>
                    received' = Len(written') + Len(events')
              /\ ~Offering' /\ ~Ending'
          BY <4>2, <4>3, <4>4 DEF DownloadInv, Tallied, Offering, Ending, Chunking
        <5>2. ASSUME NEW i \in 1 .. Len(events'), events'[i].kind = "done", ~cancelled
              PROVE  received' = Len(written') + Len(events') - 1
          <6>1. i = Len(events) + 1
            BY <5>2, <4>3, <4>5
          <6>2. offered.kind = "done"
            BY <6>1, <5>2, <4>3
          <6> QED BY <6>2, <5>2, <4>2, <4>3, <4>4 DEF DownloadInv, Tallied, Ending, Chunking
        <5> QED BY <5>1, <5>2, <4>2 DEF Tallied
      <4>10. Closing'
        BY <4>2 DEF DownloadInv, Closing, Offering, Ending, Chunking, Tallied
      <4>11. Placed' /\ Timely'
        BY <4>2, <4>3 DEF DownloadInv, Placed, Timely
      <4> QED BY <4>6, <4>7, <4>8, <4>9, <4>10, <4>11 DEF DownloadInv
    <3>2. CASE ~(Len(events) < QueueSize)
      <4>1. /\ worker' = "put" /\ worker = "offer"
            /\ UNCHANGED <<events, reader, offered, cancelled, active, response, received, written, archive, late, after>>
        BY <2>17, <3>2 DEF Offer
      <4> QED BY <4>1 DEF DownloadInv, DownloadTypeOK, Ordered, Bounded, Tallied, Closing, Placed, Timely, Offering, Ending, Chunking
    <3> QED BY <3>1, <3>2
  <2>18. CASE Get
    <3> DEFINE R == [kind : Kinds, chunk : 0 .. ServerChunks]
    <3>1. /\ events \in Seq(R) /\ written \in Seq(1 .. ServerChunks) /\ events # <<>>
          /\ reader = "get" /\ events' = Tail(events) /\ after' = IF late THEN after + 1 ELSE after
          /\ UNCHANGED <<worker, offered, cancelled, active, response, received, archive, late>>
      BY <2>18 DEF Get, DownloadInv, DownloadTypeOK
    <3>2. /\ events' \in Seq(R) /\ Len(events') = Len(events) - 1 /\ Len(events) \in Nat \ {0}
          /\ \A i \in 1 .. Len(events') : events'[i] = events[i + 1]
          /\ Head(events) = events[1] /\ events[1] \in R
      <4>1. /\ Tail(events) \in Seq(R) /\ Len(Tail(events)) = Len(events) - 1 /\ Len(events) \in Nat \ {0}
            /\ \A i \in 1 .. Len(Tail(events)) : Tail(events)[i] = events[i + 1]
            /\ Head(events) = events[1] /\ Head(events) \in R
        BY <3>1, Taken
      <4> QED BY <4>1, <3>1
    <3>3. Len(written) \in Nat /\ received \in Nat /\ Len(events) <= QueueSize /\ 1 \in 1 .. Len(events)
      BY <3>1, <3>2, LenProperties DEF DownloadInv, DownloadTypeOK
    <3>4. ~cancelled /\ archive /\ after = 0 /\ after' <= 1 /\ after' \in Nat /\ (~late => after' = 0)
      BY <3>1 DEF DownloadInv, Placed, Timely
    <3>5. CASE events[1].kind = "chunk"
      <4>1. events[1].chunk = Len(written) + 1 /\ events[1].chunk <= MaxChunks /\ events[1].chunk <= ServerChunks
        BY <3>5, <3>2, <3>3 DEF DownloadInv, Ordered, Bounded
      <4>2. written' = Append(written, events[1].chunk) /\ reader' = "check"
        BY <2>18, <3>2, <3>5 DEF Get
      <4>3. events[1].chunk \in 1 .. ServerChunks
        BY <3>2, <3>3, <4>1, DownloadAssumption
      <4>4. /\ written' \in Seq(1 .. ServerChunks) /\ Len(written') = Len(written) + 1
            /\ \A i \in 1 .. Len(written) : written'[i] = written[i]
            /\ written'[Len(written) + 1] = Len(written) + 1
        BY <3>1, <4>1, <4>2, <4>3, Appended
      <4>5. DownloadTypeOK'
        BY <3>1, <3>2, <3>3, <3>4, <4>2, <4>4 DEF DownloadInv, DownloadTypeOK
      <4>6. Ordered'
        <5>1. written' = [i \in 1 .. Len(written') |-> i]
          <6>1. ASSUME NEW i \in 1 .. Len(written') PROVE written'[i] = i
            BY <3>3, <4>4 DEF DownloadInv, Ordered
          <6>2. written' = [i \in 1 .. Len(written') |-> written'[i]]
            BY <4>4, LenProperties
          <6> QED BY <6>1, <6>2
        <5>2. ASSUME NEW i \in 1 .. Len(events')
              PROVE  \/ events'[i].kind = "chunk" /\ events'[i].chunk = Len(written') + i
                     \/ events'[i].kind # "chunk" /\ i = Len(events') /\ worker' = "ended"
          <6>1. i + 1 \in 1 .. Len(events) /\ events'[i] = events[i + 1] /\ i \in Nat
            BY <3>2
          <6>2. \/ events[i + 1].kind = "chunk" /\ events[i + 1].chunk = Len(written) + (i + 1)
                \/ events[i + 1].kind # "chunk" /\ i + 1 = Len(events) /\ worker = "ended"
            BY <6>1 DEF DownloadInv, Ordered
          <6>3. Len(written') + i = Len(written) + (i + 1) /\ (i + 1 = Len(events) => i = Len(events'))
            <7>1. Len(events') = Len(events) - 1 /\ Len(events) \in Nat \ {0}
              BY <3>2
            <7>2. Len(written') = Len(written) + 1 /\ Len(written) \in Nat
              BY <3>3, <4>4
            <7> QED BY <6>1, <7>1, <7>2
          <6> QED BY <6>1, <6>2, <6>3, <3>1
        <5> QED BY <5>1, <5>2 DEF Ordered
      <4>7. Bounded'
        <5>1. \A i \in 1 .. Len(events') : i + 1 \in 1 .. Len(events) /\ events'[i] = events[i + 1]
          BY <3>2
        <5> QED BY <5>1, <3>3, <4>1, <4>4 DEF DownloadInv, Bounded
      <4>8. Tallied'
        <5>1. \A i \in 1 .. Len(events') : i + 1 \in 1 .. Len(events) /\ events'[i] = events[i + 1]
          BY <3>2
        <5>2. /\ Len(written') + Len(events') = Len(written) + Len(events)
              /\ Len(written') + Len(events') + 1 = Len(written) + Len(events) + 1
              /\ Len(written') + Len(events') - 1 = Len(written) + Len(events) - 1
          BY <3>2, <3>3, <4>4
        <5>3. \A i \in 1 .. Len(events') : events'[i].kind = "done" /\ ~cancelled =>
                  received = Len(written') + Len(events') - 1
          BY <5>1, <5>2 DEF DownloadInv, Tallied
        <5>4. /\ worker \in {"idle", "open", "register", "length", "loop", "read"} =>
                    received = Len(written') + Len(events')
              /\ Offering /\ Chunking => received = Len(written') + Len(events') + 1
              /\ Ending /\ offered.kind = "done" /\ ~cancelled =>
                    received = Len(written') + Len(events')
          BY <5>2 DEF DownloadInv, Tallied
        <5> QED BY <5>3, <5>4, <3>1 DEF DownloadInv, Tallied, Offering, Ending, Chunking
      <4>9. Closing' /\ Placed' /\ Timely'
        BY <3>1, <3>4, <4>2 DEF DownloadInv, Closing, Placed, Timely, Offering, Ending, Chunking
      <4> QED BY <4>5, <4>6, <4>7, <4>8, <4>9 DEF DownloadInv
    <3>6. CASE events[1].kind # "chunk"
      <4>1. worker = "ended" /\ Len(events) = 1
        BY <3>6, <3>3 DEF DownloadInv, Ordered
      <4>2. events' = <<>> /\ Len(events') = 0
        BY <3>2, <4>1, EmptySeq
      <4>3. UNCHANGED written /\ reader' = IF events[1].kind = "error" THEN "cancel" ELSE "join"
        BY <2>18, <3>2, <3>6 DEF Get, Kinds
      <4>4. events[1].kind # "error" => received = Len(written)
        BY <3>2, <3>3, <3>4, <3>6, <4>1 DEF DownloadInv, Tallied, Kinds
      <4>5. DownloadTypeOK'
        BY <3>1, <3>2, <3>3, <3>4, <4>3 DEF DownloadInv, DownloadTypeOK
      <4>6. Ordered' /\ Bounded'
        <5>1. 1 .. Len(events') = {}
          BY <4>2
        <5> QED BY <5>1, <4>3 DEF DownloadInv, Ordered, Bounded
      <4>7. Tallied' /\ Closing'
        <5>1. 1 .. Len(events') = {}
          BY <4>2
        <5>2. Tallied'
          BY <5>1, <3>1, <4>1 DEF Tallied, Offering, Ending, Chunking
        <5>3. Closing'
          BY <3>1, <4>1, <4>3 DEF DownloadInv, Closing, Offering, Ending, Chunking
        <5> QED BY <5>2, <5>3
      <4>8. Placed' /\ Timely'
        BY <3>1, <3>4, <4>1, <4>2, <4>3, <4>4 DEF DownloadInv, Placed, Timely
      <4> QED BY <4>5, <4>6, <4>7, <4>8 DEF DownloadInv
    <3> QED BY <3>5, <3>6
  <2>19. CASE UNCHANGED dlVars
    <3>1. DownloadTypeOK'
      BY <2>19 DEF dlVars, DownloadInv, DownloadTypeOK, Ordered, Bounded, Tallied, Closing, Placed, Timely, Event, OrNone, Kinds, Offering, Ending, Chunking, ReaderEnd, WorkerAt, LeaveResponse, TooMuch
    <3>2. Ordered' /\ Bounded'
      BY <2>19 DEF dlVars, DownloadInv, DownloadTypeOK, Ordered, Bounded, Tallied, Closing, Placed, Timely, Event, OrNone, Kinds, Offering, Ending, Chunking, ReaderEnd, WorkerAt, LeaveResponse, TooMuch
    <3>3. Tallied'
      BY <2>19 DEF dlVars, DownloadInv, DownloadTypeOK, Ordered, Bounded, Tallied, Closing, Placed, Timely, Event, OrNone, Kinds, Offering, Ending, Chunking, ReaderEnd, WorkerAt, LeaveResponse, TooMuch
    <3>4. Timely'
      BY <2>19 DEF dlVars, DownloadInv, DownloadTypeOK, Ordered, Bounded, Tallied, Closing, Placed, Timely, Event, OrNone, Kinds, Offering, Ending, Chunking, ReaderEnd, WorkerAt, LeaveResponse, TooMuch
    <3>5. Placed'
      BY <2>19 DEF dlVars, DownloadInv, Placed, DownloadTypeOK, ReaderEnd, WorkerAt, LeaveResponse
    <3>6. Closing'
      BY <2>19, DownloadAssumption DEF dlVars, DownloadInv, Closing, Offering, Ending, Chunking, Kinds, WorkerAt, LeaveResponse, Event, Placed
    <3> QED BY <3>1, <3>2, <3>3, <3>4, <3>5, <3>6 DEF DownloadInv
  <2> QED BY <2>1, <2>2, <2>3, <2>4, <2>5, <2>6, <2>7, <2>8, <2>9, <2>10, <2>11, <2>12, <2>13, <2>14, <2>15, <2>16, <2>17, <2>18, <2>19 DEF DownloadNext, WorkerRuns, ReaderStep
<1>3. DownloadInv => DownloadTypeOK /\ DownloadSafe
  BY DEF DownloadInv, DownloadSafe, Ordered, Bounded, Tallied, Closing, Placed, Timely, DigestCovers, ArchiveBounded, DeadlineHolds, EndIsClean, ResponseClosed, Ending
<1> QED BY <1>1, <1>2, <1>3, PTL DEF DownloadSpec

---------------------------------------------------------------------------
(* The installation and its swap *)

Building == {"extract", "verify", "replace"}
Restoring == {"restore", "displace", "put_back", "end_recovery"}
Swapping == {"bind", "backup", "promote", "commit", "committed"}
Nobody == {None, Stranger}
Untouched == instSuffered["edits"] = 0
(* What the run knows at each step.                                         *)
Locals ==
    /\ step = "recover" => run = NoRun
    /\ step \in Resting \cup {"sweep"} => run.txn = None /\ run.rec = None
    /\ step \in Building \cup Swapping \cup {"remove", "undo", "cleanup"} => run.txn # None
    /\ step \in Restoring => run.back \in {"sweep", "cleanup"} /\ (run.back = "cleanup" <=> run.txn # None)
    /\ run.rec # None <=> step \in {"displace", "put_back", "end_recovery"}
    /\ step \in {"recover", "sweep", "remove"} \cup Building \cup Swapping => run.ok
    /\ step = "undo" \/ (step \in Restoring /\ run.back = "cleanup") => ~run.ok
    /\ step = "backup" => run.was
    /\ run.was => run.txn # None /\ step \notin Building \cup {"bind"}
(* What a sibling is for tells what it may hold and record, and a swap runs *)
(* beside no sibling but its own.                                           *)
Siblings ==
    /\ \A x \in InstallTxns : sibling[x].kind = None => sibling[x] = NoSibling
    /\ \A x \in InstallTxns : sibling[x].kind # "transaction" =>
          bound[x] = None /\ sibling[x].previous = None
    /\ run.txn # None => sibling[run.txn].kind = "transaction"
    /\ run.rec # None => sibling[run.rec].kind = "recovery"
    /\ step \in Building \cup Swapping \cup {"remove", "undo"} \/ (step = "cleanup" /\ run.ok) =>
          \A x \in InstallTxns \ {run.txn} : sibling[x] = NoSibling
(* What is live, or can become so again, is whole or the user's.            *)
Wholes ==
    /\ {destination, rollback} \subseteq whole \cup Nobody
    /\ \A x \in InstallTxns : sibling[x].previous \in whole \cup Nobody
    /\ step \in {"extract", "verify"} =>
          /\ run.txn \notin {destination, rollback}
          /\ \A x \in InstallTxns : sibling[x].previous # run.txn
    /\ step \in {"verify", "replace", "bind", "backup", "promote"} => sibling[run.txn].staging = run.txn
    /\ step \in {"replace", "bind", "backup", "promote"} => run.txn \in whole
    /\ step \in Building \cup {"bind", "backup", "promote"} => sibling[run.txn].previous = None
(* Where the swap may have put what it replaces, the record says so.        *)
Records ==
    /\ RollbackOwned
    /\ \A x \in InstallTxns : sibling[x].previous \in Nobody \cup {bound[x]}
    /\ step = "backup" => destination \in Nobody \cup {bound[run.txn]}
    /\ step \in {"promote", "commit"} => rollback \in Nobody \cup {bound[run.txn]}
    /\ step = "promote" /\ ~run.was => rollback \in Nobody
    /\ step \in {"sweep", "bind", "backup", "committed", "remove"} \cup Building => rollback \in Nobody
    /\ step \in {"end_recovery", "cleanup"} /\ run.ok => rollback \in Nobody
    /\ step \in {"restore", "displace", "put_back"} =>
          rollback # None /\ \E x \in InstallTxns : bound[x] = rollback
(* While the user touches nothing, only the installer's own is where it     *)
(* works, and a run that has promoted keeps it there.                       *)
Lives ==
    Untouched =>
        /\ Stranger \notin {destination, rollback}
        /\ \A x \in InstallTxns : sibling[x].previous # Stranger
        /\ step \in {"commit", "committed", "remove"} \/ (step = "cleanup" /\ run.ok) =>
              destination = run.txn /\ run.txn \in whole
        /\ step \in {"promote", "put_back"} => destination = None
        /\ step = "done" =>
              rollback = None /\ destination \in whole /\ \A x \in InstallTxns : sibling[x] = NoSibling
(* After one failure at most, where the installation it found is.           *)
OneFailed == Untouched /\ instSuffered["kills"] = 0 /\ instSuffered["fails"] <= 1
Previous == sibling[run.txn].previous
Staging == sibling[run.txn].staging
Replaced == run.was /\ bound[run.txn] = found /\ found # None
Finding ==
    OneFailed =>
        /\ run.ok \/ instSuffered["fails"] = 1
        /\ step \in Resting \cup {"remove", "cleanup"} => rollback = None
        /\ step \in {"recover", "sweep", "bind", "backup", "end_recovery"} \cup Building =>
              destination = found /\ rollback = None
        /\ step \in Restoring => run.back = "cleanup"
        /\ step = "backup" => Replaced
        /\ step = "promote" =>
              \/ Replaced /\ rollback = found
              \/ ~run.was /\ rollback = None /\ found = None
        /\ step = "commit" => Replaced /\ rollback = found
        /\ step = "committed" =>
              /\ rollback = None
              /\ \/ Replaced /\ Previous = found
                 \/ ~run.was /\ found = None /\ Staging = None
        /\ step = "undo" =>
              \/ Replaced /\ rollback = found
              \/ Replaced /\ rollback = None /\ Previous = found
              \/ Replaced /\ rollback = None /\ Previous = None /\ destination = found
              \/ ~run.was /\ rollback = None /\ destination = found /\ Staging # None
              \/ ~run.was /\ rollback = None /\ found = None /\ Staging = None
        /\ step \in {"restore", "displace", "put_back"} => rollback = found /\ found # None
Accidents == {"installs", "kills", "fails", "edits"}
Suffered == instBudget \in [Accidents -> Nat] /\ instSuffered \in [Accidents -> Nat]
InstallInv ==
    InstallTypeOK /\ Suffered /\ Locals /\ Siblings /\ Wholes /\ Records /\ Lives /\ Finding

Inventory ==
    [kind : {None, "transaction", "recovery"}, staging : OrNone(Installations),
     previous : OrNone(Installations), displaced : OrNone(Installations)]
Unlike(x) == \A y \in InstallTxns \ {x} : sibling'[y] = sibling[y]
RunTyped ==
    run \in [txn : OrNone(InstallTxns), rec : OrNone(InstallTxns), was : BOOLEAN,
             back : {None, "sweep", "bind", "cleanup"}, ok : BOOLEAN]

(* An accident is counted once and changes no other count.                  *)
LEMMA Befallen ==
    ASSUME Suffered, NEW kind \in Accidents, Befall(kind)
    PROVE  /\ Suffered' /\ instSuffered'[kind] = instSuffered[kind] + 1 /\ instBudget' # instBudget
           /\ \A k \in Accidents \ {kind} : instSuffered'[k] = instSuffered[k]
           /\ found' = IF kind = "installs" THEN destination ELSE found
BY DEF Suffered, Befall

(* A new sibling is one that nothing names.                                 *)
LEMMA Made ==
    ASSUME InstallTypeOK, NEW kind \in {"transaction", "recovery"}, NEW field \in {"txn", "rec"},
           NewSibling(kind, field)
    PROVE  \E x \in InstallTxns :
               /\ sibling[x] = NoSibling /\ bound[x] = None /\ x \notin {destination, rollback}
               /\ \A y \in InstallTxns : sibling[y].previous # x
               /\ run' = [run EXCEPT ![field] = x] /\ Unlike(x)
               /\ sibling' \in [InstallTxns -> Inventory]
               /\ sibling'[x] = [kind |-> kind, staging |-> None, previous |-> None, displaced |-> None]
<1> DEFINE x == CHOOSE y \in Unused : TRUE
<1>1. /\ Unused # {} /\ run' = [run EXCEPT ![field] = x]
      /\ sibling' = [sibling EXCEPT ![x] = [NoSibling EXCEPT !.kind = kind]]
  BY DEF NewSibling, Set
<1>2. x \in Unused
  BY <1>1
<1>3. x \in InstallTxns \ InUse /\ sibling[x] = NoSibling /\ bound[x] = None
  BY <1>2 DEF Unused
<1>4. sibling' = [sibling EXCEPT ![x] = [kind |-> kind, staging |-> None, previous |-> None, displaced |-> None]]
  <2>1. [NoSibling EXCEPT !.kind = kind] = [kind |-> kind, staging |-> None, previous |-> None, displaced |-> None]
    BY DEF NoSibling
  <2> QED BY <1>1, <2>1
<1>5. Unlike(x) /\ sibling' \in [InstallTxns -> Inventory]
      /\ sibling'[x] = [kind |-> kind, staging |-> None, previous |-> None, displaced |-> None]
  BY <1>3, <1>4 DEF Unlike, Inventory, InstallTypeOK, OrNone
<1>6. x \notin {destination, rollback} /\ \A y \in InstallTxns : sibling[y].previous # x
  BY <1>3 DEF InUse
<1> QED BY <1>1, <1>3, <1>5, <1>6

(* An erased sibling holds and records nothing, and the others are as they  *)
(* were.                                                                    *)
LEMMA Gone ==
    ASSUME InstallTypeOK, NEW x \in InstallTxns, Erased(x)
    PROVE  /\ Unlike(x) /\ sibling'[x] = NoSibling /\ bound'[x] = None
           /\ \A y \in InstallTxns \ {x} : bound'[y] = bound[y]
           /\ sibling' \in [InstallTxns -> Inventory]
           /\ bound' \in [InstallTxns -> OrNone(Installations)]
BY DEF Erased, Unlike, NoSibling, Inventory, InstallTypeOK, OrNone

(* A recovery gets a sibling of its own.                                    *)
LEMMA CreateRecoveryKeeps == ASSUME InstallInv, CreateRecovery PROVE InstallInv'
<1> USE InstallAssumption
<1>0. InstallTypeOK /\ Suffered /\ Locals /\ Siblings /\ Wholes /\ Records /\ Lives /\ Finding
  BY DEF InstallInv
<1>1. step = "restore" /\ step' = "displace" /\ UNCHANGED <<destination, rollback, bound, whole, instBudget, instSuffered, found>>
  BY DEF CreateRecovery, instLuck
<1>2. \E x \in InstallTxns :
          /\ sibling[x] = NoSibling /\ bound[x] = None /\ Unlike(x)
          /\ run' = [run EXCEPT !.rec = x] /\ sibling' \in [InstallTxns -> Inventory]
          /\ sibling'[x] = [kind |-> "recovery", staging |-> None, previous |-> None, displaced |-> None]
  BY <1>0, Made DEF CreateRecovery, InstallTypeOK
<1>3. InstallTypeOK'
  BY <1>0, <1>1, <1>2 DEF InstallTypeOK, OrNone, Installations, InstallSteps, Resting, Inventory
<1>4. Suffered'
  BY <1>0, <1>1, <1>2 DEF Suffered
<1>5. Locals'
  BY <1>0, <1>1, <1>2 DEF Locals, Resting, Building, Swapping, Restoring
<1>6. Siblings'
  <2> PICK x \in InstallTxns :
           /\ sibling[x] = NoSibling /\ bound[x] = None /\ Unlike(x)
           /\ run' = [run EXCEPT !.rec = x] /\ sibling' \in [InstallTxns -> Inventory]
           /\ sibling'[x] = [kind |-> "recovery", staging |-> None, previous |-> None, displaced |-> None]
    BY <1>2
  <2>1. sibling'[x].kind = "recovery" /\ sibling'[x].previous = None /\ run'.rec = x /\ run'.txn = run.txn
    BY <1>0 DEF InstallTypeOK
  <2>2. run.txn # x /\ (run.txn # None => run.txn \in InstallTxns)
    BY <1>0 DEF Siblings, NoSibling, InstallTypeOK, OrNone
  <2>3. \A y \in InstallTxns : (y = x \/ sibling'[y] = sibling[y]) /\ bound'[y] = bound[y]
    BY <1>1 DEF Unlike
  <2> QED BY <1>0, <1>1, <2>1, <2>2, <2>3 DEF Siblings, Building, Swapping
<1>7. Wholes'
  BY <1>0, <1>1, <1>2 DEF Wholes, Building, Nobody, Unlike, InstallTypeOK, Locals, Resting, Building, Restoring, Swapping, NoSibling
<1>8. Records'
  BY <1>0, <1>1, <1>2 DEF Records, RollbackOwned, Building, Nobody, Unlike, InstallTypeOK, Locals, Resting, Building, Restoring, Swapping, NoSibling
<1>9. Lives'
  BY <1>0, <1>1, <1>2 DEF Lives, Untouched, Unlike, InstallTypeOK, Locals, Resting, Building, Restoring, Swapping, NoSibling
<1>10. Finding'
  BY <1>0, <1>1, <1>2 DEF Finding, OneFailed, Untouched, Resting, Building, Restoring, Replaced, Previous, Staging, Unlike, InstallTypeOK, Locals, Resting, Building, Restoring, Swapping, NoSibling
<1> QED BY <1>3, <1>4, <1>5, <1>6, <1>7, <1>8, <1>9, <1>10 DEF InstallInv

(* What is live goes into the sibling of the recovery.                      *)
LEMMA DisplaceKeeps == ASSUME InstallInv, Displace PROVE InstallInv'
<1> USE InstallAssumption
<1>0. InstallTypeOK /\ Suffered /\ Locals /\ Siblings /\ Wholes /\ Records /\ Lives /\ Finding
  BY DEF InstallInv
<1>1. /\ step = "displace" /\ step' = "put_back" /\ destination' = None
      /\ UNCHANGED <<run, rollback, bound, whole, instBudget, instSuffered, found>>
  BY DEF Displace, instLuck
<1>2. run.rec \in InstallTxns /\ sibling[run.rec].kind = "recovery"
  BY <1>0, <1>1 DEF Locals, Siblings, InstallTypeOK, OrNone
<1>3. /\ sibling' \in [InstallTxns -> Inventory] /\ Unlike(run.rec)
      /\ sibling'[run.rec].kind = "recovery" /\ sibling'[run.rec].previous = sibling[run.rec].previous
      /\ sibling'[run.rec].staging = sibling[run.rec].staging
  BY <1>0, <1>1, <1>2 DEF Displace, Unlike, Inventory, InstallTypeOK, OrNone, Installations
<1>4. InstallTypeOK'
  BY <1>0, <1>1, <1>2, <1>3 DEF InstallTypeOK, OrNone, Installations, InstallSteps, Resting, Inventory
<1>5. Suffered'
  BY <1>0, <1>1, <1>2, <1>3 DEF Suffered
<1>6. Locals'
  BY <1>0, <1>1, <1>2, <1>3 DEF Locals, Resting, Building, Swapping, Restoring
<1>7. Siblings'
  <2>1. run.txn # run.rec /\ (run.txn # None => run.txn \in InstallTxns)
    BY <1>0, <1>2 DEF Siblings, InstallTypeOK, OrNone
  <2>2. \A y \in InstallTxns : (y = run.rec \/ sibling'[y] = sibling[y]) /\ bound'[y] = bound[y]
    BY <1>1, <1>3 DEF Unlike
  <2> QED BY <1>0, <1>1, <1>2, <1>3, <2>1, <2>2 DEF Siblings, Building, Swapping
<1>8. Wholes'
  BY <1>0, <1>1, <1>2, <1>3 DEF Wholes, Building, Nobody, Unlike, InstallTypeOK, Locals, Resting, Building, Restoring, Swapping
<1>9. Records'
  BY <1>0, <1>1, <1>2, <1>3 DEF Records, RollbackOwned, Building, Nobody, Unlike, InstallTypeOK, Locals, Resting, Building, Restoring, Swapping
<1>10. Lives'
  BY <1>0, <1>1, <1>2, <1>3 DEF Lives, Untouched, Unlike, InstallTypeOK, Locals, Resting, Building, Restoring, Swapping
<1>11. Finding'
  BY <1>0, <1>1, <1>2, <1>3 DEF Finding, OneFailed, Untouched, Resting, Building, Restoring, Replaced, Previous, Staging, Unlike, InstallTypeOK, Locals, Resting, Building, Restoring, Swapping
<1> QED BY <1>4, <1>5, <1>6, <1>7, <1>8, <1>9, <1>10, <1>11 DEF InstallInv

(* The rollback becomes live again.                                         *)
LEMMA PutBackKeeps == ASSUME InstallInv, PutBack PROVE InstallInv'
<1> USE InstallAssumption
<1>0. InstallTypeOK /\ Suffered /\ Locals /\ Siblings /\ Wholes /\ Records /\ Lives /\ Finding
  BY DEF InstallInv
<1>1. /\ step = "put_back" /\ step' = "end_recovery" /\ destination = None
      /\ destination' = rollback /\ rollback' = None
      /\ UNCHANGED <<run, sibling, bound, whole, instBudget, instSuffered, found>>
  BY DEF PutBack, instLuck
<1>2. InstallTypeOK'
  BY <1>0, <1>1 DEF InstallTypeOK, OrNone, Installations, InstallSteps, Resting, Inventory, Locals, Resting, Building, Restoring, Swapping
<1>3. Suffered'
  BY <1>0, <1>1 DEF Suffered
<1>4. Locals'
  BY <1>0, <1>1 DEF Locals, Resting, Building, Swapping, Restoring
<1>5. Siblings'
  BY <1>0, <1>1 DEF Siblings, Building, Swapping, NoSibling, Locals, Resting, Building, Restoring, Swapping
<1>6. Wholes'
  BY <1>0, <1>1 DEF Wholes, Building, Nobody, Locals, Resting, Building, Restoring, Swapping
<1>7. Records'
  BY <1>0, <1>1 DEF Records, RollbackOwned, Building, Nobody, Locals, Resting, Building, Restoring, Swapping
<1>8. Lives'
  BY <1>0, <1>1 DEF Lives, Untouched, Locals, Resting, Building, Restoring, Swapping
<1>9. Finding'
  BY <1>0, <1>1 DEF Finding, OneFailed, Untouched, Resting, Building, Restoring, Replaced, Previous, Staging, Locals, Resting, Building, Restoring, Swapping
<1> QED BY <1>2, <1>3, <1>4, <1>5, <1>6, <1>7, <1>8, <1>9 DEF InstallInv

(* The sibling of the recovery is gone, and the run goes on or fails.       *)
LEMMA EndRecoveryKeeps == ASSUME InstallInv, EndRecovery PROVE InstallInv'
<1> USE InstallAssumption
<1>0. InstallTypeOK /\ Suffered /\ Locals /\ Siblings /\ Wholes /\ Records /\ Lives /\ Finding
  BY DEF InstallInv
<1>1. /\ step = "end_recovery"
      /\ step' = IF run.ok \/ run.back = "cleanup" THEN run.back ELSE RaisedTo(run.back)
      /\ run' = [run EXCEPT !.rec = None] /\ Erased(run.rec)
      /\ UNCHANGED <<destination, rollback, whole, instBudget, instSuffered, found>>
  BY DEF EndRecovery, instLuck, Set
<1>2. run.rec \in InstallTxns /\ sibling[run.rec].kind = "recovery" /\ run.txn # run.rec
  BY <1>0, <1>1 DEF Locals, Siblings, InstallTypeOK, OrNone
<1>3. /\ Unlike(run.rec) /\ sibling'[run.rec] = NoSibling /\ bound'[run.rec] = None
      /\ \A y \in InstallTxns \ {run.rec} : bound'[y] = bound[y]
      /\ sibling' \in [InstallTxns -> Inventory] /\ bound' \in [InstallTxns -> OrNone(Installations)]
  BY <1>0, <1>1, <1>2, Gone
<1>4. step' = IF run.back = "cleanup" THEN "cleanup" ELSE IF run.ok THEN "sweep" ELSE "failed"
  BY <1>0, <1>1 DEF Locals, Restoring, RaisedTo
<1>5. /\ NoSibling.kind = None /\ NoSibling.previous = None
      /\ bound[run.rec] = None /\ sibling[run.rec].previous = None
  BY <1>0, <1>2 DEF NoSibling, Siblings
<1>6. InstallTypeOK'
  BY <1>0, <1>1, <1>2, <1>3, <1>4, <1>5 DEF InstallTypeOK, OrNone, Installations, InstallSteps, Resting, Inventory, Unlike, Locals, Resting, Building, Restoring, Swapping, InstallTypeOK, OrNone, Installations
<1>7. Suffered'
  BY <1>0, <1>1, <1>2, <1>3, <1>4, <1>5 DEF Suffered
<1>8. Locals'
  BY <1>0, <1>1, <1>2, <1>3, <1>4, <1>5 DEF Locals, Resting, Building, Swapping, Restoring, Unlike, Locals, Resting, Building, Restoring, Swapping, InstallTypeOK, OrNone, Installations
<1>9. Siblings'
  BY <1>0, <1>1, <1>2, <1>3, <1>4, <1>5 DEF Siblings, Building, Swapping, NoSibling, Unlike, Locals, Resting, Building, Restoring, Swapping, InstallTypeOK, OrNone, Installations
<1>10. Wholes'
  BY <1>0, <1>1, <1>2, <1>3, <1>4, <1>5 DEF Wholes, Building, Nobody, Unlike, Locals, Resting, Building, Restoring, Swapping, InstallTypeOK, OrNone, Installations
<1>11. Records'
  BY <1>0, <1>1, <1>2, <1>3, <1>4, <1>5 DEF Records, RollbackOwned, Building, Nobody, Unlike, Locals, Resting, Building, Restoring, Swapping, InstallTypeOK, OrNone, Installations
<1>12. Lives'
  BY <1>0, <1>1, <1>2, <1>3, <1>4, <1>5 DEF Lives, Untouched, Unlike, Locals, Resting, Building, Restoring, Swapping, InstallTypeOK, OrNone, Installations
<1>13. Finding'
  BY <1>0, <1>1, <1>2, <1>3, <1>4, <1>5 DEF Finding, OneFailed, Untouched, Resting, Building, Restoring, Replaced, Previous, Staging, Unlike, Locals, Resting, Building, Restoring, Swapping, InstallTypeOK, OrNone, Installations
<1> QED BY <1>6, <1>7, <1>8, <1>9, <1>10, <1>11, <1>12, <1>13 DEF InstallInv

(* The rollback is looked at first.                                         *)
LEMMA RecoverInstallKeeps == ASSUME InstallInv, RecoverInstall PROVE InstallInv'
<1> USE InstallAssumption
<1>0. InstallTypeOK /\ Suffered /\ Locals /\ Siblings /\ Wholes /\ Records /\ Lives /\ Finding
  BY DEF InstallInv
<1>1. /\ step = "recover" /\ run = NoRun /\ run.ok /\ run.txn = None /\ run.rec = None
      /\ UNCHANGED <<destination, rollback, sibling, bound, whole, instBudget, instSuffered, found>>
  BY <1>0 DEF RecoverInstall, instLuck, instFiles, Locals, NoRun
<1>2. \/ /\ rollback # None /\ step' = "restore" /\ run' = [run EXCEPT !.back = "sweep"]
         /\ \E x \in InstallTxns : bound[x] = rollback
      \/ rollback # None /\ step' = "failed" /\ run' = [run EXCEPT !.ok = FALSE]
      \/ rollback = None /\ step' = "sweep" /\ run' = run
  BY DEF RecoverInstall, ClaimRollback, Set, Owned
<1>3. InstallTypeOK'
  BY <1>0, <1>1, <1>2 DEF InstallTypeOK, OrNone, Installations, InstallSteps, Resting, Inventory, Locals, Resting, Building, Restoring, Swapping, InstallTypeOK, OrNone, Installations
<1>4. Suffered'
  BY <1>0, <1>1, <1>2 DEF Suffered
<1>5. Locals'
  BY <1>0, <1>1, <1>2 DEF Locals, Resting, Building, Swapping, Restoring, Locals, Resting, Building, Restoring, Swapping, InstallTypeOK, OrNone, Installations
<1>6. Siblings'
  BY <1>0, <1>1, <1>2 DEF Siblings, Building, Swapping, NoSibling, Locals, Resting, Building, Restoring, Swapping, InstallTypeOK, OrNone, Installations
<1>7. Wholes'
  BY <1>0, <1>1, <1>2 DEF Wholes, Building, Nobody, Locals, Resting, Building, Restoring, Swapping, InstallTypeOK, OrNone, Installations
<1>8. Records'
  BY <1>0, <1>1, <1>2 DEF Records, RollbackOwned, Building, Nobody, Locals, Resting, Building, Restoring, Swapping, InstallTypeOK, OrNone, Installations
<1>9. Lives'
  BY <1>0, <1>1, <1>2 DEF Lives, Untouched, Locals, Resting, Building, Restoring, Swapping, InstallTypeOK, OrNone, Installations
<1>10. Finding'
  BY <1>0, <1>1, <1>2 DEF Finding, OneFailed, Untouched, Resting, Building, Restoring, Replaced, Previous, Staging, Locals, Resting, Building, Restoring, Swapping, InstallTypeOK, OrNone, Installations
<1> QED BY <1>3, <1>4, <1>5, <1>6, <1>7, <1>8, <1>9, <1>10 DEF InstallInv

(* A sibling whose process is gone is swept; it holds no rollback any more. *)
LEMMA SweepOneKeeps == ASSUME InstallInv, \E x \in InstallTxns : Orphaned(x) /\ Erased(x) /\ UNCHANGED <<step, run, destination, rollback, whole, instBudget, instSuffered, found>>, step = "sweep" PROVE InstallInv'
<1> USE InstallAssumption
<1>0. InstallTypeOK /\ Suffered /\ Locals /\ Siblings /\ Wholes /\ Records /\ Lives /\ Finding
  BY DEF InstallInv
<1>1. /\ step = "sweep" /\ UNCHANGED <<step, run, destination, rollback, whole, instBudget, instSuffered, found>>
      /\ run.txn = None /\ run.rec = None /\ run.ok
  BY <1>0 DEF Locals
<1>2. \E x \in InstallTxns :
          /\ Unlike(x) /\ sibling'[x] = NoSibling /\ bound'[x] = None
          /\ \A y \in InstallTxns \ {x} : bound'[y] = bound[y]
          /\ sibling' \in [InstallTxns -> Inventory] /\ bound' \in [InstallTxns -> OrNone(Installations)]
  BY <1>0, Gone
<1>3. NoSibling.kind = None /\ NoSibling.previous = None /\ rollback \in Nobody
  BY <1>0, <1>1 DEF NoSibling, Records
<1>4. InstallTypeOK'
  BY <1>0, <1>1, <1>2, <1>3 DEF InstallTypeOK, OrNone, Installations, InstallSteps, Resting, Inventory, Unlike, Locals, Resting, Building, Restoring, Swapping, InstallTypeOK, OrNone, Installations
<1>5. Suffered'
  BY <1>0, <1>1, <1>2, <1>3 DEF Suffered
<1>6. Locals'
  BY <1>0, <1>1, <1>2, <1>3 DEF Locals, Resting, Building, Swapping, Restoring, Unlike, Locals, Resting, Building, Restoring, Swapping, InstallTypeOK, OrNone, Installations
<1>7. Siblings'
  BY <1>0, <1>1, <1>2, <1>3 DEF Siblings, Building, Swapping, NoSibling, Unlike, Locals, Resting, Building, Restoring, Swapping, InstallTypeOK, OrNone, Installations
<1>8. Wholes'
  BY <1>0, <1>1, <1>2, <1>3 DEF Wholes, Building, Nobody, Unlike, Locals, Resting, Building, Restoring, Swapping, InstallTypeOK, OrNone, Installations
<1>9. Records'
  BY <1>0, <1>1, <1>2, <1>3 DEF Records, RollbackOwned, Building, Nobody, Unlike, Locals, Resting, Building, Restoring, Swapping, InstallTypeOK, OrNone, Installations
<1>10. Lives'
  BY <1>0, <1>1, <1>2, <1>3 DEF Lives, Untouched, Unlike, Locals, Resting, Building, Restoring, Swapping, InstallTypeOK, OrNone, Installations
<1>11. Finding'
  BY <1>0, <1>1, <1>2, <1>3 DEF Finding, OneFailed, Untouched, Resting, Building, Restoring, Replaced, Previous, Staging, Unlike, Locals, Resting, Building, Restoring, Swapping, InstallTypeOK, OrNone, Installations
<1> QED BY <1>4, <1>5, <1>6, <1>7, <1>8, <1>9, <1>10, <1>11 DEF InstallInv

(* The swap begins alone.                                                   *)
LEMMA SweepLastKeeps == ASSUME InstallInv, step = "sweep", ~\E x \in InstallTxns : Orphaned(x),
           NewSibling("transaction", "txn"), step' = "extract", UNCHANGED <<destination, rollback, bound, whole, instBudget, instSuffered, found>> PROVE InstallInv'
<1> USE InstallAssumption
<1>0. InstallTypeOK /\ Suffered /\ Locals /\ Siblings /\ Wholes /\ Records /\ Lives /\ Finding
  BY DEF InstallInv
<1>1. /\ step = "sweep" /\ step' = "extract" /\ run.txn = None /\ run.rec = None /\ run.ok
      /\ UNCHANGED <<destination, rollback, bound, whole, instBudget, instSuffered, found>>
  BY <1>0 DEF Locals
<1>2. \E x \in InstallTxns :
          /\ sibling[x] = NoSibling /\ bound[x] = None /\ x \notin {destination, rollback}
          /\ \A y \in InstallTxns : sibling[y].previous # x
          /\ run' = [run EXCEPT !.txn = x] /\ Unlike(x) /\ sibling' \in [InstallTxns -> Inventory]
          /\ sibling'[x] = [kind |-> "transaction", staging |-> None, previous |-> None, displaced |-> None]
  BY <1>0, Made
<1>3. \A x \in InstallTxns : sibling[x] = NoSibling
  BY <1>0, <1>1 DEF Orphaned, Siblings
<1>4. InstallTypeOK'
  BY <1>0, <1>1, <1>2, <1>3 DEF InstallTypeOK, OrNone, Installations, InstallSteps, Resting, Inventory, Unlike, NoSibling, Locals, Resting, Building, Restoring, Swapping, InstallTypeOK, OrNone, Installations
<1>5. Suffered'
  BY <1>0, <1>1, <1>2, <1>3 DEF Suffered
<1>6. Locals'
  BY <1>0, <1>1, <1>2, <1>3 DEF Locals, Resting, Building, Swapping, Restoring, Unlike, NoSibling, Locals, Resting, Building, Restoring, Swapping, InstallTypeOK, OrNone, Installations
<1>7. Siblings'
  BY <1>0, <1>1, <1>2, <1>3 DEF Siblings, Building, Swapping, NoSibling, Unlike, NoSibling, Locals, Resting, Building, Restoring, Swapping, InstallTypeOK, OrNone, Installations
<1>8. Wholes'
  BY <1>0, <1>1, <1>2, <1>3 DEF Wholes, Building, Nobody, Unlike, NoSibling, Locals, Resting, Building, Restoring, Swapping, InstallTypeOK, OrNone, Installations
<1>9. Records'
  BY <1>0, <1>1, <1>2, <1>3 DEF Records, RollbackOwned, Building, Nobody, Unlike, NoSibling, Locals, Resting, Building, Restoring, Swapping, InstallTypeOK, OrNone, Installations
<1>10. Lives'
  BY <1>0, <1>1, <1>2, <1>3 DEF Lives, Untouched, Unlike, NoSibling, Locals, Resting, Building, Restoring, Swapping, InstallTypeOK, OrNone, Installations
<1>11. Finding'
  BY <1>0, <1>1, <1>2, <1>3 DEF Finding, OneFailed, Untouched, Resting, Building, Restoring, Replaced, Previous, Staging, Unlike, NoSibling, Locals, Resting, Building, Restoring, Swapping, InstallTypeOK, OrNone, Installations
<1> QED BY <1>4, <1>5, <1>6, <1>7, <1>8, <1>9, <1>10, <1>11 DEF InstallInv

(* What is extracted was nowhere, and is not whole yet.                     *)
LEMMA ExtractKeeps == ASSUME InstallInv, Extract PROVE InstallInv'
<1> USE InstallAssumption
<1>0. InstallTypeOK /\ Suffered /\ Locals /\ Siblings /\ Wholes /\ Records /\ Lives /\ Finding
  BY DEF InstallInv
<1>1. /\ step = "extract" /\ step' = "verify"
      /\ sibling' = [sibling EXCEPT ![run.txn].staging = run.txn] /\ whole' = whole \ {run.txn}
      /\ UNCHANGED <<run, destination, rollback, bound, instBudget, instSuffered, found>>
  BY DEF Extract, instLuck, instFiles
<1>2. run.txn \in InstallTxns /\ sibling[run.txn].kind = "transaction"
  BY <1>0, <1>1 DEF Locals, Siblings, InstallTypeOK, OrNone, Building, Swapping
<1>3. /\ sibling' \in [InstallTxns -> Inventory] /\ Unlike(run.txn) /\ sibling'[run.txn].staging = run.txn
      /\ sibling'[run.txn].kind = sibling[run.txn].kind
      /\ sibling'[run.txn].previous = sibling[run.txn].previous
  BY <1>0, <1>1, <1>2 DEF Unlike, Inventory, InstallTypeOK, OrNone, Installations
<1>4. InstallTypeOK'
  BY <1>0, <1>1, <1>2, <1>3 DEF InstallTypeOK, OrNone, Installations, InstallSteps, Resting, Inventory, Unlike, NoSibling, Locals, Resting, Building, Restoring, Swapping, InstallTypeOK, OrNone, Installations
<1>5. Suffered'
  BY <1>0, <1>1, <1>2, <1>3 DEF Suffered
<1>6. Locals'
  BY <1>0, <1>1, <1>2, <1>3 DEF Locals, Resting, Building, Swapping, Restoring, Unlike, NoSibling, Locals, Resting, Building, Restoring, Swapping, InstallTypeOK, OrNone, Installations
<1>7. Siblings'
  BY <1>0, <1>1, <1>2, <1>3 DEF Siblings, Building, Swapping, NoSibling, Unlike, NoSibling, Locals, Resting, Building, Restoring, Swapping, InstallTypeOK, OrNone, Installations
<1>8. Wholes'
  BY <1>0, <1>1, <1>2, <1>3 DEF Wholes, Building, Nobody, Unlike, NoSibling, Locals, Resting, Building, Restoring, Swapping, InstallTypeOK, OrNone, Installations
<1>9. Records'
  BY <1>0, <1>1, <1>2, <1>3 DEF Records, RollbackOwned, Building, Nobody, Unlike, NoSibling, Locals, Resting, Building, Restoring, Swapping, InstallTypeOK, OrNone, Installations
<1>10. Lives'
  BY <1>0, <1>1, <1>2, <1>3 DEF Lives, Untouched, Unlike, NoSibling, Locals, Resting, Building, Restoring, Swapping, InstallTypeOK, OrNone, Installations
<1>11. Finding'
  BY <1>0, <1>1, <1>2, <1>3 DEF Finding, OneFailed, Untouched, Resting, Building, Restoring, Replaced, Previous, Staging, Unlike, NoSibling, Locals, Resting, Building, Restoring, Swapping, InstallTypeOK, OrNone, Installations
<1> QED BY <1>4, <1>5, <1>6, <1>7, <1>8, <1>9, <1>10, <1>11 DEF InstallInv

(* What was run once is whole.                                              *)
LEMMA VerifyStagedKeeps == ASSUME InstallInv, VerifyStaged PROVE InstallInv'
<1> USE InstallAssumption
<1>0. InstallTypeOK /\ Suffered /\ Locals /\ Siblings /\ Wholes /\ Records /\ Lives /\ Finding
  BY DEF InstallInv
<1>1. /\ step = "verify" /\ step' = "replace"
      /\ whole' = whole \cup {run.txn} /\ UNCHANGED <<run, destination, rollback, sibling, bound, instBudget, instSuffered, found>>
  BY DEF VerifyStaged, instLuck, instFiles
<1>2. run.txn \in InstallTxns /\ sibling[run.txn].kind = "transaction"
  BY <1>0, <1>1 DEF Locals, Siblings, InstallTypeOK, OrNone, Building, Swapping
<1>3. InstallTypeOK'
  BY <1>0, <1>1, <1>2 DEF InstallTypeOK, OrNone, Installations, InstallSteps, Resting, Inventory, Locals, Resting, Building, Restoring, Swapping, InstallTypeOK, OrNone, Installations
<1>4. Suffered'
  BY <1>0, <1>1, <1>2 DEF Suffered
<1>5. Locals'
  BY <1>0, <1>1, <1>2 DEF Locals, Resting, Building, Swapping, Restoring, Locals, Resting, Building, Restoring, Swapping, InstallTypeOK, OrNone, Installations
<1>6. Siblings'
  BY <1>0, <1>1, <1>2 DEF Siblings, Building, Swapping, NoSibling, Locals, Resting, Building, Restoring, Swapping, InstallTypeOK, OrNone, Installations
<1>7. Wholes'
  BY <1>0, <1>1, <1>2 DEF Wholes, Building, Nobody, Locals, Resting, Building, Restoring, Swapping, InstallTypeOK, OrNone, Installations
<1>8. Records'
  BY <1>0, <1>1, <1>2 DEF Records, RollbackOwned, Building, Nobody, Locals, Resting, Building, Restoring, Swapping, InstallTypeOK, OrNone, Installations
<1>9. Lives'
  BY <1>0, <1>1, <1>2 DEF Lives, Untouched, Locals, Resting, Building, Restoring, Swapping, InstallTypeOK, OrNone, Installations
<1>10. Finding'
  BY <1>0, <1>1, <1>2 DEF Finding, OneFailed, Untouched, Resting, Building, Restoring, Replaced, Previous, Staging, Locals, Resting, Building, Restoring, Swapping, InstallTypeOK, OrNone, Installations
<1> QED BY <1>3, <1>4, <1>5, <1>6, <1>7, <1>8, <1>9, <1>10 DEF InstallInv

(* No sibling is left that could own a rollback, so one that is there is refused. *)
LEMMA ReplaceDestinationKeeps == ASSUME InstallInv, ReplaceDestination PROVE InstallInv'
<1> USE InstallAssumption
<1>0. InstallTypeOK /\ Suffered /\ Locals /\ Siblings /\ Wholes /\ Records /\ Lives /\ Finding
  BY DEF InstallInv
<1>1. step = "replace" /\ UNCHANGED <<destination, rollback, sibling, bound, whole, instBudget, instSuffered, found>>
  BY DEF ReplaceDestination, instLuck, instFiles
<1>2. run.txn \in InstallTxns /\ sibling[run.txn].kind = "transaction"
  BY <1>0, <1>1 DEF Locals, Siblings, InstallTypeOK, OrNone, Building, Swapping
<1>3. ~\E x \in InstallTxns : Orphaned(x) /\ Owned(x)
  BY <1>0, <1>1, <1>2 DEF Siblings, NoSibling, Orphaned, Building
<1>4. \/ rollback # None /\ step' = "cleanup" /\ run' = [run EXCEPT !.ok = FALSE]
      \/ rollback = None /\ step' = "bind" /\ run' = run
  BY <1>3 DEF ReplaceDestination, ClaimRollback, Set
<1>5. InstallTypeOK'
  BY <1>0, <1>1, <1>2, <1>3, <1>4 DEF InstallTypeOK, OrNone, Installations, InstallSteps, Resting, Inventory, Locals, Resting, Building, Restoring, Swapping, InstallTypeOK, OrNone, Installations
<1>6. Suffered'
  BY <1>0, <1>1, <1>2, <1>3, <1>4 DEF Suffered
<1>7. Locals'
  BY <1>0, <1>1, <1>2, <1>3, <1>4 DEF Locals, Resting, Building, Swapping, Restoring, Locals, Resting, Building, Restoring, Swapping, InstallTypeOK, OrNone, Installations
<1>8. Siblings'
  BY <1>0, <1>1, <1>2, <1>3, <1>4 DEF Siblings, Building, Swapping, NoSibling, Locals, Resting, Building, Restoring, Swapping, InstallTypeOK, OrNone, Installations
<1>9. Wholes'
  BY <1>0, <1>1, <1>2, <1>3, <1>4 DEF Wholes, Building, Nobody, Locals, Resting, Building, Restoring, Swapping, InstallTypeOK, OrNone, Installations
<1>10. Records'
  BY <1>0, <1>1, <1>2, <1>3, <1>4 DEF Records, RollbackOwned, Building, Nobody, Locals, Resting, Building, Restoring, Swapping, InstallTypeOK, OrNone, Installations
<1>11. Lives'
  BY <1>0, <1>1, <1>2, <1>3, <1>4 DEF Lives, Untouched, Locals, Resting, Building, Restoring, Swapping, InstallTypeOK, OrNone, Installations
<1>12. Finding'
  BY <1>0, <1>1, <1>2, <1>3, <1>4 DEF Finding, OneFailed, Untouched, Resting, Building, Restoring, Replaced, Previous, Staging, Locals, Resting, Building, Restoring, Swapping, InstallTypeOK, OrNone, Installations
<1> QED BY <1>5, <1>6, <1>7, <1>8, <1>9, <1>10, <1>11, <1>12 DEF InstallInv

(* The swap records what it is about to replace.                            *)
LEMMA BindRollbackKeeps == ASSUME InstallInv, BindRollback PROVE InstallInv'
<1> USE InstallAssumption
<1>0. InstallTypeOK /\ Suffered /\ Locals /\ Siblings /\ Wholes /\ Records /\ Lives /\ Finding
  BY DEF InstallInv
<1>1. /\ step = "bind" /\ run' = [run EXCEPT !.was = destination # None]
      /\ step' = IF destination # None THEN "backup" ELSE "promote"
      /\ bound' = [bound EXCEPT ![run.txn] = destination]
      /\ UNCHANGED <<destination, rollback, sibling, whole, instBudget, instSuffered, found>>
  BY DEF BindRollback, instLuck, Set
<1>2. run.txn \in InstallTxns /\ sibling[run.txn].kind = "transaction"
  BY <1>0, <1>1 DEF Locals, Siblings, InstallTypeOK, OrNone, Building, Swapping
<1>3. /\ bound'[run.txn] = destination /\ \A x \in InstallTxns \ {run.txn} : bound'[x] = bound[x]
      /\ bound' \in [InstallTxns -> OrNone(Installations)]
  BY <1>0, <1>1, <1>2 DEF InstallTypeOK
<1>4. InstallTypeOK'
  BY <1>0, <1>1, <1>2, <1>3 DEF InstallTypeOK, OrNone, Installations, InstallSteps, Resting, Inventory, Locals, Resting, Building, Restoring, Swapping, InstallTypeOK, OrNone, Installations
<1>5. Suffered'
  BY <1>0, <1>1, <1>2, <1>3 DEF Suffered
<1>6. Locals'
  BY <1>0, <1>1, <1>2, <1>3 DEF Locals, Resting, Building, Swapping, Restoring, Locals, Resting, Building, Restoring, Swapping, InstallTypeOK, OrNone, Installations
<1>7. Siblings'
  BY <1>0, <1>1, <1>2, <1>3 DEF Siblings, Building, Swapping, NoSibling, Locals, Resting, Building, Restoring, Swapping, InstallTypeOK, OrNone, Installations
<1>8. Wholes'
  BY <1>0, <1>1, <1>2, <1>3 DEF Wholes, Building, Nobody, Locals, Resting, Building, Restoring, Swapping, InstallTypeOK, OrNone, Installations
<1>9. Records'
  BY <1>0, <1>1, <1>2, <1>3 DEF Records, RollbackOwned, Building, Nobody, Locals, Resting, Building, Restoring, Swapping, InstallTypeOK, OrNone, Installations, Wholes, Siblings
<1>10. Lives'
  BY <1>0, <1>1, <1>2, <1>3 DEF Lives, Untouched, Locals, Resting, Building, Restoring, Swapping, InstallTypeOK, OrNone, Installations
<1>11. Finding'
  BY <1>0, <1>1, <1>2, <1>3 DEF Finding, OneFailed, Untouched, Resting, Building, Restoring, Replaced, Previous, Staging, Locals, Resting, Building, Restoring, Swapping, InstallTypeOK, OrNone, Installations
<1> QED BY <1>4, <1>5, <1>6, <1>7, <1>8, <1>9, <1>10, <1>11 DEF InstallInv

(* The rollback is the installation the swap recorded, or the user's.       *)
LEMMA BackUpKeeps == ASSUME InstallInv, BackUp PROVE InstallInv'
<1> USE InstallAssumption
<1>0. InstallTypeOK /\ Suffered /\ Locals /\ Siblings /\ Wholes /\ Records /\ Lives /\ Finding
  BY DEF InstallInv
<1>1. /\ step = "backup" /\ step' = "promote"
      /\ rollback = None /\ rollback' = destination /\ destination' = None
      /\ UNCHANGED <<run, sibling, bound, whole, instBudget, instSuffered, found>>
  BY DEF BackUp, instLuck, instFiles
<1>2. run.txn \in InstallTxns /\ sibling[run.txn].kind = "transaction"
  BY <1>0, <1>1 DEF Locals, Siblings, InstallTypeOK, OrNone, Building, Swapping
<1>3. InstallTypeOK'
  BY <1>0, <1>1, <1>2 DEF InstallTypeOK, OrNone, Installations, InstallSteps, Resting, Inventory, Locals, Resting, Building, Restoring, Swapping, InstallTypeOK, OrNone, Installations
<1>4. Suffered'
  BY <1>0, <1>1, <1>2 DEF Suffered
<1>5. Locals'
  BY <1>0, <1>1, <1>2 DEF Locals, Resting, Building, Swapping, Restoring, Locals, Resting, Building, Restoring, Swapping, InstallTypeOK, OrNone, Installations
<1>6. Siblings'
  BY <1>0, <1>1, <1>2 DEF Siblings, Building, Swapping, NoSibling, Locals, Resting, Building, Restoring, Swapping, InstallTypeOK, OrNone, Installations
<1>7. Wholes'
  BY <1>0, <1>1, <1>2 DEF Wholes, Building, Nobody, Locals, Resting, Building, Restoring, Swapping, InstallTypeOK, OrNone, Installations
<1>8. Records'
  <2>1. destination \in Nobody \cup {bound[run.txn]} /\ sibling[run.txn].kind # None
    BY <1>0, <1>1, <1>2 DEF Records
  <2>2. RollbackOwned'
    BY <2>1, <1>0, <1>1, <1>2 DEF RollbackOwned, Nobody
  <2>3. \A x \in InstallTxns : sibling'[x].previous \in Nobody \cup {bound'[x]}
    BY <1>0, <1>1, <1>2 DEF Records
  <2>4. run.was /\ run' = run
    BY <1>0, <1>1, <1>2 DEF Locals, Records
  <2> QED BY <2>1, <2>2, <2>3, <2>4, <1>0, <1>1, <1>2 DEF Records, Building, Restoring
<1>9. Lives'
  BY <1>0, <1>1, <1>2 DEF Lives, Untouched, Locals, Resting, Building, Restoring, Swapping, InstallTypeOK, OrNone, Installations
<1>10. Finding'
  BY <1>0, <1>1, <1>2 DEF Finding, OneFailed, Untouched, Resting, Building, Restoring, Replaced, Previous, Staging, Locals, Resting, Building, Restoring, Swapping, InstallTypeOK, OrNone, Installations
<1> QED BY <1>3, <1>4, <1>5, <1>6, <1>7, <1>8, <1>9, <1>10 DEF InstallInv

(* What becomes live is whole.                                              *)
LEMMA PromoteStagingKeeps == ASSUME InstallInv, PromoteStaging PROVE InstallInv'
<1> USE InstallAssumption
<1>0. InstallTypeOK /\ Suffered /\ Locals /\ Siblings /\ Wholes /\ Records /\ Lives /\ Finding
  BY DEF InstallInv
<1>1. /\ step = "promote" /\ destination = None /\ step' = IF run.was THEN "commit" ELSE "committed"
      /\ destination' = sibling[run.txn].staging /\ sibling' = [sibling EXCEPT ![run.txn].staging = None]
      /\ UNCHANGED <<run, rollback, bound, whole, instBudget, instSuffered, found>>
  BY DEF PromoteStaging, instLuck, instFiles
<1>2. run.txn \in InstallTxns /\ sibling[run.txn].kind = "transaction"
  BY <1>0, <1>1 DEF Locals, Siblings, InstallTypeOK, OrNone, Building, Swapping
<1>3. /\ sibling' \in [InstallTxns -> Inventory] /\ Unlike(run.txn) /\ sibling'[run.txn].staging = None
      /\ sibling'[run.txn].kind = sibling[run.txn].kind
      /\ sibling'[run.txn].previous = sibling[run.txn].previous
  BY <1>0, <1>1, <1>2 DEF Unlike, Inventory, InstallTypeOK, OrNone, Installations
<1>4. InstallTypeOK'
  BY <1>0, <1>1, <1>2, <1>3 DEF InstallTypeOK, OrNone, Installations, InstallSteps, Resting, Inventory, Unlike, NoSibling, Locals, Resting, Building, Restoring, Swapping, InstallTypeOK, OrNone, Installations
<1>5. Suffered'
  BY <1>0, <1>1, <1>2, <1>3 DEF Suffered
<1>6. Locals'
  BY <1>0, <1>1, <1>2, <1>3 DEF Locals, Resting, Building, Swapping, Restoring, Unlike, NoSibling, Locals, Resting, Building, Restoring, Swapping, InstallTypeOK, OrNone, Installations
<1>7. Siblings'
  BY <1>0, <1>1, <1>2, <1>3 DEF Siblings, Building, Swapping, NoSibling, Unlike, NoSibling, Locals, Resting, Building, Restoring, Swapping, InstallTypeOK, OrNone, Installations
<1>8. Wholes'
  BY <1>0, <1>1, <1>2, <1>3 DEF Wholes, Building, Nobody, Unlike, NoSibling, Locals, Resting, Building, Restoring, Swapping, InstallTypeOK, OrNone, Installations
<1>9. Records'
  BY <1>0, <1>1, <1>2, <1>3 DEF Records, RollbackOwned, Building, Nobody, Unlike, NoSibling, Locals, Resting, Building, Restoring, Swapping, InstallTypeOK, OrNone, Installations
<1>10. Lives'
  BY <1>0, <1>1, <1>2, <1>3 DEF Lives, Untouched, Unlike, NoSibling, Locals, Resting, Building, Restoring, Swapping, InstallTypeOK, OrNone, Installations, Wholes, Siblings
<1>11. Finding'
  BY <1>0, <1>1, <1>2, <1>3 DEF Finding, OneFailed, Untouched, Resting, Building, Restoring, Replaced, Previous, Staging, Unlike, NoSibling, Locals, Resting, Building, Restoring, Swapping, InstallTypeOK, OrNone, Installations
<1> QED BY <1>4, <1>5, <1>6, <1>7, <1>8, <1>9, <1>10, <1>11 DEF InstallInv

(* The rollback goes to the sibling that recorded it.                       *)
LEMMA CommitSwapKeeps == ASSUME InstallInv, CommitSwap PROVE InstallInv'
<1> USE InstallAssumption
<1>0. InstallTypeOK /\ Suffered /\ Locals /\ Siblings /\ Wholes /\ Records /\ Lives /\ Finding
  BY DEF InstallInv
<1>1. /\ step = "commit" /\ step' = "committed"
      /\ sibling' = [sibling EXCEPT ![run.txn].previous = rollback] /\ rollback' = None
      /\ UNCHANGED <<run, destination, bound, whole, instBudget, instSuffered, found>>
  BY DEF CommitSwap, instLuck, instFiles
<1>2. run.txn \in InstallTxns /\ sibling[run.txn].kind = "transaction"
  BY <1>0, <1>1 DEF Locals, Siblings, InstallTypeOK, OrNone, Building, Swapping
<1>3. /\ sibling' \in [InstallTxns -> Inventory] /\ Unlike(run.txn) /\ sibling'[run.txn].previous = rollback
      /\ sibling'[run.txn].kind = sibling[run.txn].kind
      /\ sibling'[run.txn].staging = sibling[run.txn].staging
  BY <1>0, <1>1, <1>2 DEF Unlike, Inventory, InstallTypeOK, OrNone, Installations
<1>4. InstallTypeOK'
  BY <1>0, <1>1, <1>2, <1>3 DEF InstallTypeOK, OrNone, Installations, InstallSteps, Resting, Inventory, Unlike, NoSibling, Locals, Resting, Building, Restoring, Swapping, InstallTypeOK, OrNone, Installations
<1>5. Suffered'
  BY <1>0, <1>1, <1>2, <1>3 DEF Suffered
<1>6. Locals'
  BY <1>0, <1>1, <1>2, <1>3 DEF Locals, Resting, Building, Swapping, Restoring, Unlike, NoSibling, Locals, Resting, Building, Restoring, Swapping, InstallTypeOK, OrNone, Installations
<1>7. Siblings'
  BY <1>0, <1>1, <1>2, <1>3 DEF Siblings, Building, Swapping, NoSibling, Unlike, NoSibling, Locals, Resting, Building, Restoring, Swapping, InstallTypeOK, OrNone, Installations
<1>8. Wholes'
  BY <1>0, <1>1, <1>2, <1>3 DEF Wholes, Building, Nobody, Unlike, NoSibling, Locals, Resting, Building, Restoring, Swapping, InstallTypeOK, OrNone, Installations
<1>9. Records'
  BY <1>0, <1>1, <1>2, <1>3 DEF Records, RollbackOwned, Building, Nobody, Unlike, NoSibling, Locals, Resting, Building, Restoring, Swapping, InstallTypeOK, OrNone, Installations
<1>10. Lives'
  BY <1>0, <1>1, <1>2, <1>3 DEF Lives, Untouched, Unlike, NoSibling, Locals, Resting, Building, Restoring, Swapping, InstallTypeOK, OrNone, Installations
<1>11. Finding'
  BY <1>0, <1>1, <1>2, <1>3 DEF Finding, OneFailed, Untouched, Resting, Building, Restoring, Replaced, Previous, Staging, Unlike, NoSibling, Locals, Resting, Building, Restoring, Swapping, InstallTypeOK, OrNone, Installations
<1> QED BY <1>4, <1>5, <1>6, <1>7, <1>8, <1>9, <1>10, <1>11 DEF InstallInv

(* Past the try block nothing is undone.                                    *)
LEMMA LeaveTryKeeps == ASSUME InstallInv, LeaveTry PROVE InstallInv'
<1> USE InstallAssumption
<1>0. InstallTypeOK /\ Suffered /\ Locals /\ Siblings /\ Wholes /\ Records /\ Lives /\ Finding
  BY DEF InstallInv
<1>1. /\ step = "committed" /\ step' = IF run.was THEN "remove" ELSE "cleanup"
      /\ UNCHANGED <<run, destination, rollback, sibling, bound, whole, instBudget, instSuffered, found>>
  BY DEF LeaveTry, instLuck, instFiles
<1>2. run.txn \in InstallTxns /\ sibling[run.txn].kind = "transaction"
  BY <1>0, <1>1 DEF Locals, Siblings, InstallTypeOK, OrNone, Building, Swapping
<1>3. InstallTypeOK'
  BY <1>0, <1>1, <1>2 DEF InstallTypeOK, OrNone, Installations, InstallSteps, Resting, Inventory, Locals, Resting, Building, Restoring, Swapping, InstallTypeOK, OrNone, Installations
<1>4. Suffered'
  BY <1>0, <1>1, <1>2 DEF Suffered
<1>5. Locals'
  BY <1>0, <1>1, <1>2 DEF Locals, Resting, Building, Swapping, Restoring, Locals, Resting, Building, Restoring, Swapping, InstallTypeOK, OrNone, Installations
<1>6. Siblings'
  BY <1>0, <1>1, <1>2 DEF Siblings, Building, Swapping, NoSibling, Locals, Resting, Building, Restoring, Swapping, InstallTypeOK, OrNone, Installations
<1>7. Wholes'
  BY <1>0, <1>1, <1>2 DEF Wholes, Building, Nobody, Locals, Resting, Building, Restoring, Swapping, InstallTypeOK, OrNone, Installations
<1>8. Records'
  BY <1>0, <1>1, <1>2 DEF Records, RollbackOwned, Building, Nobody, Locals, Resting, Building, Restoring, Swapping, InstallTypeOK, OrNone, Installations
<1>9. Lives'
  BY <1>0, <1>1, <1>2 DEF Lives, Untouched, Locals, Resting, Building, Restoring, Swapping, InstallTypeOK, OrNone, Installations
<1>10. Finding'
  BY <1>0, <1>1, <1>2 DEF Finding, OneFailed, Untouched, Resting, Building, Restoring, Replaced, Previous, Staging, Locals, Resting, Building, Restoring, Swapping, InstallTypeOK, OrNone, Installations
<1> QED BY <1>3, <1>4, <1>5, <1>6, <1>7, <1>8, <1>9, <1>10 DEF InstallInv

(* Only the replaced installation is removed.                               *)
LEMMA RemovePreviousKeeps == ASSUME InstallInv, RemovePrevious PROVE InstallInv'
<1> USE InstallAssumption
<1>0. InstallTypeOK /\ Suffered /\ Locals /\ Siblings /\ Wholes /\ Records /\ Lives /\ Finding
  BY DEF InstallInv
<1>1. /\ step = "remove" /\ step' = "cleanup"
      /\ sibling' = [sibling EXCEPT ![run.txn].previous = None]
      /\ UNCHANGED <<run, destination, rollback, bound, whole, instBudget, instSuffered, found>>
  BY DEF RemovePrevious, instLuck, instFiles
<1>2. run.txn \in InstallTxns /\ sibling[run.txn].kind = "transaction"
  BY <1>0, <1>1 DEF Locals, Siblings, InstallTypeOK, OrNone, Building, Swapping
<1>3. /\ sibling' \in [InstallTxns -> Inventory] /\ Unlike(run.txn) /\ sibling'[run.txn].previous = None
      /\ sibling'[run.txn].kind = sibling[run.txn].kind
      /\ sibling'[run.txn].staging = sibling[run.txn].staging
  BY <1>0, <1>1, <1>2 DEF Unlike, Inventory, InstallTypeOK, OrNone, Installations
<1>4. InstallTypeOK'
  BY <1>0, <1>1, <1>2, <1>3 DEF InstallTypeOK, OrNone, Installations, InstallSteps, Resting, Inventory, Unlike, NoSibling, Locals, Resting, Building, Restoring, Swapping, InstallTypeOK, OrNone, Installations
<1>5. Suffered'
  BY <1>0, <1>1, <1>2, <1>3 DEF Suffered
<1>6. Locals'
  BY <1>0, <1>1, <1>2, <1>3 DEF Locals, Resting, Building, Swapping, Restoring, Unlike, NoSibling, Locals, Resting, Building, Restoring, Swapping, InstallTypeOK, OrNone, Installations
<1>7. Siblings'
  BY <1>0, <1>1, <1>2, <1>3 DEF Siblings, Building, Swapping, NoSibling, Unlike, NoSibling, Locals, Resting, Building, Restoring, Swapping, InstallTypeOK, OrNone, Installations
<1>8. Wholes'
  BY <1>0, <1>1, <1>2, <1>3 DEF Wholes, Building, Nobody, Unlike, NoSibling, Locals, Resting, Building, Restoring, Swapping, InstallTypeOK, OrNone, Installations
<1>9. Records'
  BY <1>0, <1>1, <1>2, <1>3 DEF Records, RollbackOwned, Building, Nobody, Unlike, NoSibling, Locals, Resting, Building, Restoring, Swapping, InstallTypeOK, OrNone, Installations
<1>10. Lives'
  BY <1>0, <1>1, <1>2, <1>3 DEF Lives, Untouched, Unlike, NoSibling, Locals, Resting, Building, Restoring, Swapping, InstallTypeOK, OrNone, Installations
<1>11. Finding'
  BY <1>0, <1>1, <1>2, <1>3 DEF Finding, OneFailed, Untouched, Resting, Building, Restoring, Replaced, Previous, Staging, Unlike, NoSibling, Locals, Resting, Building, Restoring, Swapping, InstallTypeOK, OrNone, Installations
<1> QED BY <1>4, <1>5, <1>6, <1>7, <1>8, <1>9, <1>10, <1>11 DEF InstallInv

(* An undone commit leaves a rollback that its sibling recorded.            *)
LEMMA UndoCommitKeeps == ASSUME InstallInv, step = "undo", run.was, rollback = None, sibling[run.txn].previous # None,
           rollback' = sibling[run.txn].previous,
           sibling' = [sibling EXCEPT ![run.txn].previous = None],
           UNCHANGED <<step, run, destination, bound, whole, instBudget, instSuffered, found>> PROVE InstallInv'
<1> USE InstallAssumption
<1>0. InstallTypeOK /\ Suffered /\ Locals /\ Siblings /\ Wholes /\ Records /\ Lives /\ Finding
  BY DEF InstallInv
<1>1. /\ step = "undo" /\ rollback = None /\ rollback' = sibling[run.txn].previous
      /\ UNCHANGED <<step, run, destination, bound, whole, instBudget, instSuffered, found>>
  OBVIOUS
<1>2. run.txn \in InstallTxns /\ sibling[run.txn].kind = "transaction"
  BY <1>0, <1>1 DEF Locals, Siblings, InstallTypeOK, OrNone
<1>3. /\ sibling' \in [InstallTxns -> Inventory] /\ Unlike(run.txn) /\ sibling'[run.txn].previous = None
      /\ sibling'[run.txn].kind = sibling[run.txn].kind
      /\ sibling'[run.txn].staging = sibling[run.txn].staging
  BY <1>0, <1>1, <1>2 DEF Unlike, Inventory, InstallTypeOK, OrNone, Installations
<1>4. InstallTypeOK'
  BY <1>0, <1>1, <1>2, <1>3 DEF InstallTypeOK, OrNone, Installations, InstallSteps, Resting, Inventory, Unlike, Locals, Resting, Building, Restoring, Swapping, InstallTypeOK, OrNone, Installations
<1>5. Suffered'
  BY <1>0, <1>1, <1>2, <1>3 DEF Suffered
<1>6. Locals'
  BY <1>0, <1>1, <1>2, <1>3 DEF Locals, Resting, Building, Swapping, Restoring, Unlike, Locals, Resting, Building, Restoring, Swapping, InstallTypeOK, OrNone, Installations
<1>7. Siblings'
  BY <1>0, <1>1, <1>2, <1>3 DEF Siblings, Building, Swapping, NoSibling, Unlike, Locals, Resting, Building, Restoring, Swapping, InstallTypeOK, OrNone, Installations
<1>8. Wholes'
  BY <1>0, <1>1, <1>2, <1>3 DEF Wholes, Building, Nobody, Unlike, Locals, Resting, Building, Restoring, Swapping, InstallTypeOK, OrNone, Installations
<1>9. Records'
  BY <1>0, <1>1, <1>2, <1>3 DEF Records, RollbackOwned, Building, Nobody, Unlike, Locals, Resting, Building, Restoring, Swapping, InstallTypeOK, OrNone, Installations
<1>10. Lives'
  BY <1>0, <1>1, <1>2, <1>3 DEF Lives, Untouched, Unlike, Locals, Resting, Building, Restoring, Swapping, InstallTypeOK, OrNone, Installations
<1>11. Finding'
  <2>1. OneFailed' => OneFailed
    BY <1>0, <1>1, <1>2, <1>3 DEF OneFailed, Untouched
  <2>2. OneFailed => Replaced /\ Previous = found /\ (run.ok \/ instSuffered["fails"] = 1)
    BY <1>0, <1>1, <1>2, <1>3 DEF Finding, Replaced, Previous
  <2>3. Replaced' = Replaced
    BY <1>0, <1>1, <1>2, <1>3 DEF Replaced
  <2>4. SUFFICES ASSUME OneFailed' PROVE Finding'
    BY DEF Finding
  <2>5. step' = "undo" /\ Replaced' /\ rollback' = found' /\ (run'.ok \/ instSuffered'["fails"] = 1)
    BY <1>0, <1>1, <1>2, <1>3, <2>1, <2>2, <2>3, <2>4 DEF Previous
  <2> QED BY <2>5 DEF Finding, Resting, Building, Restoring
<1> QED BY <1>4, <1>5, <1>6, <1>7, <1>8, <1>9, <1>10, <1>11 DEF InstallInv

(* What was replaced is restored if this swap recorded it.                  *)
LEMMA UndoBackUpKeeps == ASSUME InstallInv, step = "undo", run.was, rollback # None,
           IF Owned(run.txn) THEN step' = "restore" /\ Set("back", "cleanup") ELSE step' = "cleanup" /\ run' = run,
           UNCHANGED <<destination, rollback, sibling, bound, whole, instBudget, instSuffered, found>> PROVE InstallInv'
<1> USE InstallAssumption
<1>0. InstallTypeOK /\ Suffered /\ Locals /\ Siblings /\ Wholes /\ Records /\ Lives /\ Finding
  BY DEF InstallInv
<1>1. /\ step = "undo" /\ rollback # None /\ ~run.ok /\ run.rec = None /\ UNCHANGED <<destination, rollback, sibling, bound, whole, instBudget, instSuffered, found>>
  BY <1>0 DEF Locals
<1>2. run.txn \in InstallTxns /\ sibling[run.txn].kind = "transaction"
  BY <1>0, <1>1 DEF Locals, Siblings, InstallTypeOK, OrNone
<1>3. \/ step' = "restore" /\ run' = [run EXCEPT !.back = "cleanup"] /\ bound[run.txn] = rollback
      \/ step' = "cleanup" /\ run' = run /\ bound[run.txn] # rollback
  BY DEF Set, Owned
<1>4. InstallTypeOK'
  BY <1>0, <1>1, <1>2, <1>3 DEF InstallTypeOK, OrNone, Installations, InstallSteps, Resting, Inventory, Locals, Resting, Building, Restoring, Swapping, InstallTypeOK, OrNone, Installations
<1>5. Suffered'
  BY <1>0, <1>1, <1>2, <1>3 DEF Suffered
<1>6. Locals'
  BY <1>0, <1>1, <1>2, <1>3 DEF Locals, Resting, Building, Swapping, Restoring, Locals, Resting, Building, Restoring, Swapping, InstallTypeOK, OrNone, Installations
<1>7. Siblings'
  BY <1>0, <1>1, <1>2, <1>3 DEF Siblings, Building, Swapping, NoSibling, Locals, Resting, Building, Restoring, Swapping, InstallTypeOK, OrNone, Installations
<1>8. Wholes'
  BY <1>0, <1>1, <1>2, <1>3 DEF Wholes, Building, Nobody, Locals, Resting, Building, Restoring, Swapping, InstallTypeOK, OrNone, Installations
<1>9. Records'
  BY <1>0, <1>1, <1>2, <1>3 DEF Records, RollbackOwned, Building, Nobody, Locals, Resting, Building, Restoring, Swapping, InstallTypeOK, OrNone, Installations
<1>10. Lives'
  BY <1>0, <1>1, <1>2, <1>3 DEF Lives, Untouched, Locals, Resting, Building, Restoring, Swapping, InstallTypeOK, OrNone, Installations
<1>11. Finding'
  BY <1>0, <1>1, <1>2, <1>3 DEF Finding, OneFailed, Untouched, Resting, Building, Restoring, Replaced, Previous, Staging, Locals, Resting, Building, Restoring, Swapping, InstallTypeOK, OrNone, Installations
<1> QED BY <1>4, <1>5, <1>6, <1>7, <1>8, <1>9, <1>10, <1>11 DEF InstallInv

(* Nothing was moved yet.                                                   *)
LEMMA UndoNothingKeeps == ASSUME InstallInv, step = "undo", run.was, rollback = None, sibling[run.txn].previous = None,
           step' = "cleanup", UNCHANGED <<run, destination, rollback, sibling, bound, whole, instBudget, instSuffered, found>> PROVE InstallInv'
<1> USE InstallAssumption
<1>0. InstallTypeOK /\ Suffered /\ Locals /\ Siblings /\ Wholes /\ Records /\ Lives /\ Finding
  BY DEF InstallInv
<1>1. /\ step = "undo" /\ ~run.ok /\ run.rec = None
  BY <1>0 DEF Locals
<1>2. run.txn \in InstallTxns /\ sibling[run.txn].kind = "transaction"
  BY <1>0, <1>1 DEF Locals, Siblings, InstallTypeOK, OrNone
<1>3. InstallTypeOK'
  BY <1>0, <1>1, <1>2 DEF InstallTypeOK, OrNone, Installations, InstallSteps, Resting, Inventory, Locals, Resting, Building, Restoring, Swapping, InstallTypeOK, OrNone, Installations
<1>4. Suffered'
  BY <1>0, <1>1, <1>2 DEF Suffered
<1>5. Locals'
  BY <1>0, <1>1, <1>2 DEF Locals, Resting, Building, Swapping, Restoring, Locals, Resting, Building, Restoring, Swapping, InstallTypeOK, OrNone, Installations
<1>6. Siblings'
  BY <1>0, <1>1, <1>2 DEF Siblings, Building, Swapping, NoSibling, Locals, Resting, Building, Restoring, Swapping, InstallTypeOK, OrNone, Installations
<1>7. Wholes'
  BY <1>0, <1>1, <1>2 DEF Wholes, Building, Nobody, Locals, Resting, Building, Restoring, Swapping, InstallTypeOK, OrNone, Installations
<1>8. Records'
  BY <1>0, <1>1, <1>2 DEF Records, RollbackOwned, Building, Nobody, Locals, Resting, Building, Restoring, Swapping, InstallTypeOK, OrNone, Installations
<1>9. Lives'
  BY <1>0, <1>1, <1>2 DEF Lives, Untouched, Locals, Resting, Building, Restoring, Swapping, InstallTypeOK, OrNone, Installations
<1>10. Finding'
  BY <1>0, <1>1, <1>2 DEF Finding, OneFailed, Untouched, Resting, Building, Restoring, Replaced, Previous, Staging, Locals, Resting, Building, Restoring, Swapping, InstallTypeOK, OrNone, Installations
<1> QED BY <1>3, <1>4, <1>5, <1>6, <1>7, <1>8, <1>9, <1>10 DEF InstallInv

(* A first installation is taken back.                                      *)
LEMMA UndoPromoteKeeps == ASSUME InstallInv, step = "undo", ~run.was, step' = "cleanup",
           IF destination # None /\ sibling[run.txn].staging = None
           THEN sibling' = [sibling EXCEPT ![run.txn].staging = destination] /\ destination' = None
           ELSE UNCHANGED <<sibling, destination>>,
           UNCHANGED <<run, rollback, bound, whole, instBudget, instSuffered, found>> PROVE InstallInv'
<1> USE InstallAssumption
<1>0. InstallTypeOK /\ Suffered /\ Locals /\ Siblings /\ Wholes /\ Records /\ Lives /\ Finding
  BY DEF InstallInv
<1>1. /\ step = "undo" /\ ~run.ok /\ run.rec = None /\ UNCHANGED <<run, rollback, bound, whole, instBudget, instSuffered, found>>
  BY <1>0 DEF Locals
<1>2. run.txn \in InstallTxns /\ sibling[run.txn].kind = "transaction"
  BY <1>0, <1>1 DEF Locals, Siblings, InstallTypeOK, OrNone
<1>3. /\ sibling' \in [InstallTxns -> Inventory] /\ Unlike(run.txn)
      /\ sibling'[run.txn].kind = sibling[run.txn].kind
      /\ sibling'[run.txn].previous = sibling[run.txn].previous
      /\ destination' \in {destination, None}
      /\ destination' = destination \/ sibling[run.txn].staging = None
      /\ sibling[run.txn].staging = None => destination' = None
  BY <1>0, <1>1, <1>2 DEF Unlike, Inventory, InstallTypeOK, OrNone, Installations
<1>4. InstallTypeOK'
  BY <1>0, <1>1, <1>2, <1>3 DEF InstallTypeOK, OrNone, Installations, InstallSteps, Resting, Inventory, Unlike, Locals, Resting, Building, Restoring, Swapping, InstallTypeOK, OrNone, Installations
<1>5. Suffered'
  BY <1>0, <1>1, <1>2, <1>3 DEF Suffered
<1>6. Locals'
  BY <1>0, <1>1, <1>2, <1>3 DEF Locals, Resting, Building, Swapping, Restoring, Unlike, Locals, Resting, Building, Restoring, Swapping, InstallTypeOK, OrNone, Installations
<1>7. Siblings'
  BY <1>0, <1>1, <1>2, <1>3 DEF Siblings, Building, Swapping, NoSibling, Unlike, Locals, Resting, Building, Restoring, Swapping, InstallTypeOK, OrNone, Installations
<1>8. Wholes'
  BY <1>0, <1>1, <1>2, <1>3 DEF Wholes, Building, Nobody, Unlike, Locals, Resting, Building, Restoring, Swapping, InstallTypeOK, OrNone, Installations
<1>9. Records'
  BY <1>0, <1>1, <1>2, <1>3 DEF Records, RollbackOwned, Building, Nobody, Unlike, Locals, Resting, Building, Restoring, Swapping, InstallTypeOK, OrNone, Installations
<1>10. Lives'
  BY <1>0, <1>1, <1>2, <1>3 DEF Lives, Untouched, Unlike, Locals, Resting, Building, Restoring, Swapping, InstallTypeOK, OrNone, Installations
<1>11. Finding'
  BY <1>0, <1>1, <1>2, <1>3 DEF Finding, OneFailed, Untouched, Resting, Building, Restoring, Replaced, Previous, Staging, Unlike, Locals, Resting, Building, Restoring, Swapping, InstallTypeOK, OrNone, Installations
<1> QED BY <1>4, <1>5, <1>6, <1>7, <1>8, <1>9, <1>10, <1>11 DEF InstallInv

(* The sibling that recorded a rollback stays as long as the rollback.      *)
LEMMA CleanupInstallKeeps == ASSUME InstallInv, CleanupInstall PROVE InstallInv'
<1> USE InstallAssumption
<1>0. InstallTypeOK /\ Suffered /\ Locals /\ Siblings /\ Wholes /\ Records /\ Lives /\ Finding
  BY DEF InstallInv
<1>1. /\ step = "cleanup" /\ step' = IF run.ok THEN "done" ELSE "failed"
      /\ run' = NoRun /\ NoRun.txn = None /\ NoRun.rec = None /\ NoRun.ok /\ ~NoRun.was /\ RunTyped'
      /\ UNCHANGED <<destination, rollback, whole, instBudget, instSuffered, found>>
  BY DEF CleanupInstall, instLuck, NoRun, RunTyped, OrNone
<1>2. run.txn \in InstallTxns /\ sibling[run.txn].kind = "transaction"
  BY <1>0, <1>1 DEF Locals, Siblings, InstallTypeOK, OrNone
<1>3. NoSibling.kind = None /\ NoSibling.previous = None
  BY DEF NoSibling
<1>4. /\ Unlike(run.txn) /\ sibling' \in [InstallTxns -> Inventory] /\ bound' \in [InstallTxns -> OrNone(Installations)]
      /\ \A y \in InstallTxns \ {run.txn} : bound'[y] = bound[y]
      /\ IF rollback = None THEN sibling'[run.txn] = NoSibling /\ bound'[run.txn] = None
         ELSE UNCHANGED <<sibling, bound>>
  BY <1>0, <1>2, Gone DEF CleanupInstall, Unlike, InstallTypeOK, Inventory
<1>5. InstallTypeOK'
  BY <1>0, <1>1, <1>2, <1>3, <1>4 DEF InstallTypeOK, OrNone, Installations, InstallSteps, Resting, Inventory, RunTyped, Unlike, Locals, Resting, Building, Restoring, Swapping, InstallTypeOK, OrNone, Installations
<1>6. Suffered'
  BY <1>0, <1>1, <1>2, <1>3, <1>4 DEF Suffered
<1>7. Locals'
  BY <1>0, <1>1, <1>2, <1>3, <1>4 DEF Locals, Resting, Building, Swapping, Restoring, RunTyped, Unlike, Locals, Resting, Building, Restoring, Swapping, InstallTypeOK, OrNone, Installations
<1>8. Siblings'
  BY <1>0, <1>1, <1>2, <1>3, <1>4 DEF Siblings, Building, Swapping, NoSibling, RunTyped, Unlike, Locals, Resting, Building, Restoring, Swapping, InstallTypeOK, OrNone, Installations
<1>9. Wholes'
  BY <1>0, <1>1, <1>2, <1>3, <1>4 DEF Wholes, Building, Nobody, RunTyped, Unlike, Locals, Resting, Building, Restoring, Swapping, InstallTypeOK, OrNone, Installations
<1>10. Records'
  BY <1>0, <1>1, <1>2, <1>3, <1>4 DEF Records, RollbackOwned, Building, Nobody, RunTyped, Unlike, Locals, Resting, Building, Restoring, Swapping, InstallTypeOK, OrNone, Installations
<1>11. Lives'
  <2>1. CASE ~run.ok
    BY <1>0, <1>1, <1>2, <1>3, <1>4, <2>1 DEF Lives, Untouched, Unlike, NoSibling
  <2>2. CASE run.ok /\ Untouched
    <3>1. rollback = None /\ destination \in whole
      BY <1>0, <1>1, <1>2, <1>3, <1>4, <2>2 DEF Lives, Records, Nobody
    <3>2. \A x \in InstallTxns : sibling'[x] = NoSibling
      BY <1>0, <1>1, <1>2, <1>3, <1>4, <2>2, <3>1 DEF Siblings, Unlike
    <3> QED BY <1>0, <1>1, <1>2, <1>3, <1>4, <2>2, <3>1, <3>2 DEF Lives, Untouched
  <2>3. CASE ~Untouched
    BY <1>0, <1>1, <1>2, <1>3, <1>4, <2>3 DEF Lives, Untouched
  <2> QED BY <2>1, <2>2, <2>3
<1>12. Finding'
  BY <1>0, <1>1, <1>2, <1>3, <1>4 DEF Finding, OneFailed, Untouched, Resting, Building, Restoring, Replaced, Previous, Staging, RunTyped, Unlike, Locals, Resting, Building, Restoring, Swapping, InstallTypeOK, OrNone, Installations
<1> QED BY <1>5, <1>6, <1>7, <1>8, <1>9, <1>10, <1>11, <1>12 DEF InstallInv

(* A run begins with what is live.                                          *)
LEMMA StartInstallKeeps == ASSUME InstallInv, StartInstall PROVE InstallInv'
<1> USE InstallAssumption
<1>0. InstallTypeOK /\ Suffered /\ Locals /\ Siblings /\ Wholes /\ Records /\ Lives /\ Finding
  BY DEF InstallInv
<1>1. /\ step \in Resting /\ step' = "recover" /\ UNCHANGED <<destination, rollback, sibling, bound, whole>>
      /\ run' = NoRun /\ NoRun.txn = None /\ NoRun.rec = None /\ NoRun.ok /\ ~NoRun.was /\ RunTyped'
  BY DEF StartInstall, instFiles, NoRun, RunTyped, OrNone
<1>2. /\ Suffered' /\ instSuffered'["installs"] = instSuffered["installs"] + 1 /\ instBudget' # instBudget
      /\ \A k \in Accidents \ {"installs"} : instSuffered'[k] = instSuffered[k]
      /\ instSuffered \in [Accidents -> Nat]
      /\ found' = destination
  BY <1>0, Befallen DEF StartInstall, Accidents, Suffered
<1>3. InstallTypeOK'
  BY <1>0, <1>1, <1>2 DEF InstallTypeOK, OrNone, Installations, InstallSteps, Resting, Inventory, RunTyped, Accidents, Locals, Resting, Building, Restoring, Swapping, InstallTypeOK, OrNone, Installations
<1>4. Suffered'
  BY <1>0, <1>1, <1>2 DEF Suffered
<1>5. Locals'
  BY <1>0, <1>1, <1>2 DEF Locals, Resting, Building, Swapping, Restoring, RunTyped, Accidents, Locals, Resting, Building, Restoring, Swapping, InstallTypeOK, OrNone, Installations
<1>6. Siblings'
  BY <1>0, <1>1, <1>2 DEF Siblings, Building, Swapping, NoSibling, RunTyped, Accidents, Locals, Resting, Building, Restoring, Swapping, InstallTypeOK, OrNone, Installations
<1>7. Wholes'
  BY <1>0, <1>1, <1>2 DEF Wholes, Building, Nobody, RunTyped, Accidents, Locals, Resting, Building, Restoring, Swapping, InstallTypeOK, OrNone, Installations
<1>8. Records'
  BY <1>0, <1>1, <1>2 DEF Records, RollbackOwned, Building, Nobody, RunTyped, Accidents, Locals, Resting, Building, Restoring, Swapping, InstallTypeOK, OrNone, Installations
<1>9. Lives'
  BY <1>0, <1>1, <1>2 DEF Lives, Untouched, RunTyped, Accidents, Locals, Resting, Building, Restoring, Swapping, InstallTypeOK, OrNone, Installations
<1>10. Finding'
  BY <1>0, <1>1, <1>2 DEF Finding, OneFailed, Untouched, Resting, Building, Restoring, Replaced, Previous, Staging, RunTyped, Accidents, Locals, Resting, Building, Restoring, Swapping, InstallTypeOK, OrNone, Installations
<1> QED BY <1>3, <1>4, <1>5, <1>6, <1>7, <1>8, <1>9, <1>10 DEF InstallInv

(* A killed run leaves its siblings behind.                                 *)
LEMMA InstallerKilledKeeps == ASSUME InstallInv, InstallerKilled PROVE InstallInv'
<1> USE InstallAssumption
<1>0. InstallTypeOK /\ Suffered /\ Locals /\ Siblings /\ Wholes /\ Records /\ Lives /\ Finding
  BY DEF InstallInv
<1>1. /\ step \notin Resting /\ step' = "failed" /\ UNCHANGED <<destination, rollback, sibling, bound, whole>>
      /\ run' = NoRun /\ NoRun.txn = None /\ NoRun.rec = None /\ NoRun.ok /\ ~NoRun.was /\ RunTyped'
  BY DEF InstallerKilled, instFiles, NoRun, RunTyped, OrNone
<1>2. /\ Suffered' /\ instSuffered'["kills"] = instSuffered["kills"] + 1 /\ instBudget' # instBudget
      /\ \A k \in Accidents \ {"kills"} : instSuffered'[k] = instSuffered[k]
      /\ instSuffered \in [Accidents -> Nat]
      /\ found' = found
  BY <1>0, Befallen DEF InstallerKilled, Accidents, Suffered
<1>3. InstallTypeOK'
  BY <1>0, <1>1, <1>2 DEF InstallTypeOK, OrNone, Installations, InstallSteps, Resting, Inventory, RunTyped, Accidents, Locals, Resting, Building, Restoring, Swapping, InstallTypeOK, OrNone, Installations
<1>4. Suffered'
  BY <1>0, <1>1, <1>2 DEF Suffered
<1>5. Locals'
  BY <1>0, <1>1, <1>2 DEF Locals, Resting, Building, Swapping, Restoring, RunTyped, Accidents, Locals, Resting, Building, Restoring, Swapping, InstallTypeOK, OrNone, Installations
<1>6. Siblings'
  BY <1>0, <1>1, <1>2 DEF Siblings, Building, Swapping, NoSibling, RunTyped, Accidents, Locals, Resting, Building, Restoring, Swapping, InstallTypeOK, OrNone, Installations
<1>7. Wholes'
  BY <1>0, <1>1, <1>2 DEF Wholes, Building, Nobody, RunTyped, Accidents, Locals, Resting, Building, Restoring, Swapping, InstallTypeOK, OrNone, Installations
<1>8. Records'
  BY <1>0, <1>1, <1>2 DEF Records, RollbackOwned, Building, Nobody, RunTyped, Accidents, Locals, Resting, Building, Restoring, Swapping, InstallTypeOK, OrNone, Installations
<1>9. Lives'
  BY <1>0, <1>1, <1>2 DEF Lives, Untouched, RunTyped, Accidents, Locals, Resting, Building, Restoring, Swapping, InstallTypeOK, OrNone, Installations
<1>10. Finding'
  BY <1>0, <1>1, <1>2 DEF Finding, OneFailed, Untouched, Resting, Building, Restoring, Replaced, Previous, Staging, RunTyped, Accidents, Locals, Resting, Building, Restoring, Swapping, InstallTypeOK, OrNone, Installations
<1> QED BY <1>3, <1>4, <1>5, <1>6, <1>7, <1>8, <1>9, <1>10 DEF InstallInv

(* The user puts or removes only what is the user's.                        *)
LEMMA UserInterferesKeeps == ASSUME InstallInv, UserInterferes PROVE InstallInv'
<1> USE InstallAssumption
<1>0. InstallTypeOK /\ Suffered /\ Locals /\ Siblings /\ Wholes /\ Records /\ Lives /\ Finding
  BY DEF InstallInv
<1>1. /\ UNCHANGED <<step, run, sibling, bound, whole>>
      /\ \/ destination' \in Nobody /\ rollback' = rollback
         \/ rollback' = Stranger /\ rollback = None /\ destination' = destination
  BY DEF UserInterferes, Nobody
<1>2. /\ Suffered' /\ instSuffered'["edits"] = instSuffered["edits"] + 1 /\ instBudget' # instBudget
      /\ \A k \in Accidents \ {"edits"} : instSuffered'[k] = instSuffered[k]
      /\ instSuffered \in [Accidents -> Nat]
      /\ found' = found
  BY <1>0, Befallen DEF UserInterferes, Accidents, Suffered
<1>3. InstallTypeOK'
  BY <1>0, <1>1, <1>2 DEF InstallTypeOK, OrNone, Installations, InstallSteps, Resting, Inventory, Accidents, Locals, Resting, Building, Restoring, Swapping, InstallTypeOK, OrNone, Installations, Nobody
<1>4. Suffered'
  BY <1>0, <1>1, <1>2 DEF Suffered
<1>5. Locals'
  BY <1>0, <1>1, <1>2 DEF Locals, Resting, Building, Swapping, Restoring, Accidents, Locals, Resting, Building, Restoring, Swapping, InstallTypeOK, OrNone, Installations
<1>6. Siblings'
  BY <1>0, <1>1, <1>2 DEF Siblings, Building, Swapping, NoSibling, Accidents, Locals, Resting, Building, Restoring, Swapping, InstallTypeOK, OrNone, Installations
<1>7. Wholes'
  BY <1>0, <1>1, <1>2 DEF Wholes, Building, Nobody, Accidents, Locals, Resting, Building, Restoring, Swapping, InstallTypeOK, OrNone, Installations
<1>8. Records'
  BY <1>0, <1>1, <1>2 DEF Records, RollbackOwned, Building, Nobody, Accidents, Locals, Resting, Building, Restoring, Swapping, InstallTypeOK, OrNone, Installations
<1>9. Lives'
  BY <1>0, <1>1, <1>2 DEF Lives, Untouched, Accidents, Locals, Resting, Building, Restoring, Swapping, InstallTypeOK, OrNone, Installations
<1>10. Finding'
  BY <1>0, <1>1, <1>2 DEF Finding, OneFailed, Untouched, Resting, Building, Restoring, Replaced, Previous, Staging, Accidents, Locals, Resting, Building, Restoring, Swapping, InstallTypeOK, OrNone, Installations
<1> QED BY <1>3, <1>4, <1>5, <1>6, <1>7, <1>8, <1>9, <1>10 DEF InstallInv

(* A rename that is blocked leads where its failure does.                   *)
LEMMA StepBlockedKeeps == ASSUME InstallInv, StepBlocked PROVE InstallInv'
<1> USE InstallAssumption
<1>0. InstallTypeOK /\ Suffered /\ Locals /\ Siblings /\ Wholes /\ Records /\ Lives /\ Finding
  BY DEF InstallInv
<1>1. /\ \/ step = "backup" /\ rollback # None /\ step' = "undo"
         \/ step = "promote" /\ destination # None /\ step' = "undo"
         \/ step = "put_back" /\ destination # None /\ step' = "end_recovery"
      /\ run' = [run EXCEPT !.ok = FALSE] /\ UNCHANGED <<destination, rollback, sibling, bound, whole, instBudget, instSuffered, found>>
  BY DEF StepBlocked, Set, Handler, instFiles, instLuck
<1>2. InstallTypeOK'
  BY <1>0, <1>1 DEF InstallTypeOK, OrNone, Installations, InstallSteps, Resting, Inventory, Locals, Resting, Building, Restoring, Swapping, InstallTypeOK, OrNone, Installations
<1>3. Suffered'
  BY <1>0, <1>1 DEF Suffered
<1>4. Locals'
  BY <1>0, <1>1 DEF Locals, Resting, Building, Swapping, Restoring, Locals, Resting, Building, Restoring, Swapping, InstallTypeOK, OrNone, Installations
<1>5. Siblings'
  BY <1>0, <1>1 DEF Siblings, Building, Swapping, NoSibling, Locals, Resting, Building, Restoring, Swapping, InstallTypeOK, OrNone, Installations
<1>6. Wholes'
  BY <1>0, <1>1 DEF Wholes, Building, Nobody, Locals, Resting, Building, Restoring, Swapping, InstallTypeOK, OrNone, Installations
<1>7. Records'
  BY <1>0, <1>1 DEF Records, RollbackOwned, Building, Nobody, Locals, Resting, Building, Restoring, Swapping, InstallTypeOK, OrNone, Installations
<1>8. Lives'
  BY <1>0, <1>1 DEF Lives, Untouched, Locals, Resting, Building, Restoring, Swapping, InstallTypeOK, OrNone, Installations
<1>9. Finding'
  <2>1. ~OneFailed'
    BY <1>0, <1>1 DEF Lives, Records, Finding, OneFailed, Untouched, Nobody
  <2> QED BY <2>1 DEF Finding
<1> QED BY <1>2, <1>3, <1>4, <1>5, <1>6, <1>7, <1>8, <1>9 DEF InstallInv

(* A failed operation leads to the cleanup it needs.                        *)
LEMMA StepFailsKeeps == ASSUME InstallInv, StepFails PROVE InstallInv'
<1> USE InstallAssumption
<1>0. InstallTypeOK /\ Suffered /\ Locals /\ Siblings /\ Wholes /\ Records /\ Lives /\ Finding
  BY DEF InstallInv
<1>1. /\ step \notin Resting /\ step' = Handler(step) /\ UNCHANGED <<destination, rollback, sibling, bound, whole>>
      /\ run' = CASE step' = "failed" -> NoRun
                 [] step = "end_recovery" /\ step' # "failed" -> [run EXCEPT !.rec = None]
                 [] OTHER -> [run EXCEPT !.ok = FALSE]
      /\ NoRun.txn = None /\ NoRun.rec = None /\ NoRun.ok /\ ~NoRun.was
  BY DEF StepFails, instFiles, NoRun
<1>2. /\ Suffered' /\ instSuffered'["fails"] = instSuffered["fails"] + 1 /\ instBudget' # instBudget
      /\ \A k \in Accidents \ {"fails"} : instSuffered'[k] = instSuffered[k]
      /\ instSuffered \in [Accidents -> Nat]
      /\ found' = found
  BY <1>0, Befallen DEF StepFails, Accidents, Suffered
<1>3. \/ /\ step \in {"recover", "sweep", "cleanup"} \/ (step \in {"restore", "end_recovery"} /\ run.back = "sweep" /\ (step = "restore" \/ ~run.ok))
         /\ step' = "failed" /\ run' = NoRun
      \/ step = "restore" /\ run.back = "cleanup" /\ step' = "cleanup" /\ run' = [run EXCEPT !.ok = FALSE]
      \/ step \in {"displace", "put_back"} /\ step' = "end_recovery" /\ run' = [run EXCEPT !.ok = FALSE]
      \/ step = "end_recovery" /\ run.back = "cleanup" /\ step' = "cleanup" /\ run' = [run EXCEPT !.rec = None]
      \/ step = "end_recovery" /\ run.back = "sweep" /\ run.ok /\ step' = "sweep" /\ run' = [run EXCEPT !.rec = None]
      \/ step \in Building \cup {"remove", "undo"} /\ step' = "cleanup" /\ run' = [run EXCEPT !.ok = FALSE]
      \/ step \in Swapping /\ step' = "undo" /\ run' = [run EXCEPT !.ok = FALSE]
  <2>1. step \in InstallSteps \ Resting
    BY <1>0, <1>1 DEF InstallTypeOK
  <2>2. CASE step \in {"recover", "sweep", "cleanup"}
    BY <2>2, <1>1 DEF Handler
  <2>3. CASE step = "restore"
    BY <2>3, <1>0, <1>1 DEF Handler, RaisedTo, Locals, Restoring
  <2>4. CASE step \in {"displace", "put_back"}
    BY <2>4, <1>1 DEF Handler
  <2>5. CASE step = "end_recovery"
    <3>1. (run.back = "cleanup" /\ ~run.ok) \/ run.back = "sweep"
      BY <2>5, <1>0 DEF Locals, Restoring
    <3>2. step' = IF run.ok THEN run.back ELSE IF run.back = "sweep" THEN "failed" ELSE "cleanup"
      BY <2>5, <1>1 DEF Handler, RaisedTo
    <3>3. CASE run.back = "cleanup" /\ ~run.ok
      BY <2>5, <3>2, <3>3, <1>1
    <3>4. CASE run.back = "sweep" /\ run.ok
      BY <2>5, <3>2, <3>4, <1>1
    <3>5. CASE run.back = "sweep" /\ ~run.ok
      BY <2>5, <3>2, <3>5, <1>1
    <3> QED BY <3>1, <3>3, <3>4, <3>5
  <2>6. CASE step \in Building \cup {"remove", "undo"}
    BY <2>6, <1>1 DEF Handler, Building
  <2>7. CASE step \in Swapping
    BY <2>7, <1>1 DEF Handler, Swapping
  <2> QED BY <2>1, <2>2, <2>3, <2>4, <2>5, <2>6, <2>7 DEF InstallSteps, Building, Swapping
<1>4. InstallTypeOK'
  BY <1>0, <1>1, <1>2, <1>3 DEF InstallTypeOK, OrNone, Installations, InstallSteps, Resting, Inventory, NoRun, Accidents, Locals, Resting, Building, Restoring, Swapping, InstallTypeOK, OrNone, Installations
<1>5. Suffered'
  BY <1>0, <1>1, <1>2, <1>3 DEF Suffered
<1>6. Locals'
  BY <1>0, <1>1, <1>2, <1>3 DEF Locals, Resting, Building, Swapping, Restoring, NoRun, Accidents, Locals, Resting, Building, Restoring, Swapping, InstallTypeOK, OrNone, Installations
<1>7. Siblings'
  BY <1>0, <1>1, <1>2, <1>3 DEF Siblings, Building, Swapping, NoSibling, NoRun, Accidents, Locals, Resting, Building, Restoring, Swapping, InstallTypeOK, OrNone, Installations
<1>8. Wholes'
  BY <1>0, <1>1, <1>2, <1>3 DEF Wholes, Building, Nobody, NoRun, Accidents, Locals, Resting, Building, Restoring, Swapping, InstallTypeOK, OrNone, Installations
<1>9. Records'
  BY <1>0, <1>1, <1>2, <1>3 DEF Records, RollbackOwned, Building, Nobody, NoRun, Accidents, Locals, Resting, Building, Restoring, Swapping, InstallTypeOK, OrNone, Installations
<1>10. Lives'
  BY <1>0, <1>1, <1>2, <1>3 DEF Lives, Untouched, NoRun, Accidents, Locals, Resting, Building, Restoring, Swapping, InstallTypeOK, OrNone, Installations
<1>11. Finding'
  <2>1. SUFFICES ASSUME OneFailed' PROVE Finding'
    BY DEF Finding
  <2>2. OneFailed /\ instSuffered["fails"] = 0 /\ instSuffered'["fails"] = 1 /\ run.ok
    BY <2>1, <1>0, <1>1, <1>2, <1>3 DEF OneFailed, Untouched, Accidents, Finding
  <2>3. step \notin Restoring \cup {"undo"} /\ rollback' = rollback /\ destination' = destination /\ found' = found
    BY <2>2, <1>0, <1>1, <1>2, <1>3 DEF Finding, Locals, Restoring
  <2>4. CASE step' \in {"failed", "cleanup"}
    BY <2>2, <2>3, <2>4, <1>0, <1>1, <1>2, <1>3 DEF Finding, Resting, Building, Restoring
  <2>5. CASE step \in Swapping /\ step' = "undo" /\ run' = [run EXCEPT !.ok = FALSE]
    <3>1. Replaced' = Replaced /\ Previous' = Previous /\ Staging' = Staging /\ run'.was = run.was
      BY <2>5, <1>0, <1>1, <1>2, <1>3 DEF Replaced, Previous, Staging, InstallTypeOK
    <3>2. step \in {"bind", "backup", "promote"} => Previous = None /\ Staging # None
      BY <2>5, <1>0, <1>1, <1>2, <1>3 DEF Wholes, Previous, Staging, Locals, Swapping
    <3>3. step = "bind" => ~run.was
      BY <1>0, <1>1, <1>2, <1>3 DEF Locals
    <3>4. \/ Replaced /\ rollback = found
          \/ Replaced /\ rollback = None /\ Previous = found
          \/ Replaced /\ rollback = None /\ Previous = None /\ destination = found
          \/ ~run.was /\ rollback = None /\ destination = found /\ Staging # None
          \/ ~run.was /\ rollback = None /\ found = None /\ Staging = None
      <4>1. CASE step \in {"bind", "backup"}
        BY <4>1, <2>2, <3>2, <3>3, <1>0 DEF Finding
      <4>2. CASE step = "promote"
        <5>1. destination = None
          BY <4>2, <2>2, <1>0 DEF Lives, OneFailed
        <5> QED BY <4>2, <5>1, <2>2, <3>2, <1>0 DEF Finding
      <4>3. CASE step \in {"commit", "committed"}
        BY <4>3, <2>2, <1>0 DEF Finding
      <4> QED BY <2>5, <4>1, <4>2, <4>3 DEF Swapping
    <3> QED BY <2>2, <2>3, <2>5, <3>1, <3>4 DEF Finding, Resting, Building, Restoring
  <2> QED BY <2>3, <2>4, <2>5, <1>0, <1>1, <1>2, <1>3 DEF Restoring
<1> QED BY <1>4, <1>5, <1>6, <1>7, <1>8, <1>9, <1>10, <1>11 DEF InstallInv

(* Every step of the installer, and every accident, keeps the invariant.    *)
LEMMA InstallKeeps == InstallInv /\ [InstallNext]_instVars => InstallInv'
<1> SUFFICES ASSUME InstallInv, [InstallNext]_instVars PROVE InstallInv'
  OBVIOUS
<1>1. CASE CreateRecovery \/ Displace \/ PutBack \/ EndRecovery
  BY <1>1, CreateRecoveryKeeps, DisplaceKeeps, PutBackKeeps, EndRecoveryKeeps
<1>2. CASE Sweep
  BY <1>2, SweepOneKeeps, SweepLastKeeps DEF Sweep, instLuck
<1>3. CASE RecoverInstall \/ Extract \/ VerifyStaged \/ ReplaceDestination \/ BindRollback
  BY <1>3, RecoverInstallKeeps, ExtractKeeps, VerifyStagedKeeps, ReplaceDestinationKeeps,
     BindRollbackKeeps
<1>4. CASE BackUp \/ PromoteStaging \/ CommitSwap \/ LeaveTry \/ RemovePrevious \/ CleanupInstall
  BY <1>4, BackUpKeeps, PromoteStagingKeeps, CommitSwapKeeps, LeaveTryKeeps, RemovePreviousKeeps,
     CleanupInstallKeeps
<1>5. CASE UndoSwap
  BY <1>5, UndoCommitKeeps, UndoBackUpKeeps, UndoNothingKeeps, UndoPromoteKeeps
     DEF UndoSwap, instLuck
<1>6. CASE StartInstall \/ StepFails \/ StepBlocked \/ InstallerKilled \/ UserInterferes
  BY <1>6, StartInstallKeeps, StepFailsKeeps, StepBlockedKeeps, InstallerKilledKeeps,
     UserInterferesKeeps
<1>7. CASE UNCHANGED instVars
  <2>1. UNCHANGED <<step, run, destination, rollback, sibling, bound, whole, instBudget, instSuffered, found>>
    BY <1>7 DEF instVars, instFiles, instLuck
  <2> QED BY <2>1 DEF InstallInv, InstallTypeOK, Suffered, Locals, Siblings, Wholes, Records,
                 RollbackOwned, Lives, Untouched, Finding, OneFailed, Replaced, Previous, Staging
<1> QED BY <1>1, <1>2, <1>3, <1>4, <1>5, <1>6, <1>7 DEF InstallNext, InstallStep

(* Accidents are counted, and never uncounted.                              *)
LEMMA Counted ==
    ASSUME InstallInv, InstallNext
    PROVE  /\ \A k \in Accidents : instSuffered[k] \in Nat /\ instSuffered'[k] \in Nat
                                      /\ instSuffered[k] <= instSuffered'[k]
           /\ StepFails => instSuffered'["fails"] = instSuffered["fails"] + 1
           /\ UserInterferes => instSuffered'["edits"] > 0 /\ instBudget' # instBudget
<1>0. Suffered
  BY DEF InstallInv
<1>1. ASSUME NEW kind \in Accidents, Befall(kind)
      PROVE  /\ instSuffered' \in [Accidents -> Nat] /\ instSuffered'[kind] = instSuffered[kind] + 1
             /\ \A k \in Accidents \ {kind} : instSuffered'[k] = instSuffered[k]
             /\ instBudget' # instBudget
  BY <1>0, <1>1, Befallen DEF Suffered
<1>2. (\E kind \in Accidents : Befall(kind)) \/ UNCHANGED instSuffered
  BY DEF InstallNext, InstallStep, StartInstall, StepFails, StepBlocked, InstallerKilled,
         UserInterferes, CreateRecovery, Displace, PutBack, EndRecovery, RecoverInstall, Sweep,
         Extract, VerifyStaged, ReplaceDestination, BindRollback, BackUp, PromoteStaging, CommitSwap,
         LeaveTry, RemovePrevious, UndoSwap, CleanupInstall, instLuck, Accidents
<1>3. \A k \in Accidents : instSuffered[k] \in Nat /\ instSuffered'[k] \in Nat /\ instSuffered[k] <= instSuffered'[k]
  BY <1>0, <1>1, <1>2 DEF Suffered
<1>4. StepFails => instSuffered'["fails"] = instSuffered["fails"] + 1
  BY <1>1 DEF StepFails, Accidents
<1>5. UserInterferes => instSuffered'["edits"] > 0 /\ instBudget' # instBudget
  BY <1>0, <1>1 DEF UserInterferes, Accidents, Suffered
<1> QED BY <1>3, <1>4, <1>5

(* No step takes both: what a step takes from one place is or was in the    *)
(* other, and what it puts there is whole.                                  *)
LEMMA WithoutNever ==
    ASSUME InstallInv, InstallNext, {destination, rollback} \cap whole # {},
           ~(instSuffered'["edits"] > 0), ~(step = "undo" /\ ~run.was)
    PROVE  {destination, rollback}' \cap whole' # {}
<1> USE InstallAssumption
<1>0. InstallTypeOK /\ Suffered /\ Locals /\ Siblings /\ Wholes /\ Records /\ Lives /\ Finding
  BY DEF InstallInv
<1>1. Untouched /\ ~UserInterferes
  BY Counted DEF Accidents, Untouched
<1>2. CASE Displace
  <2>1. rollback' = rollback /\ whole' = whole /\ rollback \in whole
    BY <1>0, <1>1, <1>2 DEF Displace, Records, Wholes, Lives, Nobody
  <2> QED BY <2>1
<1>3. CASE PutBack
  <2>1. destination' = rollback /\ whole' = whole /\ rollback \in whole
    BY <1>0, <1>1, <1>3 DEF PutBack, Records, Wholes, Lives, Nobody
  <2> QED BY <2>1
<1>4. CASE Extract
  <2>1. /\ destination' = destination /\ rollback' = rollback /\ whole' = whole \ {run.txn}
        /\ run.txn \notin {destination, rollback}
    BY <1>0, <1>4 DEF Extract, Wholes
  <2> QED BY <2>1
<1>5. CASE VerifyStaged
  BY <1>5 DEF VerifyStaged
<1>6. CASE BackUp
  BY <1>0, <1>6 DEF BackUp, Wholes, Nobody
<1>7. CASE PromoteStaging
  <2>1. destination' \in whole /\ whole' = whole
    BY <1>0, <1>7 DEF PromoteStaging, Wholes
  <2> QED BY <2>1
<1>8. CASE CommitSwap
  <2>1. destination' \in whole /\ whole' = whole
    BY <1>0, <1>1, <1>8 DEF CommitSwap, Lives
  <2> QED BY <2>1
<1>9. CASE UndoSwap
  <2>1. destination' = destination /\ whole' = whole /\ (rollback' = rollback \/ rollback = None)
    BY <1>9 DEF UndoSwap
  <2>2. None \notin whole
    BY <1>0 DEF InstallTypeOK, Installations
  <2> QED BY <2>1, <2>2
<1>10. CASE ~(Displace \/ PutBack \/ Extract \/ VerifyStaged \/ BackUp \/ PromoteStaging \/ CommitSwap
               \/ UndoSwap)
  <2>1. UNCHANGED <<destination, rollback, whole>>
    BY <1>1, <1>10
       DEF InstallNext, InstallStep, StartInstall, StepFails, StepBlocked, InstallerKilled,
           CreateRecovery, EndRecovery, RecoverInstall, Sweep, ReplaceDestination, BindRollback,
           LeaveTry, RemovePrevious, CleanupInstall, instFiles
  <2> QED BY <2>1
<1> QED BY <1>2, <1>3, <1>4, <1>5, <1>6, <1>7, <1>8, <1>9, <1>10

(* Where a run that failed once begins to clean up, what it found is live.  *)
LEMMA FoundAgain ==
    ASSUME InstallInv, InstallInv', InstallNext, step' = "cleanup", ~run'.ok, step # "remove",
           instSuffered'["fails"] = 1, instSuffered'["kills"] + instSuffered'["edits"] = 0
    PROVE  rollback' = None /\ destination' = found
<1> USE InstallAssumption
<1>0. InstallTypeOK /\ Suffered /\ Locals /\ Siblings /\ Wholes /\ Records /\ Lives /\ Finding
  BY DEF InstallInv
<1>1. OneFailed' /\ OneFailed /\ ~UserInterferes /\ (StepFails => instSuffered["fails"] = 0)
  BY Counted DEF OneFailed, Untouched, Accidents
<1>2. Finding'
  BY DEF InstallInv
<1>3. rollback' = None
  BY <1>1, <1>2 DEF Finding
<1>4. CASE StepFails
  <2>1. UNCHANGED <<destination, found>> /\ step' = Handler(step) /\ step \notin Resting /\ run.ok
    BY <1>0, <1>1, <1>4 DEF StepFails, instFiles, Befall, Finding
  <2>2. step \in Building
    <3>1. step \notin Restoring \cup {"undo"}
      BY <1>0, <1>1, <2>1 DEF Locals, Finding, Restoring
    <3>2. step \notin {"recover", "sweep", "cleanup"} \cup Swapping
      BY <2>1 DEF Handler, Swapping
    <3>3. step \in InstallSteps
      BY <1>0 DEF InstallTypeOK
    <3> QED BY <2>1, <3>1, <3>2, <3>3 DEF InstallSteps, Building, Swapping, Restoring
  <2>3. destination = found
    BY <1>0, <1>1, <2>2 DEF Finding
  <2> QED BY <1>3, <2>1, <2>3
<1>5. CASE EndRecovery
  BY <1>0, <1>1, <1>5 DEF EndRecovery, Finding
<1>6. CASE UndoSwap
  <2>1. /\ step = "undo"
        /\ \/ run.was /\ rollback # None /\ destination' = destination /\ ~Owned(run.txn)
           \/ run.was /\ rollback = None /\ Previous = None /\ destination' = destination
           \/ /\ ~run.was
              /\ IF destination # None /\ Staging = None THEN destination' = None
                 ELSE destination' = destination
    BY <1>6 DEF UndoSwap, Previous, Staging
  <2>2. \/ Replaced /\ rollback = found
        \/ Replaced /\ rollback = None /\ Previous = found
        \/ Replaced /\ rollback = None /\ Previous = None /\ destination = found
        \/ ~run.was /\ rollback = None /\ destination = found /\ Staging # None
        \/ ~run.was /\ rollback = None /\ found = None /\ Staging = None
    BY <1>0, <1>1, <2>1 DEF Finding
  <2>3. CASE run.was /\ rollback # None
    <3>1. Replaced /\ rollback = found
      BY <2>2, <2>3
    <3> QED BY <2>1, <2>3, <3>1 DEF Replaced, Owned
  <2>4. CASE run.was /\ rollback = None
    <3>1. Previous = None /\ destination' = destination
      BY <2>1, <2>4
    <3>2. destination = found
      BY <2>2, <2>4, <3>1 DEF Replaced
    <3> QED BY <1>3, <3>1, <3>2
  <2>5. CASE ~run.was
    <3>1. destination' = IF destination # None /\ Staging = None THEN None ELSE destination
      BY <2>1, <2>5
    <3>2. (destination = found /\ Staging # None) \/ (found = None /\ Staging = None)
      BY <2>2, <2>5 DEF Replaced
    <3> QED BY <1>3, <3>1, <3>2
  <2> QED BY <2>3, <2>4, <2>5
<1>7. CASE LeaveTry \/ RemovePrevious \/ RecoverInstall \/ Sweep \/ Extract \/ VerifyStaged
           \/ BindRollback \/ BackUp \/ PromoteStaging \/ CommitSwap \/ CleanupInstall
           \/ CreateRecovery \/ Displace \/ PutBack \/ StartInstall \/ InstallerKilled
  <2>1. step = "committed" /\ run' = run
    BY <1>7 DEF LeaveTry, RemovePrevious, RecoverInstall, Sweep, Extract, VerifyStaged, BindRollback,
       BackUp, PromoteStaging, CommitSwap, CleanupInstall, CreateRecovery, Displace, PutBack,
       StartInstall, InstallerKilled, ClaimRollback
  <2> QED BY <1>0, <2>1 DEF Locals, Swapping
<1>8. CASE ReplaceDestination
  <2>1. step = "replace" /\ rollback = None
    BY <1>0, <1>1, <1>8 DEF ReplaceDestination, Finding, Building
  <2> QED BY <1>8, <2>1 DEF ReplaceDestination
<1>9. CASE StepBlocked
  BY <1>9 DEF StepBlocked, Handler
<1> QED BY <1>1, <1>3, <1>4, <1>5, <1>6, <1>7, <1>8, <1>9 DEF InstallNext, InstallStep

(* A rollback that nobody recorded is not restored.                         *)
LEMMA UnownedStays ==
    ASSUME InstallInv, InstallNext, rollback = Stranger, \A x \in InstallTxns : bound[x] # Stranger,
           instBudget' = instBudget
    PROVE  /\ rollback' = Stranger \/ step = "commit"
           /\ destination' = destination \/ step = "promote" \/ (step = "undo" /\ ~run.was)
<1> USE InstallAssumption
<1>1. step \notin {"restore", "displace", "put_back"}
  BY DEF InstallInv, Records
<1>2. rollback # None /\ ~UserInterferes
  BY Counted
<1>3. CASE UndoSwap
  BY <1>2, <1>3 DEF UndoSwap
<1>4. CASE PromoteStaging
  BY <1>4 DEF PromoteStaging
<1>5. CASE CommitSwap
  BY <1>5 DEF CommitSwap
<1>6. CASE ~UndoSwap /\ ~PromoteStaging /\ ~CommitSwap
  <2>1. UNCHANGED <<destination, rollback>>
    BY <1>1, <1>2, <1>6
       DEF InstallNext, InstallStep, StartInstall, StepFails, StepBlocked, InstallerKilled,
           CreateRecovery, Displace, PutBack, EndRecovery, RecoverInstall, Sweep, Extract,
           VerifyStaged, ReplaceDestination, BindRollback, BackUp,
           LeaveTry, RemovePrevious, CleanupInstall, instFiles
  <2> QED BY <2>1
<1> QED BY <1>3, <1>4, <1>5, <1>6

(* The installer keeps a complete installation within reach whatever fails  *)
(* or is killed, and leaves what it replaced or nothing: the three renames  *)
(* of replace_destination, the rollback's recorded identity and the         *)
(* recovery that asks for it (install_protoc.py).                           *)
THEOREM InstallationIsKept == InstallSpec => []InstallTypeOK /\ InstallationKept
<1>1. (\E s \in InstallScenarios : InstallInit(s)) => InstallInv
  <2> SUFFICES ASSUME NEW s \in InstallScenarios, InstallInit(s) PROVE InstallInv
    OBVIOUS
  <2>1. s.installed \in {Installed, None} /\ s.budget \in [Accidents -> Nat]
    BY InstallAssumption DEF Accidents
  <2>2. /\ step = "idle" /\ run = NoRun /\ destination \in {Installed, None} /\ rollback = None
        /\ \A x \in InstallTxns : sibling[x] = NoSibling /\ bound[x] = None
        /\ sibling = [x \in InstallTxns |-> NoSibling] /\ bound = [x \in InstallTxns |-> None]
        /\ whole = {Installed} /\ found = None
        /\ instBudget = s.budget /\ instSuffered = [kind \in DOMAIN s.budget |-> 0]
    BY <2>1 DEF InstallInit
  <2>3. /\ NoRun.txn = None /\ NoRun.rec = None /\ NoRun.ok /\ ~NoRun.was
        /\ NoSibling.kind = None /\ NoSibling.previous = None
    BY DEF NoRun, NoSibling
  <2>4. InstallTypeOK
    BY <2>2 DEF InstallTypeOK, InstallSteps, Resting, NoRun, NoSibling, OrNone, Installations
  <2>5. Suffered
    BY <2>1, <2>2 DEF Suffered
  <2>6. Locals /\ Siblings
    BY <2>2, <2>3 DEF Locals, Siblings, Resting, Building, Swapping, Restoring
  <2>7. Wholes /\ Records
    BY <2>2, <2>3 DEF Wholes, Records, RollbackOwned, Nobody, Building
  <2>8. Lives /\ Finding
    BY <2>2, <2>3, InstallAssumption DEF Lives, Finding, Building, Restoring
  <2> QED BY <2>4, <2>5, <2>6, <2>7, <2>8 DEF InstallInv
<1>2. InstallInv => InstallTypeOK /\ LiveIsWhole /\ RollbackOwned /\ SuccessIsClean
  <2> SUFFICES ASSUME InstallInv PROVE InstallTypeOK /\ LiveIsWhole /\ RollbackOwned /\ SuccessIsClean
    OBVIOUS
  <2>1. LiveIsWhole
    BY DEF InstallInv, Wholes, Nobody, LiveIsWhole
  <2>2. instSuffered["fails"] + instSuffered["edits"] = 0 => Untouched
    BY DEF InstallInv, Suffered, Accidents, Untouched
  <2>3. SuccessIsClean
    BY <2>2 DEF InstallInv, Lives, SuccessIsClean
  <2> QED BY <2>1, <2>3 DEF InstallInv, Records
<1>3. InstallInv /\ [InstallNext]_instVars => 
        [{destination, rollback} \cap whole # {}
            => \/ {destination, rollback}' \cap whole' # {}
               \/ instSuffered'["edits"] > 0
               \/ step = "undo" /\ ~run.was]_instVars
  <2>1. ASSUME InstallInv, InstallNext
        PROVE  {destination, rollback} \cap whole # {}
                  => \/ {destination, rollback}' \cap whole' # {}
                     \/ instSuffered'["edits"] > 0
                     \/ step = "undo" /\ ~run.was
    BY <2>1, WithoutNever
  <2> QED BY <2>1
<1>4. InstallInv /\ InstallInv' /\ [InstallNext]_instVars =>
        [step' = "cleanup" /\ ~run'.ok /\ step # "remove"
            /\ instSuffered'["fails"] = 1 /\ instSuffered'["kills"] + instSuffered'["edits"] = 0
            => rollback' = None /\ destination' = found]_instVars
  BY FoundAgain
<1>5. InstallInv /\ [InstallNext]_instVars =>
        [rollback = Stranger /\ (\A x \in InstallTxns : bound[x] # Stranger) /\ instBudget' = instBudget
            => /\ rollback' = Stranger \/ step = "commit"
               /\ destination' = destination \/ step = "promote" \/ (step = "undo" /\ ~run.was)]_instVars
  BY UnownedStays
<1> QED BY <1>1, <1>2, <1>3, <1>4, <1>5, InstallKeeps, PTL
        DEF InstallSpec, InstallationKept, NeverWithout, FailureRestores, UnownedKept

---------------------------------------------------------------------------
(* The requests of a publisher *)

ScriptLength == Uploaded + 10
(* The lengths of the parts of publish: eleven requests until the draft is  *)
(* alone, six for every artifact, ten until the release is sealed.          *)
LEMMA ScriptLengths ==
    /\ Len(Artifacts) \in Nat /\ DOMAIN Artifacts = 1 .. Len(Artifacts)
    /\ Len(Prologue) = 11 /\ Len(Finale) = 10
    /\ Uploaded = 11 + 6 * Len(Artifacts) /\ Uploaded \in Nat
    /\ Len(Script) = ScriptLength /\ Failed = ScriptLength + 2 /\ Done = ScriptLength + 1
    /\ DOMAIN Script = 1 .. ScriptLength
<1>1. Len(Artifacts) \in Nat /\ DOMAIN Artifacts = 1 .. Len(Artifacts)
  BY PublishAssumption, LenProperties DEF PublishAssumption
<1>2. Len(Prologue) = 11
  BY DEF Prologue, Requests
<1>3. Len(Finale) = 10
  BY DEF Finale, Requests
<1>4. Uploaded = 11 + 6 * Len(Artifacts) /\ Uploaded \in Nat
  BY <1>1, <1>2 DEF Uploaded
<1>5. DOMAIN Script = 1 .. ScriptLength /\ Len(Script) = ScriptLength
  BY <1>3, <1>4 DEF Script, ScriptLength
<1> QED BY <1>1, <1>2, <1>3, <1>4, <1>5 DEF Failed, Done
(* Before the first artifact there is one creation, the seventh request,    *)
(* and otherwise only reading.                                              *)
LEMMA PrologueKinds ==
    /\ \A i \in 1 .. 11 : Script[i] = Prologue[i]
    /\ \A i \in 1 .. 11 : Prologue[i].kind = "create" <=> i = 7
    /\ \A i \in 1 .. 11 : Prologue[i].kind \in Queries \cup {"create"}
<1>1. \A i \in 1 .. 11 : Script[i] = Prologue[i]
  BY ScriptLengths DEF Script, ScriptLength
<1>2. \A i \in 1 .. 11 : Prologue[i].kind =
         <<"source", "tag", "immutable", "none", "source", "tag", "create",
               "source", "tag", "immutable", "only">>[i]
  BY DEF Prologue, Requests
<1>3. \A i \in 1 .. 11 : i \in {1, 2, 3, 4, 5, 6, 7, 8, 9, 10, 11}
  OBVIOUS
<1> QED BY <1>1, <1>2, <1>3 DEF Queries, Repository
(* What is requested after the last artifact, one by one.                   *)
LEMMA FinaleKinds ==
    /\ Script[Uploaded + 1].kind = "current" /\ Script[Uploaded + 2].kind = "only"
    /\ Script[Uploaded + 3].kind = "source" /\ Script[Uploaded + 4].kind = "tag"
    /\ Script[Uploaded + 5].kind = "assets" /\ Script[Uploaded + 6].kind = "immutable"
    /\ Script[Uploaded + 7].kind = "source" /\ Script[Uploaded + 8].kind = "tag"
    /\ Script[Uploaded + 9].kind = "publish" /\ Script[Uploaded + 10].kind = "sealed"
<1>1. ASSUME NEW j \in 1 .. 10 PROVE Script[Uploaded + j] = Finale[j]
  <2>1. /\ Uploaded + j \in 1 .. Uploaded + Len(Finale) /\ ~(Uploaded + j <= Len(Prologue))
        /\ ~(Uploaded + j <= Uploaded) /\ (Uploaded + j) - Uploaded = j
    BY ScriptLengths
  <2> QED BY <2>1 DEF Script
<1>2. \A j \in 1 .. 10 : Finale[j].kind =
         <<"current", "only", "source", "tag", "assets", "immutable", "source", "tag",
               "publish", "sealed">>[j]
  BY DEF Finale, Requests
<1> QED BY <1>1, <1>2
(* Every artifact has one upload, the fifth of its six requests, which      *)
(* names it; the others read.                                               *)
LEMMA RoundKinds ==
    ASSUME NEW i \in 12 .. Uploaded
    PROVE  /\ Script[i].kind \in Queries \cup {"upload"}
           /\ Script[i].kind = "upload" =>
                \E k \in DOMAIN Artifacts : i = 6 * k + 10 /\ Script[i].artifact = Artifacts[k]
           /\ \A k \in DOMAIN Artifacts : i = 6 * k + 10 => Script[i].kind = "upload"
<1> DEFINE q == (i - 12) \div 6
           r == (i - 12) % 6
<1>1. /\ Len(Artifacts) \in Nat /\ DOMAIN Artifacts = 1 .. Len(Artifacts)
      /\ Uploaded = 11 + 6 * Len(Artifacts) /\ i \in Int /\ 12 <= i /\ i <= Uploaded
  BY ScriptLengths
<1>2. q \in Int /\ r \in 0 .. 5 /\ i - 12 = 6 * q + r
  BY <1>1
<1>3. q + 1 \in DOMAIN Artifacts
  BY <1>1, <1>2
<1>4. Script[i] = Round(Artifacts[q + 1])[r + 1]
  BY <1>1, ScriptLengths DEF Script, ScriptLength
<1>5. /\ Round(Artifacts[q + 1])[r + 1].artifact = Artifacts[q + 1]
      /\ Round(Artifacts[q + 1])[r + 1].kind = <<"current", "assets", "source", "tag", "upload", "assets">>[r + 1]
  BY <1>2 DEF Round, Requests
<1>6. Script[i].kind \in Queries \cup {"upload"} /\ (Script[i].kind = "upload" <=> r = 4)
  <2>1. r \in {0, 1, 2, 3, 4, 5}
    BY <1>2
  <2> QED BY <1>4, <1>5, <2>1 DEF Queries, Repository
<1>7. \A k \in Int : i = 6 * k + 10 <=> (r = 4 /\ k = q + 1)
  BY <1>2
<1>8. ASSUME Script[i].kind = "upload"
      PROVE  \E k \in DOMAIN Artifacts : i = 6 * k + 10 /\ Script[i].artifact = Artifacts[k]
  <2>1. q + 1 \in Int /\ i = 6 * (q + 1) + 10
    BY <1>2, <1>6, <1>7, <1>8
  <2> QED BY <1>3, <1>4, <1>5, <2>1
<1>9. ASSUME NEW k \in DOMAIN Artifacts, i = 6 * k + 10 PROVE Script[i].kind = "upload"
  <2>1. k \in Int
    BY <1>1
  <2> QED BY <1>6, <1>7, <1>9, <2>1
<1> QED BY <1>6, <1>8, <1>9
(* Of every request of a publisher: which kinds there are, and where those  *)
(* that change the service stand.                                           *)
LEMMA ScriptKinds ==
    ASSUME NEW i \in 1 .. ScriptLength
    PROVE  /\ Script[i].kind \in Queries \cup {"create", "upload", "publish"}
           /\ Script[i].kind = "create" => i = 7
           /\ i = 7 => Script[i].kind = "create"
           /\ Script[i].kind = "publish" => i = Uploaded + 9
           /\ Script[i].kind = "upload" => i \in 12 .. Uploaded
           /\ Script[i].kind = "upload" =>
                \E k \in DOMAIN Artifacts : i = 6 * k + 10 /\ Script[i].artifact = Artifacts[k]
           /\ \A k \in DOMAIN Artifacts : i = 6 * k + 10 => Script[i].kind = "upload"
<1>1. Queries \cap {"create", "upload", "publish"} = {}
  BY DEF Queries, Repository
<1>2. \A k \in DOMAIN Artifacts : 6 * k + 10 \in 12 .. Uploaded
  BY ScriptLengths
<1>3. CASE i \in 1 .. 11
  <2>1. Script[i].kind \in Queries \cup {"create"} /\ (Script[i].kind = "create" <=> i = 7)
    BY <1>3, PrologueKinds
  <2>2. \A k \in DOMAIN Artifacts : i # 6 * k + 10
    BY <1>2, <1>3
  <2> QED BY <1>1, <2>1, <2>2
<1>4. CASE i \in 12 .. Uploaded
  <2>1. i # 7
    BY <1>4
  <2> QED BY <1>1, <1>4, <2>1, RoundKinds
<1>5. CASE i \notin 1 .. Uploaded
  <2>1. PICK j \in 1 .. 10 : i = Uploaded + j
    <3>1. Uploaded \in Nat /\ i \in Int /\ 1 <= i /\ i <= Uploaded + 10
      BY ScriptLengths DEF ScriptLength
    <3>2. Uploaded < i
      BY <1>5, <3>1
    <3>3. i - Uploaded \in 1 .. 10 /\ i = Uploaded + (i - Uploaded)
      BY <3>1, <3>2
    <3> QED BY <3>3
  <2>2. i # 7 /\ \A k \in DOMAIN Artifacts : i # 6 * k + 10
    BY <1>2, <1>5, ScriptLengths
  <2>3. Script[i].kind \in Queries \cup {"publish"} /\ (Script[i].kind = "publish" => j = 9)
    <3>1. j \in {1, 2, 3, 4, 5, 6, 7, 8, 9, 10}
      BY <2>1
    <3> QED BY <2>1, <3>1, FinaleKinds DEF Queries, Repository
  <2> QED BY <1>1, <2>1, <2>2, <2>3
<1> QED BY <1>3, <1>4, <1>5, ScriptLengths

---------------------------------------------------------------------------
(* Publication *)

PublicReleases == Existing \ Drafts
Withdrawn(p) == Own(p).draft = None
(* The publisher has had this many answers in its finale.                   *)
Beyond(p, j) == Uploaded + j < request[p] /\ request[p] <= Done
DriftKinds == Repository \cup {"assets", "release", "draft"}

(* A publisher that goes on knows the draft it created and what it uploaded *)
(* so far, and no two know the same.                                        *)
DraftKnown(p) ==
    /\ request[p] <= 7 => draftId[p] = None
    /\ 7 < request[p] /\ request[p] <= Done => draftId[p] # None
UploadsKnown(p) ==
    request[p] <= Done =>
        uploads[p] = {<<Artifacts[k], "local">> : k \in {l \in DOMAIN Artifacts : 6 * l + 10 < request[p]}}
DraftsDistinct == \A p, q \in Publishers : draftId[p] = draftId[q] /\ draftId[p] # None => p = q
(* What it saw in its finale is still so, or has changed since.             *)
FinaleSeen(p) ==
    /\ Beyond(p, 2) => Withdrawn(p) \/ PublicReleases \subseteq {draftId[p]} \/ "release" \in drifted[p]
    /\ Beyond(p, 3) => "source" \in facts \cup drifted[p]
    /\ Beyond(p, 4) => "tag" \in facts \cup drifted[p]
    /\ Beyond(p, 5) => Withdrawn(p) \/ Own(p).assets = Local \/ "assets" \in drifted[p]
    /\ Beyond(p, 6) => "immutable" \in facts \cup drifted[p]
(* Whoever saw that its draft is alone is alone with it: no other release   *)
(* of a publisher is published, or may be.                                  *)
AloneWithDraft(p) ==
    Beyond(p, 2) /\ ~Withdrawn(p) =>
        \A q \in Publishers \ {p} :
            draftId[q] # None => Own(q).draft # FALSE /\ (Beyond(q, 2) => Withdrawn(q))
DoneSealed(p) ==
    request[p] = Done => Own(p).assets = Local /\ Own(p).sealed /\ Own(p).draft = FALSE
PubTyped == PublishTypeOK /\ drifted \in [Publishers -> SUBSET DriftKinds]
PubInv ==
    /\ PubTyped /\ DraftsDistinct /\ PublishedOnce
    /\ \A p \in Publishers : DraftKnown(p) /\ UploadsKnown(p) /\ FinaleSeen(p) /\ AloneWithDraft(p) /\ DoneSealed(p)

(* Nobody has done anything at first.                                       *)
LEMMA PublishStarts == PublishInit => PubInv
<1> SUFFICES ASSUME PublishInit PROVE PubInv
  OBVIOUS
<1>1. PubTyped
  <2>1. 1 \in 1 .. Failed /\ Drifts \in 0 .. Drifts
    BY ScriptLengths, PublishAssumption DEF PublishAssumption, ScriptLength
  <2>2. NoRelease \in [draft : OrNone(BOOLEAN), sealed : BOOLEAN, assets : SUBSET (Local \cup {<<Foreign, "foreign">>})]
    BY DEF NoRelease, OrNone
  <2> QED BY <2>1, <2>2 DEF PublishInit, PubTyped, PublishTypeOK, OrNone
<1>2. \A p \in Publishers : request[p] = 1 /\ draftId[p] = None /\ uploads[p] = {} /\ 1 < Uploaded /\ 1 < Done
  BY ScriptLengths DEF PublishInit, ScriptLength
<1>3. \A l \in DOMAIN Artifacts : ~(6 * l + 10 < 1)
  BY ScriptLengths
<1>4. Existing = {}
  BY DEF PublishInit, Existing, NoRelease
<1>5. \A p \in Publishers, j \in 0 .. 10 : ~Beyond(p, j)
  BY <1>2, ScriptLengths DEF Beyond
<1>6. DraftsDistinct /\ PublishedOnce
  BY <1>2 DEF DraftsDistinct, PublishedOnce, Published
<1>7. ASSUME NEW p \in Publishers
      PROVE  DraftKnown(p) /\ UploadsKnown(p) /\ FinaleSeen(p) /\ AloneWithDraft(p) /\ DoneSealed(p)
  <2>0. request[p] = 1 /\ draftId[p] = None /\ uploads[p] = {} /\ 1 <= 7 /\ 1 # Done
    BY <1>2, ScriptLengths
  <2>1. DraftKnown(p) /\ DoneSealed(p)
    BY <2>0 DEF DraftKnown, DoneSealed
  <2>3. UploadsKnown(p)
    <3>1. {l \in DOMAIN Artifacts : 6 * l + 10 < request[p]} = {}
      BY <2>0, <1>3
    <3> QED BY <2>0, <3>1 DEF UploadsKnown
  <2>4. ~Beyond(p, 2) /\ ~Beyond(p, 3) /\ ~Beyond(p, 4) /\ ~Beyond(p, 5) /\ ~Beyond(p, 6)
    BY <1>5
  <2>2. FinaleSeen(p) /\ AloneWithDraft(p)
    BY <2>4 DEF FinaleSeen, AloneWithDraft
  <2> QED BY <2>1, <2>2, <2>3
<1> QED BY <1>1, <1>6, <1>7 DEF PubInv

(* Where a publisher is, in numbers.                                        *)
LEMMA PublisherStanding ==
    ASSUME PubTyped, NEW p \in Publishers
    PROVE  /\ request[p] \in 1 .. Failed /\ request[p] \in Int /\ Failed = Done + 1
           /\ Uploaded \in Nat /\ Done = Uploaded + 11 /\ 11 <= Uploaded
           /\ request[p] <= Done <=> request[p] # Failed
           /\ Running(p) <=> request[p] \in 1 .. ScriptLength
           /\ Running(p) => request[p] + 1 <= Done /\ request[p] + 1 \in 1 .. Failed /\ request[p] # Failed
           /\ \A j \in 0 .. 10 : ~(Uploaded + j < Failed /\ Failed <= Done)
<1>1. request[p] \in 1 .. Failed
  BY DEF PubTyped, PublishTypeOK
<1>2. /\ Uploaded \in Nat /\ 11 <= Uploaded
      /\ ScriptLength = Uploaded + 10 /\ Failed = ScriptLength + 2 /\ Done = ScriptLength + 1
      /\ Len(Script) = ScriptLength
  BY ScriptLengths DEF ScriptLength
<1>3. Running(p) <=> request[p] \in 1 .. ScriptLength
  BY <1>1, <1>2 DEF Running
<1> QED BY <1>1, <1>2, <1>3

(* What leaves publishers where they are, or ends them, keeps the invariant *)
(* if it publishes no draft of theirs, and changes an asset or a fact only  *)
(* where it is noted, and nothing of what is sealed.                        *)
Unpublishing ==
    /\ draftId' = draftId /\ uploads' = uploads
    /\ \A q \in Publishers :
          /\ request'[q] = request[q] \/ request'[q] = Failed
          /\ drifted[q] \subseteq drifted'[q] /\ facts \subseteq facts' \cup drifted'[q]
          /\ PublicReleases' \subseteq PublicReleases \/ "release" \in drifted'[q]
          /\ draftId[q] # None =>
                /\ \/ Own(q)'.draft = Own(q).draft
                   \/ Own(q).draft = TRUE /\ Own(q)'.draft = None
                /\ \/ Own(q)'.assets = Own(q).assets \/ Own(q)'.draft = None
                   \/ "assets" \in drifted'[q] \/ request'[q] = Failed
                /\ Own(q).sealed /\ Own(q).draft = FALSE => Own(q)' = Own(q)
(* What is not a draft and exists is published.                             *)
LEMMA DraftValues ==
    ASSUME PubTyped, NEW r \in Releases
    PROVE  /\ r \in PublicReleases <=> releases[r].draft = FALSE
           /\ releases[r].draft \in {TRUE, FALSE, None}
  BY PublishAssumption DEF PubTyped, PublishTypeOK, PublicReleases, Existing, Drafts, OrNone, PublishAssumption
(* A draft somebody created has a number of the service.                    *)
LEMMA OwnInReleases == PubTyped => \A q \in Publishers : draftId[q] # None => draftId[q] \in Releases
  BY DEF PubTyped, PublishTypeOK, OrNone
(* What publishes no draft of a publisher keeps all that the publishers     *)
(* know.                                                                    *)
LEMMA UnpublishingKeeps == ASSUME PubInv, PubTyped', Unpublishing PROVE PubInv'
<1>0. PubTyped /\ DraftsDistinct /\ PublishedOnce
  BY DEF PubInv
<1>1. \A q \in Publishers, j \in 0 .. 10 : Beyond(q, j)' => Beyond(q, j) /\ request'[q] = request[q]
  BY <1>0, PublisherStanding, ScriptLengths DEF Beyond, Unpublishing
<1>2. DraftsDistinct'
  BY <1>0 DEF Unpublishing, DraftsDistinct
<1>3. PublishedOnce'
  <2>1. \A q \in Publishers : Published(q)' => Published(q)
    BY PublishAssumption DEF Unpublishing, PublishAssumption, Published
  <2> QED BY <1>0, <2>1 DEF PublishedOnce
<1>4. ASSUME NEW p \in Publishers
      PROVE  DraftKnown(p)' /\ UploadsKnown(p)' /\ FinaleSeen(p)' /\ AloneWithDraft(p)' /\ DoneSealed(p)'
  <2>0. /\ DraftKnown(p) /\ UploadsKnown(p) /\ FinaleSeen(p) /\ AloneWithDraft(p) /\ DoneSealed(p)
        /\ request'[p] \in {request[p], Failed}
    BY DEF PubInv, Unpublishing
  <2>1. DraftKnown(p)' /\ UploadsKnown(p)'
    <3>1. ~(Failed <= 7) /\ ~(Failed <= Done)
      BY <1>0, PublisherStanding, ScriptLengths
    <3> QED BY <2>0, <3>1 DEF DraftKnown, UploadsKnown, Unpublishing
  <2>2. \A j \in {2, 3, 4, 5, 6} : Beyond(p, j)' => Beyond(p, j) /\ draftId[p] # None
    <3>1. \A j \in {2, 3, 4, 5, 6} : Beyond(p, j)' => Beyond(p, j)
      BY <1>1
    <3>2. \A j \in {2, 3, 4, 5, 6} : Beyond(p, j) => 7 < request[p] /\ request[p] <= Done
      BY <1>0, PublisherStanding DEF Beyond
    <3> QED BY <2>0, <3>1, <3>2 DEF DraftKnown
  <2>3. draftId[p] # None /\ Withdrawn(p) => Withdrawn(p)'
    BY PublishAssumption DEF Unpublishing, Withdrawn, PublishAssumption
  <2>4. FinaleSeen(p)'
    <3>1. Beyond(p, 2)' => Withdrawn(p)' \/ PublicReleases' \subseteq {draftId'[p]} \/ "release" \in drifted'[p]
      BY <2>0, <2>2, <2>3 DEF FinaleSeen, Unpublishing
    <3>2. /\ Beyond(p, 3)' => "source" \in facts' \cup drifted'[p]
          /\ Beyond(p, 4)' => "tag" \in facts' \cup drifted'[p]
          /\ Beyond(p, 6)' => "immutable" \in facts' \cup drifted'[p]
      BY <2>0, <2>2 DEF FinaleSeen, Unpublishing
    <3>3. Beyond(p, 5)' => Withdrawn(p)' \/ Own(p)'.assets = Local \/ "assets" \in drifted'[p]
      <4>1. Beyond(p, 5)' => request'[p] # Failed
        BY <1>0, PublisherStanding DEF Beyond
      <4> QED BY <2>0, <2>2, <2>3, <4>1 DEF FinaleSeen, Unpublishing, Withdrawn
    <3> QED BY <3>1, <3>2, <3>3 DEF FinaleSeen, Local, Names
  <2>5. AloneWithDraft(p)'
    <3>1. SUFFICES ASSUME Beyond(p, 2)', ~Withdrawn(p)', NEW q \in Publishers \ {p}, draftId[q] # None
                   PROVE  Own(q)'.draft # FALSE /\ (Beyond(q, 2)' => Withdrawn(q)')
      BY DEF AloneWithDraft, Unpublishing
    <3>2. Own(q).draft # FALSE /\ (Beyond(q, 2) => Withdrawn(q))
      BY <2>0, <2>2, <2>3, <3>1 DEF AloneWithDraft
    <3>3. Beyond(q, 2)' => Beyond(q, 2)
      BY <1>1
    <3>4. Own(q)'.draft = Own(q).draft \/ (Own(q).draft = TRUE /\ Own(q)'.draft = None)
      BY <3>1 DEF Unpublishing
    <3>5. None # FALSE /\ None # TRUE
      BY PublishAssumption DEF PublishAssumption
    <3>6. Own(q)'.draft # FALSE
      BY <3>2, <3>4, <3>5
    <3>7. Withdrawn(q) => Withdrawn(q)'
      BY <3>4, <3>5 DEF Withdrawn
    <3> QED BY <3>2, <3>3, <3>6, <3>7
  <2>6. DoneSealed(p)'
    <3>1. SUFFICES ASSUME request'[p] = Done PROVE Own(p)'.assets = Local /\ Own(p)'.sealed /\ Own(p)'.draft = FALSE
      BY DEF DoneSealed, Local, Names
    <3>2. request[p] = Done /\ draftId[p] # None
      BY <1>0, <2>0, <3>1, PublisherStanding DEF DraftKnown
    <3> QED BY <2>0, <3>1, <3>2 DEF DoneSealed, Unpublishing
  <2> QED BY <2>1, <2>4, <2>5, <2>6
<1> QED BY <1>2, <1>3, <1>4 DEF PubInv

ReleaseShapes == [draft : OrNone(BOOLEAN), sealed : BOOLEAN, assets : SUBSET (Local \cup {<<Foreign, "foreign">>})]
(* The types with the shape of a release named.                             *)
LEMMA PublishShape ==
    PubTyped <=> /\ request \in [Publishers -> 1 .. Failed]
                 /\ draftId \in [Publishers -> OrNone(Releases)] /\ uploads \in [Publishers -> SUBSET Local]
                 /\ releases \in [Releases -> ReleaseShapes]
                 /\ facts \subseteq Repository /\ drifts \in 0 .. Drifts
                 /\ drifted \in [Publishers -> SUBSET DriftKinds]
  BY DEF PubTyped, PublishTypeOK, ReleaseShapes
(* After the last upload everything is uploaded.                            *)
LEMMA AllUploaded ==
    ASSUME PubInv, NEW p \in Publishers, Uploaded < request[p], request[p] <= Done
    PROVE  uploads[p] = Local
<1>1. {l \in DOMAIN Artifacts : 6 * l + 10 < request[p]} = DOMAIN Artifacts
  <2>1. \A l \in DOMAIN Artifacts : 6 * l + 10 < Uploaded
    BY ScriptLengths
  <2>2. Uploaded \in Int /\ request[p] \in Int /\ \A l \in DOMAIN Artifacts : l \in Int
    BY ScriptLengths, PublisherStanding DEF PubInv
  <2> QED BY <2>1, <2>2
<1>2. uploads[p] = {<<Artifacts[k], "local">> : k \in DOMAIN Artifacts}
  BY <1>1 DEF PubInv, UploadsKnown
<1>3. Local = {<<Artifacts[k], "local">> : k \in DOMAIN Artifacts}
  BY DEF Local, Names
<1> QED BY <1>2, <1>3

(* An answer as expected leaves the publisher with what it saw.             *)
LEMMA QueryKeeps ==
    ASSUME PubInv, NEW p \in Publishers, Running(p), Next(p).kind \in Queries, Expected(p, Next(p).kind),
           Answered(p), UNCHANGED <<draftId, uploads, releases, facts, drifted, drifts>>
    PROVE  PubInv'
<1> DEFINE i == request[p]
<1>0. /\ PubTyped /\ DraftsDistinct /\ PublishedOnce
      /\ \A q \in Publishers : DraftKnown(q) /\ UploadsKnown(q) /\ FinaleSeen(q) /\ AloneWithDraft(q) /\ DoneSealed(q)
  BY DEF PubInv
<1>1. /\ i \in 1 .. ScriptLength /\ i \in Int /\ request'[p] = i + 1 /\ i + 1 <= Done /\ i + 1 \in 1 .. Failed
      /\ Uploaded \in Nat /\ Done = Uploaded + 11 /\ 11 <= Uploaded /\ i <= Done
      /\ \A q \in Publishers \ {p} : request'[q] = request[q]
  BY <1>0, PublisherStanding DEF Answered, PublishShape, PubTyped, PublishTypeOK
<1>2. Script[i].kind \in Queries /\ Expected(p, Script[i].kind)
  BY DEF Next
<1>3. i # 7 /\ \A k \in DOMAIN Artifacts : i # 6 * k + 10
  <2>1. Queries \cap {"create", "upload", "publish"} = {}
    BY DEF Queries, Repository
  <2> QED BY <1>1, <1>2, <2>1, ScriptKinds
<1>4. PubTyped'
  BY <1>0, <1>1, PublishShape DEF Answered, ReleaseShapes, PubTyped, PublishTypeOK, Local, Names
<1>5. \A j \in 0 .. 10 : /\ Beyond(p, j)' <=> Beyond(p, j) \/ i = Uploaded + j
                         /\ \A q \in Publishers \ {p} : Beyond(q, j)' <=> Beyond(q, j)
  BY <1>1 DEF Beyond
<1>6. PublicReleases' = PublicReleases /\ \A q \in Publishers : (Withdrawn(q)' <=> Withdrawn(q)) /\ Own(q)' = Own(q)
  BY DEF PublicReleases, Existing, Drafts, Withdrawn, Own
<1>7. DraftsDistinct' /\ PublishedOnce'
  BY <1>0, <1>6 DEF DraftsDistinct, PublishedOnce, Published
<1>8. DraftKnown(p)'
  <2>1. i + 1 <= 7 => i <= 7
    BY <1>1
  <2>2. 7 < i + 1 => 7 < i
    BY <1>1, <1>3
  <2> QED BY <1>0, <1>1, <2>1, <2>2 DEF DraftKnown
<1>9. UploadsKnown(p)'
  <2>1. \A l \in DOMAIN Artifacts : 6 * l + 10 < i <=> 6 * l + 10 < i + 1
    <3>1. \A l \in DOMAIN Artifacts : l \in Int
      BY ScriptLengths
    <3> QED BY <1>1, <1>3, <3>1
  <2>2. {l \in DOMAIN Artifacts : 6 * l + 10 < request[p]} = {l \in DOMAIN Artifacts : 6 * l + 10 < request'[p]}
    BY <1>1, <2>1
  <2> QED BY <1>0, <1>1, <2>2 DEF UploadsKnown
<1>10. i = Uploaded + 2 => Existing = {draftId[p]}
  BY <1>2, FinaleKinds DEF Expected, Repository, OnlyOwned
<1>11. FinaleSeen(p)'
  <2>1. Beyond(p, 2)' => Withdrawn(p) \/ PublicReleases \subseteq {draftId[p]} \/ "release" \in drifted[p]
    BY <1>0, <1>5, <1>10 DEF FinaleSeen, PublicReleases
  <2>2. Beyond(p, 3)' => "source" \in facts \cup drifted[p]
    <3>1. i = Uploaded + 3 => "source" \in facts
      BY <1>2, FinaleKinds DEF Expected, Repository
    <3> QED BY <1>0, <1>5, <3>1 DEF FinaleSeen
  <2>3. Beyond(p, 4)' => "tag" \in facts \cup drifted[p]
    <3>1. i = Uploaded + 4 => "tag" \in facts
      BY <1>2, FinaleKinds DEF Expected, Repository
    <3> QED BY <1>0, <1>5, <3>1 DEF FinaleSeen
  <2>4. Beyond(p, 6)' => "immutable" \in facts \cup drifted[p]
    <3>1. i = Uploaded + 6 => "immutable" \in facts
      BY <1>2, FinaleKinds DEF Expected, Repository
    <3> QED BY <1>0, <1>5, <3>1 DEF FinaleSeen
  <2>5. Beyond(p, 5)' => Withdrawn(p) \/ Own(p).assets = Local \/ "assets" \in drifted[p]
    <3>1. ASSUME i = Uploaded + 5 PROVE Own(p).assets = Local
      <4>1. Own(p).assets = uploads[p]
        BY <1>2, <3>1, FinaleKinds DEF Expected, Repository
      <4> QED BY <1>1, <3>1, <4>1, AllUploaded
    <3> QED BY <1>0, <1>5, <3>1 DEF FinaleSeen
  <2> QED BY <1>6, <2>1, <2>2, <2>3, <2>4, <2>5 DEF FinaleSeen, Local, Names
<1>12. ASSUME i = Uploaded + 2, NEW q \in Publishers \ {p}, draftId[q] # None PROVE Withdrawn(q)
  <2>1. draftId[q] # draftId[p] /\ draftId[q] \in Releases
    BY <1>0, <1>12, OwnInReleases DEF DraftsDistinct
  <2> QED BY <1>10, <1>12, <2>1 DEF Existing, Withdrawn, Own
<1>13. \A q \in Publishers : Beyond(q, 2) => draftId[q] # None
  <2>1. \A q \in Publishers : Beyond(q, 2) => 7 < request[q] /\ request[q] <= Done
    BY <1>0, PublisherStanding DEF Beyond
  <2> QED BY <1>0, <2>1 DEF DraftKnown
<1>14. ASSUME NEW q \in Publishers PROVE AloneWithDraft(q)'
  <2>1. SUFFICES ASSUME Beyond(q, 2)', ~Withdrawn(q), NEW s \in Publishers \ {q}, draftId[s] # None
                 PROVE  Own(s).draft # FALSE /\ (Beyond(s, 2)' => Withdrawn(s))
    BY <1>6 DEF AloneWithDraft
  <2>2. CASE q = p /\ i = Uploaded + 2
    BY <1>12, <2>1, <2>2, PublishAssumption DEF Withdrawn, PublishAssumption
  <2>3. CASE ~(q = p /\ i = Uploaded + 2)
    <3>1. Beyond(q, 2)
      BY <1>5, <2>1, <2>3
    <3>2. Own(s).draft # FALSE /\ (Beyond(s, 2) => Withdrawn(s))
      BY <1>0, <2>1, <3>1 DEF AloneWithDraft
    <3>3. Beyond(s, 2)' => Beyond(s, 2) \/ (s = p /\ i = Uploaded + 2)
      BY <1>5
    <3>4. s = p /\ i = Uploaded + 2 => Withdrawn(q)
      BY <1>12, <1>13, <2>1, <3>1
    <3> QED BY <2>1, <3>2, <3>3, <3>4
  <2> QED BY <2>2, <2>3
<1>15. DoneSealed(p)'
  <2>1. SUFFICES ASSUME i + 1 = Done PROVE Own(p).assets = Local /\ Own(p).sealed /\ Own(p).draft = FALSE
    BY <1>1, <1>6 DEF DoneSealed, Local, Names
  <2>2. i = Uploaded + 10
    BY <1>1, <2>1
  <2>3. Own(p).draft = FALSE /\ Own(p).sealed /\ Own(p).assets = uploads[p]
    BY <1>2, <2>2, FinaleKinds DEF Expected, Repository
  <2> QED BY <1>1, <2>2, <2>3, AllUploaded
<1>16. ASSUME NEW q \in Publishers \ {p} PROVE DraftKnown(q)' /\ UploadsKnown(q)' /\ FinaleSeen(q)' /\ DoneSealed(q)'
  <2>1. DraftKnown(q)' /\ UploadsKnown(q)' /\ DoneSealed(q)'
    BY <1>0, <1>1, <1>6 DEF DraftKnown, UploadsKnown, DoneSealed, Local, Names
  <2>2. FinaleSeen(q)'
    BY <1>0, <1>5, <1>6 DEF FinaleSeen, Local, Names
  <2> QED BY <2>1, <2>2
<1> QED BY <1>4, <1>7, <1>8, <1>9, <1>11, <1>14, <1>15, <1>16 DEF PubInv

(* A release that bears a new number changes nothing for the others.        *)
LEMMA CreateKeeps ==
    ASSUME PubInv, NEW p \in Publishers, Asking(p, "create"), NEW r \in Releases \ Existing,
           \A q \in Publishers : draftId[q] # r, releases' = [releases EXCEPT ![r].draft = TRUE],
           Answered(p), draftId' = [draftId EXCEPT ![p] = r], UNCHANGED <<uploads, facts, drifted, drifts>>
    PROVE  PubInv'
<1> DEFINE i == request[p]
<1>0. /\ PubTyped /\ DraftsDistinct /\ PublishedOnce
      /\ \A q \in Publishers : DraftKnown(q) /\ UploadsKnown(q) /\ FinaleSeen(q) /\ AloneWithDraft(q) /\ DoneSealed(q)
  BY DEF PubInv
<1>1. i = 7 /\ draftId[p] = None /\ r # None
  <2>1. i \in 1 .. ScriptLength /\ Script[i].kind = "create"
    BY <1>0, PublisherStanding DEF Asking, Next
  <2>2. i = 7
    BY <2>1, ScriptKinds
  <2> QED BY <1>0, <2>2, PublishAssumption DEF DraftKnown, PublishAssumption
<1>2. /\ request'[p] = 8 /\ 8 \in 1 .. Failed /\ 8 < Uploaded + 2 /\ 8 < Done
      /\ \A q \in Publishers \ {p} : request'[q] = request[q]
  <2>1. 8 \in 1 .. Failed /\ 8 < Uploaded + 2 /\ 8 < Done
    BY <1>0, PublisherStanding
  <2> QED BY <1>0, <1>1, <2>1, PublishShape DEF Answered
<1>3. releases[r].draft = None /\ releases[r] \in ReleaseShapes
  BY <1>0, PublishShape DEF Existing
<1>4. releases'[r].draft = TRUE /\ \A s \in Releases \ {r} : releases'[s] = releases[s]
  BY <1>0, PublishShape, <1>3 DEF ReleaseShapes
<1>5. PubTyped'
  <2>1. releases' \in [Releases -> ReleaseShapes]
    BY <1>0, PublishShape DEF ReleaseShapes, OrNone
  <2>2. request' \in [Publishers -> 1 .. Failed] /\ draftId' \in [Publishers -> OrNone(Releases)]
    BY <1>0, <1>1, <1>2, PublishShape DEF Answered, OrNone
  <2> QED BY <1>0, <2>1, <2>2, PublishShape DEF PubTyped, PublishTypeOK, ReleaseShapes, Local, Names
<1>6. \A q \in Publishers \ {p} : draftId'[q] = draftId[q] /\ (draftId[q] # None => Own(q)' = Own(q))
  BY <1>0, <1>4, OwnInReleases, PublishShape DEF Own
<1>7. draftId'[p] = r /\ Own(p)'.draft = TRUE /\ TRUE # FALSE
  BY <1>0, <1>4, PublishShape DEF Own
<1>8. PublicReleases' = PublicReleases
  <2>1. r \notin PublicReleases /\ r \notin PublicReleases'
    BY <1>4 DEF PublicReleases, Existing, Drafts
  <2>2. \A s \in Releases \ {r} : s \in PublicReleases' <=> s \in PublicReleases
    BY <1>4 DEF PublicReleases, Existing, Drafts
  <2>3. PublicReleases \subseteq Releases /\ PublicReleases' \subseteq Releases
    BY DEF PublicReleases, Existing
  <2> QED BY <2>1, <2>2, <2>3
<1>9. DraftsDistinct'
  BY <1>0, <1>6, <1>7 DEF DraftsDistinct
<1>10. PublishedOnce'
  <2>1. ~Published(p)'
    BY <1>7 DEF Published
  <2> QED BY <1>0, <1>6, <2>1 DEF PublishedOnce, Published
<1>11. \A j \in {2, 3, 4, 5, 6} : ~Beyond(p, j)' /\ \A q \in Publishers \ {p} : Beyond(q, j)' <=> Beyond(q, j)
  <2>1. \A j \in {2, 3, 4, 5, 6} : ~(Uploaded + j < 8)
    BY <1>0, PublisherStanding
  <2> QED BY <1>2, <2>1 DEF Beyond
<1>12. DraftKnown(p)' /\ UploadsKnown(p)' /\ FinaleSeen(p)' /\ AloneWithDraft(p)' /\ DoneSealed(p)'
  <2>1. DraftKnown(p)'
    BY <1>1, <1>2, <1>7 DEF DraftKnown
  <2>2. UploadsKnown(p)'
    <3>1. \A l \in DOMAIN Artifacts : 6 * l + 10 < 7 <=> 6 * l + 10 < 8
      BY ScriptLengths
    <3>2. {l \in DOMAIN Artifacts : 6 * l + 10 < request[p]} = {l \in DOMAIN Artifacts : 6 * l + 10 < request'[p]}
      BY <1>1, <1>2, <3>1
    <3>3. 7 <= Done
      BY <1>0, PublisherStanding
    <3> QED BY <1>0, <1>1, <3>2, <3>3 DEF UploadsKnown
  <2>5. ~Beyond(p, 2)' /\ ~Beyond(p, 3)' /\ ~Beyond(p, 4)' /\ ~Beyond(p, 5)' /\ ~Beyond(p, 6)' /\ request'[p] # Done
    BY <1>0, <1>2, <1>11, PublisherStanding
  <2>3. FinaleSeen(p)' /\ AloneWithDraft(p)' /\ DoneSealed(p)'
    BY <2>5 DEF FinaleSeen, AloneWithDraft, DoneSealed
  <2> QED BY <2>1, <2>2, <2>3
<1>13. ASSUME NEW q \in Publishers \ {p}
       PROVE  DraftKnown(q)' /\ UploadsKnown(q)' /\ FinaleSeen(q)' /\ AloneWithDraft(q)' /\ DoneSealed(q)'
  <2>0. Beyond(q, 2) \/ Beyond(q, 5) \/ request[q] = Done => draftId[q] # None
    <3>1. Beyond(q, 2) \/ Beyond(q, 5) \/ request[q] = Done => 7 < request[q] /\ request[q] <= Done
      BY <1>0, PublisherStanding DEF Beyond
    <3> QED BY <1>0, <3>1 DEF DraftKnown
  <2>1. DraftKnown(q)' /\ UploadsKnown(q)' /\ DoneSealed(q)'
    BY <1>0, <1>2, <1>6, <2>0 DEF DraftKnown, UploadsKnown, DoneSealed, Local, Names
  <2>2. FinaleSeen(q)'
    BY <1>0, <1>6, <1>8, <1>11, <2>0 DEF FinaleSeen, Withdrawn, Local, Names
  <2>3. AloneWithDraft(q)'
    <3>1. SUFFICES ASSUME Beyond(q, 2), ~Withdrawn(q), NEW s \in Publishers \ {q}, draftId'[s] # None
                   PROVE  Own(s)'.draft # FALSE /\ (Beyond(s, 2)' => Withdrawn(s)')
      BY <1>6, <1>11, <2>0 DEF AloneWithDraft, Withdrawn
    <3>2. CASE s = p
      BY <1>7, <1>11, <3>2
    <3>3. CASE s # p
      BY <1>0, <1>6, <1>11, <3>1, <3>3 DEF AloneWithDraft, Withdrawn
    <3> QED BY <3>2, <3>3
  <2> QED BY <2>1, <2>2, <2>3
<1> QED BY <1>5, <1>9, <1>10, <1>12, <1>13 DEF PubInv

(* An upload adds the one artifact its place in the script stands for.      *)
LEMMA UploadKeeps ==
    ASSUME PubInv, NEW p \in Publishers, Upload(p), Answered(p),
           releases' = [releases EXCEPT ![draftId[p]].assets = @ \cup {<<Next(p).artifact, "local">>}],
           uploads' = [uploads EXCEPT ![p] = @ \cup {<<Next(p).artifact, "local">>}],
           drifted' = [drifted EXCEPT ![p] = {}], UNCHANGED <<draftId, facts, drifts>>
    PROVE  PubInv'
<1> DEFINE i == request[p]
           r == draftId[p]
<1>0. /\ PubTyped /\ DraftsDistinct /\ PublishedOnce
      /\ \A q \in Publishers : DraftKnown(q) /\ UploadsKnown(q) /\ FinaleSeen(q) /\ AloneWithDraft(q) /\ DoneSealed(q)
  BY DEF PubInv
<1>1. i \in 12 .. Uploaded /\ \E k \in DOMAIN Artifacts : i = 6 * k + 10 /\ Next(p).artifact = Artifacts[k]
  <2>1. i \in 1 .. ScriptLength /\ Script[i].kind = "upload"
    BY <1>0, PublisherStanding DEF Upload, Asking, Next
  <2> QED BY <2>1, ScriptKinds DEF Next
<1>2. PICK k \in DOMAIN Artifacts : i = 6 * k + 10 /\ Next(p).artifact = Artifacts[k]
  BY <1>1
<1>3. /\ i \in Int /\ 7 < i /\ i <= Done /\ request'[p] = i + 1 /\ i + 1 \in 1 .. Failed
      /\ i + 1 < Uploaded + 2 /\ i + 1 < Done
      /\ 7 < i + 1 /\ ~(i + 1 <= 7)
      /\ \A q \in Publishers \ {p} : request'[q] = request[q]
  <2>1. i \in Int /\ 7 < i /\ i <= Done /\ i + 1 \in 1 .. Failed /\ i + 1 < Uploaded + 2 /\ i + 1 < Done /\ 7 < i + 1
    BY <1>0, <1>1, PublisherStanding
  <2> QED BY <1>0, <2>1, PublishShape DEF Answered
<1>4. r # None /\ r \in Releases /\ releases[r] \in ReleaseShapes
  BY <1>0, <1>3, OwnInReleases, PublishShape DEF DraftKnown
<1>5. /\ releases'[r].draft = releases[r].draft /\ releases'[r].sealed = releases[r].sealed
      /\ \A s \in Releases \ {r} : releases'[s] = releases[s]
  BY <1>0, <1>4, PublishShape DEF ReleaseShapes
<1>6. <<Next(p).artifact, "local">> \in Local
  BY <1>2 DEF Local, Names
<1>7. PubTyped'
  <2>1. releases' \in [Releases -> ReleaseShapes]
    BY <1>0, <1>4, <1>6, PublishShape DEF ReleaseShapes
  <2>2. request' \in [Publishers -> 1 .. Failed] /\ uploads' \in [Publishers -> SUBSET Local]
        /\ drifted' \in [Publishers -> SUBSET DriftKinds]
    BY <1>0, <1>3, <1>6, PublishShape DEF Answered
  <2> QED BY <1>0, <2>1, <2>2, PublishShape DEF PubTyped, PublishTypeOK, ReleaseShapes, Local, Names
<1>8. \A q \in Publishers \ {p} : draftId[q] # None => Own(q)' = Own(q)
  BY <1>0, <1>4, <1>5, OwnInReleases DEF Own, DraftsDistinct
<1>9. Own(p)'.draft = Own(p).draft
  BY <1>5 DEF Own
<1>10. PublicReleases' = PublicReleases
  <2>1. \A s \in Releases : releases'[s].draft = releases[s].draft
    BY <1>5
  <2> QED BY <2>1 DEF PublicReleases, Existing, Drafts
<1>11. DraftsDistinct' /\ PublishedOnce'
  <2>1. \A q \in Publishers : Published(q)' => Published(q)
    BY <1>8, <1>9 DEF Published
  <2> QED BY <1>0, <2>1 DEF DraftsDistinct, PublishedOnce
<1>12. \A j \in {2, 3, 4, 5, 6} : ~Beyond(p, j)' /\ \A q \in Publishers \ {p} : Beyond(q, j)' <=> Beyond(q, j)
  <2>1. \A j \in {2, 3, 4, 5, 6} : ~(Uploaded + j < i + 1)
    BY <1>0, <1>3, PublisherStanding
  <2> QED BY <1>3, <2>1 DEF Beyond
<1>13. DraftKnown(p)' /\ UploadsKnown(p)' /\ FinaleSeen(p)' /\ AloneWithDraft(p)' /\ DoneSealed(p)'
  <2>1. DraftKnown(p)'
    BY <1>3, <1>4 DEF DraftKnown
  <2>2. UploadsKnown(p)'
    <3>1. \A l \in DOMAIN Artifacts : 6 * l + 10 < i + 1 <=> 6 * l + 10 < i \/ l = k
      <4>1. \A l \in DOMAIN Artifacts : l \in Int
        BY ScriptLengths
      <4> QED BY <1>2, <1>3, <4>1
    <3>2. {l \in DOMAIN Artifacts : 6 * l + 10 < i + 1} = {l \in DOMAIN Artifacts : 6 * l + 10 < i} \cup {k}
      BY <3>1
    <3>3. uploads[p] = {<<Artifacts[l], "local">> : l \in {m \in DOMAIN Artifacts : 6 * m + 10 < i}}
      BY <1>0, <1>3 DEF UploadsKnown
    <3>4. uploads'[p] = uploads[p] \cup {<<Artifacts[k], "local">>}
      BY <1>0, <1>2, PublishShape
    <3>5. uploads'[p] = {<<Artifacts[l], "local">> : l \in {m \in DOMAIN Artifacts : 6 * m + 10 < i + 1}}
      BY <3>2, <3>3, <3>4
    <3> QED BY <1>3, <3>5 DEF UploadsKnown
  <2>5. ~Beyond(p, 2)' /\ ~Beyond(p, 3)' /\ ~Beyond(p, 4)' /\ ~Beyond(p, 5)' /\ ~Beyond(p, 6)' /\ request'[p] # Done
    BY <1>0, <1>3, <1>12, PublisherStanding
  <2>3. FinaleSeen(p)' /\ AloneWithDraft(p)' /\ DoneSealed(p)'
    BY <2>5 DEF FinaleSeen, AloneWithDraft, DoneSealed
  <2> QED BY <2>1, <2>2, <2>3
<1>14. ASSUME NEW q \in Publishers \ {p}
       PROVE  DraftKnown(q)' /\ UploadsKnown(q)' /\ FinaleSeen(q)' /\ AloneWithDraft(q)' /\ DoneSealed(q)'
  <2>0. Beyond(q, 2) \/ Beyond(q, 5) \/ request[q] = Done => draftId[q] # None
    <3>1. Beyond(q, 2) \/ Beyond(q, 5) \/ request[q] = Done => 7 < request[q] /\ request[q] <= Done
      BY <1>0, PublisherStanding DEF Beyond
    <3> QED BY <1>0, <3>1 DEF DraftKnown
  <2>1. drifted'[q] = drifted[q] /\ uploads'[q] = uploads[q]
    BY <1>0, PublishShape
  <2>2. DraftKnown(q)' /\ UploadsKnown(q)' /\ DoneSealed(q)'
    BY <1>0, <1>3, <1>8, <2>0, <2>1 DEF DraftKnown, UploadsKnown, DoneSealed, Local, Names
  <2>3. FinaleSeen(q)'
    BY <1>0, <1>8, <1>10, <1>12, <2>0, <2>1 DEF FinaleSeen, Withdrawn, Local, Names
  <2>4. AloneWithDraft(q)'
    <3>1. SUFFICES ASSUME Beyond(q, 2), ~Withdrawn(q), NEW s \in Publishers \ {q}, draftId[s] # None
                   PROVE  Own(s)'.draft # FALSE /\ (Beyond(s, 2)' => Withdrawn(s)')
      BY <1>8, <1>12, <2>0 DEF AloneWithDraft, Withdrawn
    <3>2. Own(s)'.draft = Own(s).draft /\ (Beyond(s, 2)' => Beyond(s, 2))
      BY <1>8, <1>9, <1>12, <3>1
    <3> QED BY <1>0, <3>1, <3>2 DEF AloneWithDraft, Withdrawn
  <2> QED BY <2>2, <2>3, <2>4
<1> QED BY <1>7, <1>11, <1>13, <1>14 DEF PubInv

(* The release of a publisher that is alone with it is the only one to be   *)
(* published.                                                               *)
LEMMA PublishKeeps ==
    ASSUME PubInv, NEW p \in Publishers, Asking(p, "publish"), ~Withdrawn(p),
           releases' = [releases EXCEPT ![draftId[p]].draft = FALSE,
                                        ![draftId[p]].sealed = @ \/ "immutable" \in facts],
           Answered(p) \/ GivesUp(p), UNCHANGED <<draftId, uploads, facts, drifted, drifts>>
    PROVE  PubInv'
<1> DEFINE i == request[p]
           r == draftId[p]
<1>0. /\ PubTyped /\ DraftsDistinct /\ PublishedOnce
      /\ \A q \in Publishers : DraftKnown(q) /\ UploadsKnown(q) /\ FinaleSeen(q) /\ AloneWithDraft(q) /\ DoneSealed(q)
  BY DEF PubInv
<1>1. i = Uploaded + 9
  <2>1. i \in 1 .. ScriptLength /\ Script[i].kind = "publish"
    BY <1>0, PublisherStanding DEF Asking, Next
  <2> QED BY <2>1, ScriptKinds
<1>2. /\ i \in Int /\ 7 < i /\ i <= Done /\ request'[p] \in {i + 1, Failed} /\ request'[p] \in 1 .. Failed /\ i + 1 < Done
      /\ Failed # Done /\ ~(Failed <= Done) /\ ~(request'[p] <= 7) /\ request'[p] # Done
      /\ \A q \in Publishers \ {p} : request'[q] = request[q]
  <2>1. /\ i \in Int /\ 7 < i /\ i <= Done /\ i + 1 \in 1 .. Failed /\ Failed \in 1 .. Failed /\ i + 1 < Done
        /\ Failed # Done /\ ~(Failed <= Done) /\ ~(Failed <= 7) /\ ~(i + 1 <= 7) /\ i + 1 # Done
    BY <1>0, <1>1, PublisherStanding
  <2>2. request'[p] \in {i + 1, Failed} /\ \A q \in Publishers \ {p} : request'[q] = request[q]
    BY <1>0, PublishShape DEF Answered, GivesUp
  <2> QED BY <2>1, <2>2
<1>3. r # None /\ r \in Releases /\ releases[r] \in ReleaseShapes
  BY <1>0, <1>2, OwnInReleases, PublishShape DEF DraftKnown
<1>4. /\ releases'[r].draft = FALSE /\ releases'[r].assets = releases[r].assets
      /\ \A s \in Releases \ {r} : releases'[s] = releases[s]
  BY <1>0, <1>3, PublishShape DEF ReleaseShapes
<1>5. PubTyped'
  <2>1. releases' \in [Releases -> ReleaseShapes]
    BY <1>0, <1>3, PublishShape DEF ReleaseShapes, OrNone
  <2>2. request' \in [Publishers -> 1 .. Failed]
    BY <1>0, <1>2, PublishShape DEF Answered, GivesUp
  <2> QED BY <1>0, <2>1, <2>2, PublishShape DEF PubTyped, PublishTypeOK, ReleaseShapes, Local, Names
<1>6. \A q \in Publishers \ {p} : draftId[q] # None => Own(q)' = Own(q)
  BY <1>0, <1>3, <1>4, OwnInReleases DEF Own, DraftsDistinct
<1>7. Own(p)'.draft = FALSE /\ Own(p)'.assets = Own(p).assets
  BY <1>4 DEF Own
<1>8. \A j \in {2, 3, 4, 5, 6} : Beyond(p, j) /\ \A q \in Publishers \ {p} : Beyond(q, j)' <=> Beyond(q, j)
  <2>1. \A j \in {2, 3, 4, 5, 6} : Uploaded + j < i
    BY <1>0, <1>1, PublisherStanding
  <2> QED BY <1>2, <2>1 DEF Beyond
<1>9. PublicReleases' \subseteq PublicReleases \cup {r}
  <2>1. \A s \in Releases \ {r} : s \in PublicReleases' <=> s \in PublicReleases
    BY <1>4 DEF PublicReleases, Existing, Drafts
  <2>2. PublicReleases' \subseteq Releases
    BY DEF PublicReleases, Existing
  <2> QED BY <2>1, <2>2
<1>10. \A q \in Publishers \ {p} : draftId[q] # None => Own(q).draft # FALSE /\ (Beyond(q, 2) => Withdrawn(q))
  BY <1>0, <1>8 DEF AloneWithDraft
<1>11. DraftsDistinct' /\ PublishedOnce'
  <2>1. \A q \in Publishers \ {p} : ~Published(q)'
    BY <1>6, <1>10 DEF Published
  <2> QED BY <1>0, <2>1 DEF DraftsDistinct, PublishedOnce
<1>12. DraftKnown(p)' /\ UploadsKnown(p)' /\ FinaleSeen(p)' /\ AloneWithDraft(p)' /\ DoneSealed(p)'
  <2>1. DraftKnown(p)' /\ DoneSealed(p)'
    BY <1>2, <1>3 DEF DraftKnown, DoneSealed
  <2>2. UploadsKnown(p)'
    <3>1. uploads[p] = Local /\ Local = {<<Artifacts[l], "local">> : l \in DOMAIN Artifacts}
      <4>1. Uploaded < request[p]
        BY <1>0, <1>1, PublisherStanding
      <4> QED BY <1>2, <4>1, AllUploaded DEF Local, Names
    <3>2. {l \in DOMAIN Artifacts : 6 * l + 10 < i + 1} = DOMAIN Artifacts
      BY <1>1, ScriptLengths
    <3>3. request'[p] <= Done => request'[p] = i + 1
      BY <1>2
    <3> QED BY <3>1, <3>2, <3>3 DEF UploadsKnown
  <2>3. FinaleSeen(p)'
    BY <1>0, <1>7, <1>8, <1>9 DEF FinaleSeen, Withdrawn, Local, Names
  <2>4. AloneWithDraft(p)'
    <3>1. SUFFICES ASSUME NEW q \in Publishers \ {p}, draftId[q] # None
                   PROVE  Own(q)'.draft # FALSE /\ (Beyond(q, 2)' => Withdrawn(q)')
      BY DEF AloneWithDraft
    <3> QED BY <1>6, <1>8, <1>10, <3>1 DEF Withdrawn
  <2> QED BY <2>1, <2>2, <2>3, <2>4
<1>13. ASSUME NEW q \in Publishers \ {p}
       PROVE  DraftKnown(q)' /\ UploadsKnown(q)' /\ FinaleSeen(q)' /\ AloneWithDraft(q)' /\ DoneSealed(q)'
  <2>0. Beyond(q, 2) \/ Beyond(q, 5) \/ request[q] = Done => draftId[q] # None
    <3>1. Beyond(q, 2) \/ Beyond(q, 5) \/ request[q] = Done => 7 < request[q] /\ request[q] <= Done
      BY <1>0, PublisherStanding DEF Beyond
    <3> QED BY <1>0, <3>1 DEF DraftKnown
  <2>1. DraftKnown(q)' /\ UploadsKnown(q)' /\ DoneSealed(q)'
    BY <1>0, <1>2, <1>6, <2>0 DEF DraftKnown, UploadsKnown, DoneSealed, Local, Names
  <2>2. Beyond(q, 2)' => Withdrawn(q)'
    BY <1>6, <1>8, <1>10, <2>0 DEF Withdrawn
  <2>3. FinaleSeen(q)'
    BY <1>0, <1>6, <1>8, <2>0, <2>2 DEF FinaleSeen, Withdrawn, Local, Names
  <2>4. AloneWithDraft(q)'
    BY <2>2 DEF AloneWithDraft
  <2> QED BY <2>1, <2>3, <2>4
<1> QED BY <1>5, <1>11, <1>12, <1>13 DEF PubInv

(* Giving up publishes no draft, also where the request was half done: a    *)
(* draft nobody knows of was created, or an asset was added.                *)
LEMMA GivingUpIsUnpublishing ==
    ASSUME PubInv, NEW p \in Publishers, Running(p), GivesUp(p), draftId' = draftId, uploads' = uploads, facts' = facts,
           drifted' = drifted, drifts' \in 0 .. Drifts, releases' \in [Releases -> ReleaseShapes],
           \A r \in Releases : \/ releases'[r].draft = releases[r].draft
                               \/ releases[r].draft = None /\ releases'[r].draft = TRUE,
           \A q \in Publishers : draftId[q] # None =>
               Own(q)' = Own(q) \/ (q = p /\ Own(q)'.draft = Own(q).draft /\ ~Own(q).sealed)
    PROVE  PubInv'
<1>0. PubTyped
  BY DEF PubInv
<1>1. \A q \in Publishers : request'[q] = request[q] \/ request'[q] = Failed
  BY <1>0, PublishShape DEF GivesUp
<1>2. request'[p] = Failed
  BY <1>0, PublishShape DEF GivesUp
<1>3. PubTyped'
  <2>1. Failed \in 1 .. Failed
    BY <1>0, PublisherStanding
  <2>2. request' \in [Publishers -> 1 .. Failed]
    BY <1>0, <2>1, PublishShape DEF GivesUp
  <2> QED BY <1>0, <2>2, PublishShape DEF PubTyped, PublishTypeOK, ReleaseShapes, Local, Names
<1>4. PublicReleases' \subseteq PublicReleases
  <2>1. \A s \in Releases : s \in PublicReleases' => s \in PublicReleases
    BY DEF PublicReleases, Existing, Drafts
  <2> QED BY <2>1 DEF PublicReleases, Existing
<1>5. Unpublishing
  BY <1>1, <1>2, <1>4 DEF Unpublishing
<1> QED BY <1>3, <1>5, UnpublishingKeeps
(* A step of another part of the system changes nothing of the publishers.  *)
LEMMA PublishersStill == ASSUME PubInv, UNCHANGED pubVars PROVE PubInv'
<1>1. PubTyped'
  BY DEF PubInv, pubVars, PubTyped, PublishTypeOK, Local, Names
<1>2. Unpublishing
  BY DEF pubVars, Unpublishing, PublicReleases, Existing, Drafts, Own
<1> QED BY <1>1, <1>2, UnpublishingKeeps
(* A publisher that gives up, and leaves the service as it is, keeps the    *)
(* invariant.                                                               *)
LEMMA GivingUpKeeps ==
    ASSUME PubInv, NEW p \in Publishers, Running(p), GivesUp(p), drifts' \in 0 .. Drifts,
           UNCHANGED <<draftId, uploads, releases, facts, drifted>>
    PROVE  PubInv'
<1>1. releases' \in [Releases -> ReleaseShapes] /\ \A q \in Publishers : Own(q)' = Own(q)
  BY PublishShape DEF PubInv, Own
<1> QED BY <1>1, GivingUpIsUnpublishing

(* A publisher's step, by its request.                                      *)
LEMMA PublisherKeeps ==
    ASSUME PubInv, NEW p \in Publishers,
           Query(p) \/ Create(p) \/ Upload(p) \/ PublishDraft(p) \/ RequestLost(p)
    PROVE  PubInv'
<1>0. PubTyped /\ drifts \in 0 .. Drifts /\ releases \in [Releases -> ReleaseShapes] /\ DraftKnown(p) /\ DraftsDistinct
  BY PublishShape DEF PubInv
<1>1. CASE Query(p)
  <2>1. CASE Expected(p, Next(p).kind)
    BY <1>1, <2>1, QueryKeeps DEF Query
  <2>2. CASE ~Expected(p, Next(p).kind)
    BY <1>0, <1>1, <2>2, GivingUpKeeps DEF Query
  <2> QED BY <2>1, <2>2
<1>2. CASE Create(p)
  <2>1. Running(p)
    BY <1>2 DEF Create, Asking
  <2>2. ASSUME NEW r \in Releases \ Existing, \A q \in Publishers : draftId[q] # r,
               releases' = [releases EXCEPT ![r].draft = TRUE],
               Answered(p) /\ draftId' = [draftId EXCEPT ![p] = r]
        PROVE  PubInv'
    BY <1>2, <2>2, CreateKeeps DEF Create
  <2>3. ASSUME NEW r \in Releases \ Existing, \A q \in Publishers : draftId[q] # r,
               releases' = [releases EXCEPT ![r].draft = TRUE], GivesUp(p) /\ UNCHANGED draftId
        PROVE  PubInv'
    <3>1. releases[r].draft = None /\ releases[r] \in ReleaseShapes
      BY <1>0 DEF Existing
    <3>2. /\ releases' \in [Releases -> ReleaseShapes] /\ releases'[r].draft = TRUE
          /\ \A s \in Releases \ {r} : releases'[s] = releases[s]
      BY <1>0, <2>3, <3>1 DEF ReleaseShapes, OrNone
    <3>3. \A q \in Publishers : draftId[q] # None => Own(q)' = Own(q)
      BY <1>0, <2>3, <3>2, OwnInReleases DEF Own
    <3>4. \A s \in Releases : \/ releases'[s].draft = releases[s].draft
                              \/ releases[s].draft = None /\ releases'[s].draft = TRUE
      BY <3>1, <3>2
    <3> QED BY <1>0, <1>2, <2>1, <2>3, <3>2, <3>3, <3>4, GivingUpIsUnpublishing DEF Create
  <2>4. ASSUME GivesUp(p) /\ UNCHANGED <<releases, draftId>> PROVE PubInv'
    BY <1>0, <1>2, <2>1, <2>4, GivingUpKeeps DEF Create
  <2> QED BY <1>2, <2>2, <2>3, <2>4 DEF Create
<1>3. CASE Upload(p)
  <2>1. Running(p) /\ draftId[p] # None /\ draftId[p] \in Releases /\ <<Next(p).artifact, "local">> \in Local
    <3>1. request[p] \in 1 .. ScriptLength /\ Script[request[p]].kind = "upload" /\ Running(p)
      BY <1>0, <1>3, PublisherStanding DEF Upload, Asking, Next
    <3>2. request[p] \in 12 .. Uploaded /\ \E k \in DOMAIN Artifacts : Next(p).artifact = Artifacts[k]
      BY <3>1, ScriptKinds DEF Next
    <3>3. 7 < request[p] /\ request[p] <= Done
      BY <1>0, <3>2, PublisherStanding
    <3> QED BY <1>0, <3>1, <3>2, <3>3, OwnInReleases DEF DraftKnown, Local, Names
  <2> DEFINE asset == <<Next(p).artifact, "local">>
  <2>2. ASSUME ~Own(p).sealed, releases' = [releases EXCEPT ![draftId[p]].assets = @ \cup {asset}],
               GivesUp(p) /\ UNCHANGED <<uploads, drifted>>
        PROVE  PubInv'
    <3>1. releases[draftId[p]] \in ReleaseShapes
      BY <1>0, <2>1
    <3>2. /\ releases' \in [Releases -> ReleaseShapes] /\ releases'[draftId[p]].draft = releases[draftId[p]].draft
          /\ \A s \in Releases \ {draftId[p]} : releases'[s] = releases[s]
      BY <1>0, <2>1, <2>2, <3>1 DEF ReleaseShapes
    <3>3. \A q \in Publishers : draftId[q] # None =>
             Own(q)' = Own(q) \/ (q = p /\ Own(q)'.draft = Own(q).draft /\ ~Own(q).sealed)
      BY <1>0, <1>3, <2>1, <2>2, <3>2, OwnInReleases DEF Own, DraftsDistinct, Upload
    <3>4. \A s \in Releases : releases'[s].draft = releases[s].draft
      BY <3>2
    <3> QED BY <1>0, <1>3, <2>1, <2>2, <3>2, <3>3, <3>4, GivingUpIsUnpublishing DEF Upload
  <2>3. ASSUME GivesUp(p) /\ UNCHANGED <<releases, uploads, drifted>> PROVE PubInv'
    BY <1>0, <1>3, <2>1, <2>3, GivingUpKeeps DEF Upload
  <2>4. ASSUME releases' = [releases EXCEPT ![draftId[p]].assets = @ \cup {asset}],
               Answered(p) /\ uploads' = [uploads EXCEPT ![p] = @ \cup {asset}] /\ drifted' = [drifted EXCEPT ![p] = {}]
        PROVE  PubInv'
    BY <1>3, <2>4, UploadKeeps DEF Upload
  <2> QED BY <1>3, <2>2, <2>3, <2>4 DEF Upload
<1>4. CASE PublishDraft(p)
  <2>1. Running(p)
    BY <1>4 DEF PublishDraft, Asking
  <2>2. CASE GivesUp(p) /\ UNCHANGED releases
    BY <1>0, <1>4, <2>1, <2>2, GivingUpKeeps DEF PublishDraft
  <2>3. CASE /\ Own(p).draft # None
             /\ releases' = [releases EXCEPT ![draftId[p]].draft = FALSE,
                                             ![draftId[p]].sealed = @ \/ "immutable" \in facts]
             /\ Answered(p) \/ GivesUp(p)
    BY <1>4, <2>3, PublishKeeps DEF PublishDraft, Withdrawn
  <2> QED BY <1>4, <2>2, <2>3 DEF PublishDraft
<1>5. CASE RequestLost(p)
  <2>1. drifts' \in 0 .. Drifts
    BY <1>0, <1>5, PublishAssumption DEF RequestLost, PublishAssumption
  <2> QED BY <1>5, <2>1, GivingUpKeeps DEF RequestLost
<1> QED BY <1>1, <1>2, <1>3, <1>4, <1>5

(* What others change is noted of every publisher.                          *)
LEMMA DriftKeeps ==
    ASSUME PubInv, NEW what \in DriftKinds, Drift(what),
           releases' \in [Releases -> ReleaseShapes], facts' \subseteq Repository,
           facts \subseteq facts' \cup {what}, what = "release" \/ PublicReleases' \subseteq PublicReleases,
           \A q \in Publishers : draftId[q] # None =>
                /\ Own(q)'.draft = Own(q).draft \/ (Own(q).draft = TRUE /\ Own(q)'.draft = None)
                /\ what = "assets" \/ Own(q)'.assets = Own(q).assets \/ Own(q)'.draft = None
                /\ Own(q).sealed /\ Own(q).draft = FALSE => Own(q)' = Own(q)
    PROVE  PubInv'
<1>0. PubTyped
  BY DEF PubInv
<1>1. \A q \in Publishers : drifted'[q] = drifted[q] \cup {what}
  BY DEF Drift
<1>2. PubTyped'
  <2>1. drifts' \in 0 .. Drifts
    BY <1>0, PublishShape, PublishAssumption DEF Drift, PublishAssumption
  <2>2. drifted' \in [Publishers -> SUBSET DriftKinds]
    BY <1>0, PublishShape DEF Drift
  <2> QED BY <1>0, <2>1, <2>2, PublishShape DEF Drift, PubTyped, PublishTypeOK, ReleaseShapes, Local, Names
<1>3. Unpublishing
  BY <1>1 DEF Unpublishing, Drift
<1> QED BY <1>2, <1>3, UnpublishingKeeps
(* Others may change facts, assets of what is not sealed, add releases and  *)
(* delete drafts: they publish no draft of a publisher.                     *)
LEMMA OthersKeep ==
    ASSUME PubInv, \/ \E fact \in Repository : ChangeRepository(fact)
                   \/ \E r \in Releases : ChangeAssets(r) \/ AddRelease(r) \/ DeleteDraft(r)
    PROVE  PubInv'
<1>0. PubTyped /\ releases \in [Releases -> ReleaseShapes] /\ facts \subseteq Repository /\ Repository \subseteq DriftKinds
      /\ {"assets", "release", "draft"} \subseteq DriftKinds
  BY PublishShape DEF PubInv, DriftKinds
<1>1. ASSUME NEW fact \in Repository, ChangeRepository(fact) PROVE PubInv'
  <2>1. /\ Drift(fact) /\ UNCHANGED releases /\ facts' \subseteq Repository /\ facts \subseteq facts' \cup {fact}
    BY <1>0, <1>1 DEF ChangeRepository
  <2>2. PublicReleases' = PublicReleases /\ \A q \in Publishers : draftId[q] # None => Own(q)' = Own(q)
    BY <2>1 DEF Drift, PublicReleases, Existing, Drafts, Own
  <2> QED BY <1>0, <2>1, <2>2, DriftKeeps
<1>2. ASSUME NEW r \in Releases, ChangeAssets(r) PROVE PubInv'
  <2>1. PICK assets \in SUBSET (Local \cup {<<Foreign, "foreign">>}) : releases' = [releases EXCEPT ![r].assets = assets]
    BY <1>0, <1>2 DEF ChangeAssets, ReleaseShapes
  <2>2. /\ releases' \in [Releases -> ReleaseShapes] /\ releases'[r].draft = releases[r].draft /\ ~releases[r].sealed
        /\ \A s \in Releases \ {r} : releases'[s] = releases[s]
    BY <1>0, <1>2, <2>1 DEF ChangeAssets, ReleaseShapes
  <2>3. PublicReleases' = PublicReleases
    <3>1. \A s \in Releases : releases'[s].draft = releases[s].draft
      BY <2>2
    <3> QED BY <3>1 DEF PublicReleases, Existing, Drafts
  <2>4. \A q \in Publishers : draftId[q] # None =>
           Own(q)'.draft = Own(q).draft /\ (Own(q).sealed => Own(q)' = Own(q))
    BY <1>0, <1>2, <2>2, OwnInReleases DEF ChangeAssets, Drift, Own
  <2> QED BY <1>0, <1>2, <2>2, <2>3, <2>4, DriftKeeps DEF ChangeAssets
<1>3. ASSUME NEW r \in Releases, AddRelease(r) PROVE PubInv'
  <2>1. PICK draft \in BOOLEAN : releases' = [releases EXCEPT ![r].draft = draft]
    BY <1>3 DEF AddRelease
  <2>2. releases' \in [Releases -> ReleaseShapes] /\ \A s \in Releases \ {r} : releases'[s] = releases[s]
    BY <1>0, <2>1 DEF ReleaseShapes, OrNone
  <2>3. \A q \in Publishers : draftId[q] # None => Own(q)' = Own(q)
    BY <1>0, <1>3, <2>2, OwnInReleases DEF AddRelease, Drift, Own
  <2> QED BY <1>0, <1>3, <2>2, <2>3, DriftKeeps DEF AddRelease
<1>4. ASSUME NEW r \in Releases, DeleteDraft(r) PROVE PubInv'
  <2>1. NoRelease \in ReleaseShapes /\ NoRelease.draft = None /\ releases[r].draft = TRUE
    BY <1>4 DEF NoRelease, ReleaseShapes, OrNone, DeleteDraft, Drafts
  <2>2. /\ releases' \in [Releases -> ReleaseShapes] /\ releases'[r].draft = None
        /\ \A s \in Releases \ {r} : releases'[s] = releases[s]
    BY <1>0, <1>4, <2>1 DEF DeleteDraft
  <2>3. PublicReleases' \subseteq PublicReleases
    BY <2>2 DEF PublicReleases, Existing, Drafts
  <2>4. None # FALSE /\ None # TRUE
    BY PublishAssumption DEF PublishAssumption
  <2>5. \A q \in Publishers : draftId[q] # None =>
           Own(q)' = Own(q) \/ (Own(q).draft = TRUE /\ Own(q)'.draft = None)
    BY <1>0, <1>4, <2>1, <2>2, OwnInReleases DEF DeleteDraft, Drift, Own
  <2>6. TRUE # FALSE
    OBVIOUS
  <2> QED BY <1>0, <1>4, <2>2, <2>3, <2>5, <2>6, DriftKeeps DEF DeleteDraft
<1> QED BY <1>1, <1>2, <1>3, <1>4

(* What the drift's notes say of the moment a draft is published.           *)
LEMMA StepNotices ==
    ASSUME PubInv, PublishNext, NEW p \in Publishers,
           Asking(p, "publish"), releases' # releases, request'[p] = request[p] + 1
    PROVE  /\ Repository \ facts \subseteq drifted[p]
           /\ Existing \ Drafts \subseteq {draftId[p]} \/ "release" \in drifted[p]
           /\ Own(p).assets = Local \/ "assets" \in drifted[p]
<1>0. PubTyped /\ FinaleSeen(p)
  BY DEF PubInv
<1>1. request[p] \in 1 .. ScriptLength /\ Script[request[p]].kind = "publish" /\ request[p] \in Int
  BY <1>0, PublisherStanding DEF Asking, Next
<1>2. Beyond(p, 2) /\ Beyond(p, 3) /\ Beyond(p, 4) /\ Beyond(p, 5) /\ Beyond(p, 6)
  <2>1. request[p] = Uploaded + 9
    BY <1>1, ScriptKinds
  <2> QED BY <1>0, <2>1, PublisherStanding DEF Beyond
<1>3. ~Withdrawn(p)
  <2>1. request'[p] # request[p]
    BY <1>1
  <2>2. "publish" \notin Queries \cup {"create", "upload"}
    BY DEF Queries, Repository
  <2>3. ~(Query(p) \/ Create(p) \/ Upload(p) \/ RequestLost(p))
    BY <1>1, <2>2 DEF Query, Create, Upload, RequestLost, Asking, Next
  <2>4. ASSUME NEW q \in Publishers \ {p}, Query(q) \/ Create(q) \/ Upload(q) \/ PublishDraft(q) \/ RequestLost(q)
        PROVE  FALSE
    <3>1. request' = [request EXCEPT ![q] = @ + 1] \/ request' = [request EXCEPT ![q] = Failed]
      BY <2>4 DEF Query, Create, Upload, PublishDraft, RequestLost, Answered, GivesUp
    <3> QED BY <1>0, <2>1, <3>1, PublishShape
  <2>5. ~(\E fact \in Repository : ChangeRepository(fact))
    BY <2>1 DEF ChangeRepository, Drift
  <2>6. ~(\E r \in Releases : ChangeAssets(r) \/ AddRelease(r) \/ DeleteDraft(r))
    BY <2>1 DEF ChangeAssets, AddRelease, DeleteDraft, Drift
  <2>7. PublishDraft(p)
    BY <2>3, <2>4, <2>5, <2>6 DEF PublishNext
  <2> QED BY <2>7 DEF PublishDraft, Withdrawn
<1> QED BY <1>0, <1>2, <1>3 DEF FinaleSeen, Repository, PublicReleases

(* However many publishers of one tag race through publish, whatever        *)
(* requests are lost and whatever others change, the release of at most one *)
(* is published: _require_only_owned_draft finds its draft alone before the *)
(* PATCH. What others changed before the last upload is noticed before it,  *)
(* and a publisher that returns has sealed exactly its artifacts.           *)
THEOREM PublicationIsVerified == PublishSpec => []PublishTypeOK /\ PublicationVerified
<1>1. PublishInit => PubInv
  BY PublishStarts
<1>2. PubInv /\ [PublishNext]_pubVars => PubInv'
  BY PublisherKeeps, OthersKeep, PublishersStill DEF PublishNext
<1>3. PubInv => PublishTypeOK /\ PublishedOnce /\ DoneIsExact
  BY DEF PubInv, PubTyped, DoneIsExact, DoneSealed
<1>4. PubInv /\ [PublishNext]_pubVars =>
        [\A p \in Publishers :
            Asking(p, "publish") /\ releases' # releases /\ request'[p] = request[p] + 1 =>
                /\ Repository \ facts \subseteq drifted[p]
                /\ Existing \ Drafts \subseteq {draftId[p]} \/ "release" \in drifted[p]
                /\ Own(p).assets = Local \/ "assets" \in drifted[p]]_pubVars
  <2> SUFFICES ASSUME PubInv, [PublishNext]_pubVars, ~UNCHANGED pubVars
               PROVE  \A p \in Publishers :
                         Asking(p, "publish") /\ releases' # releases /\ request'[p] = request[p] + 1 =>
                            /\ Repository \ facts \subseteq drifted[p]
                            /\ Existing \ Drafts \subseteq {draftId[p]} \/ "release" \in drifted[p]
                            /\ Own(p).assets = Local \/ "assets" \in drifted[p]
    OBVIOUS
  <2> QED BY StepNotices
<1> QED BY <1>1, <1>2, <1>3, <1>4, PTL DEF PublishSpec, PublicationVerified, DriftNoticed
==============================================================================
