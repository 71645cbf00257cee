--------------------------- MODULE PublishSafety ---------------------------
(* The types of PublishRelease and what a published release promises.       *)
EXTENDS PublishRelease

Names == {Artifacts[i] : i \in DOMAIN Artifacts}
Local == {<<a, "local">> : a \in Names}

(* Every publisher is at a request of its script.                           *)
PublishTypeOK ==
    /\ request \in [Publishers -> 1 .. Failed]
    /\ draftId \in [Publishers -> OrNone(Releases)] /\ uploads \in [Publishers -> SUBSET Local]
    /\ releases \in [Releases -> [draft : OrNone(BOOLEAN), sealed : BOOLEAN,
                                  assets : SUBSET (Local \cup {<<Foreign, "foreign">>})]]
    /\ facts \subseteq Repository /\ drifts \in 0 .. Drifts

(* However publishers race, whatever others change, and without the service *)
(* refusing anything: of one tag, one publisher's release is published at   *)
(* most.                                                                    *)
Published(p) == draftId[p] # None /\ Own(p).draft = FALSE
PublishedOnce == \A p, q \in Publishers : Published(p) /\ Published(q) => p = q

(* What others changed before the last upload ended is noticed before the   *)
(* release is published; only a change after it may be missed, as the       *)
(* service publishes unconditionally.                                       *)
DriftNoticed ==
    [][\A p \in Publishers :
        Asking(p, "publish") /\ releases' # releases /\ request'[p] = request[p] + 1 =>
            /\ Repository \ facts \subseteq drifted[p]
            /\ Existing \ Drafts \subseteq {draftId[p]} \/ "release" \in drifted[p]
            /\ Own(p).assets = Local \/ "assets" \in drifted[p]]_pubVars

(* A publisher that reports success has published all its artifacts and     *)
(* nothing else, and nobody can change them any more: the last look comes   *)
(* after the release was sealed.                                            *)
DoneIsExact ==
    \A p \in Publishers :
        request[p] = Done => Own(p).assets = Local /\ Own(p).sealed /\ Own(p).draft = FALSE

(* One release is published, of exactly the artifacts, and of a repository  *)
(* that nobody was seen to change.                                          *)
PublicationVerified == [](PublishedOnce /\ DoneIsExact) /\ DriftNoticed
============================================================================
