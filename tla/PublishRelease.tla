--------------------------- MODULE PublishRelease ---------------------------
(***************************************************************************)
(* publish of publish_release.py: it creates a draft release for a tag,    *)
(* uploads its artifacts and publishes it, over a service that has no      *)
(* transactions: between any two requests another publisher of the tag, or *)
(* anybody with access, may change what was read.  A publisher is the list *)
(* of its requests; each is answered, or lost before or after it took      *)
(* effect, and any unexpected answer ends it.                              *)
(*                                                                         *)
(* The service is external: it numbers releases, allows several drafts of  *)
(* one tag, seals a release that is published while immutability is on and *)
(* may or may not refuse a second published release of a tag.              *)
(***************************************************************************)
EXTENDS Absent, Naturals, Sequences, FiniteSets

CONSTANTS
    Publishers,    \* runs of the workflow for one tag and target
    Artifacts,     \* the artifacts in the order of their upload
    Releases,      \* the numbers the service may give
    Drifts         \* how often somebody else changes something
ASSUME PublishAssumption ==
    /\ Drifts \in Nat /\ None \notin Releases /\ None \notin BOOLEAN
    /\ Artifacts \in Seq({Artifacts[i] : i \in DOMAIN Artifacts})

VARIABLES
    request,     \* the next request of each publisher, or how it ended
    draftId,     \* the release each has created
    uploads,     \* what each has uploaded
    releases,    \* the releases of the service
    facts,       \* what holds of the repository
    drifted,     \* history: what others changed since each publisher's last upload
    drifts       \* changes left

pubVars == <<request, draftId, uploads, releases, facts, drifted, drifts>>

(* What must hold of the repository: the publisher's code is the head of    *)
(* the trusted branch, the tag is at the target, releases are immutable.    *)
Repository == {"source", "tag", "immutable"}
Foreign == "foreign"
NoRelease == [draft |-> None, assets |-> {}, sealed |-> FALSE]

Requests(kinds, a) == [i \in DOMAIN kinds |-> [kind |-> kinds[i], artifact |-> a]]
Prologue ==
    Requests(<<"source", "tag", "immutable", "none", "source", "tag", "create",
               "source", "tag", "immutable", "only">>, None)
Round(a) == Requests(<<"current", "assets", "source", "tag", "upload", "assets">>, a)
(* Faulty: immutability is not read again before publication.               *)
FinaleMutable ==
    Requests(<<"current", "only", "source", "tag", "assets", "source", "tag",
               "publish", "sealed">>, None)
Finale ==
    Requests(<<"current", "only", "source", "tag", "assets", "immutable", "source", "tag",
               "publish", "sealed">>, None)
Uploaded == Len(Prologue) + 6 * Len(Artifacts)
Script ==
    [i \in 1 .. Uploaded + Len(Finale) |->
        LET j == i - Len(Prologue) - 1 IN
        IF i <= Len(Prologue) THEN Prologue[i]
        ELSE IF i <= Uploaded THEN Round(Artifacts[(j \div 6) + 1])[(j % 6) + 1]
        ELSE Finale[i - Uploaded]]

---------------------------------------------------------------------------
Failed == Len(Script) + 2
Done == Len(Script) + 1
Next(p) == Script[request[p]]
Running(p) == request[p] <= Len(Script)
Asking(p, kind) == Running(p) /\ Next(p).kind = kind
Answered(p) == request' = [request EXCEPT ![p] = @ + 1]
GivesUp(p) == request' = [request EXCEPT ![p] = Failed]

Existing == {r \in Releases : releases[r].draft # None}
Drafts == {r \in Releases : releases[r].draft = TRUE}
Own(p) == releases[draftId[p]]

(* The draft is the only release of the tag.                                *)
OnlyOwned(p) == Existing = {draftId[p]} /\ Own(p).draft = TRUE

(* The answer a request for information must get.                           *)
Expected(p, kind) ==
    CASE kind \in Repository -> kind \in facts
      [] kind = "none" -> Existing = {}
      [] kind = "only" -> OnlyOwned(p)
      [] kind = "current" -> Own(p).draft = TRUE
      [] kind = "assets" -> Own(p).draft # None /\ Own(p).assets = uploads[p]
      [] kind = "sealed" -> Own(p).draft = FALSE /\ Own(p).sealed /\ Own(p).assets = uploads[p]
Queries == Repository \cup {"none", "only", "current", "assets", "sealed"}
Query(p) ==
    /\ Running(p) /\ Next(p).kind \in Queries
    /\ IF Expected(p, Next(p).kind) THEN Answered(p) ELSE GivesUp(p)
    /\ UNCHANGED <<draftId, uploads, releases, facts, drifted, drifts>>
Create(p) ==
    /\ Asking(p, "create")
    /\ \/ \E r \in Releases \ Existing :
            /\ \A q \in Publishers : draftId[q] # r
            /\ releases' = [releases EXCEPT ![r].draft = TRUE]
            /\ \/ Answered(p) /\ draftId' = [draftId EXCEPT ![p] = r]
               \/ GivesUp(p) /\ UNCHANGED draftId
       \/ Existing # Drafts /\ GivesUp(p) /\ UNCHANGED <<releases, draftId>>
    /\ UNCHANGED <<uploads, facts, drifted, drifts>>
Upload(p) ==
    LET asset == <<Next(p).artifact, "local">> IN
    /\ Asking(p, "upload")
    /\ IF Own(p).draft # None /\ ~Own(p).sealed
       THEN /\ releases' = [releases EXCEPT ![draftId[p]].assets = @ \cup {asset}]
            /\ \/ Answered(p) /\ uploads' = [uploads EXCEPT ![p] = @ \cup {asset}]
                  /\ drifted' = [drifted EXCEPT ![p] = {}]
               \/ GivesUp(p) /\ UNCHANGED <<uploads, drifted>>
       ELSE GivesUp(p) /\ UNCHANGED <<releases, uploads, drifted>>
    /\ UNCHANGED <<draftId, facts, drifts>>
PublishDraft(p) ==
    /\ Asking(p, "publish")
    /\ \/ /\ Own(p).draft # None
          /\ releases' = [releases EXCEPT ![draftId[p]].draft = FALSE,
                                          ![draftId[p]].sealed = @ \/ "immutable" \in facts]
          /\ Answered(p) \/ GivesUp(p)
       \/ (Own(p).draft = None \/ Existing # Drafts) /\ GivesUp(p) /\ UNCHANGED releases
    /\ UNCHANGED <<draftId, uploads, facts, drifted, drifts>>
RequestLost(p) ==
    /\ Running(p) /\ drifts > 0 /\ drifts' = drifts - 1 /\ GivesUp(p)
    /\ UNCHANGED <<draftId, uploads, releases, facts, drifted>>

(* Somebody else: the branch advances, the tag moves, immutability is       *)
(* switched, another release of the tag appears, one that is not sealed      *)
(* gets or loses an asset, a draft is deleted.                              *)
Drift(what) ==
    /\ drifts > 0 /\ drifts' = drifts - 1
    /\ drifted' = [p \in Publishers |-> drifted[p] \cup {what}]
    /\ UNCHANGED <<request, draftId, uploads>>
ChangeRepository(fact) ==
    /\ Drift(fact) /\ UNCHANGED releases
    /\ facts' = IF fact \in facts THEN facts \ {fact} ELSE facts \cup {fact}
ChangeAssets(r) ==
    /\ Drift("assets") /\ r \in Existing /\ ~releases[r].sealed /\ UNCHANGED facts
    /\ \/ releases' = [releases EXCEPT ![r].assets = @ \cup {<<Foreign, "foreign">>}]
       \/ \E asset \in releases[r].assets : releases' = [releases EXCEPT ![r].assets = @ \ {asset}]
AddRelease(r) ==
    /\ Drift("release") /\ r \notin Existing /\ UNCHANGED facts
    /\ \A p \in Publishers : draftId[p] # r
    /\ \E draft \in BOOLEAN : releases' = [releases EXCEPT ![r].draft = draft]
DeleteDraft(r) ==
    /\ Drift("draft") /\ r \in Drafts /\ UNCHANGED facts
    /\ releases' = [releases EXCEPT ![r] = NoRelease]

PublishInit ==
    /\ request = [p \in Publishers |-> 1] /\ draftId = [p \in Publishers |-> None]
    /\ uploads = [p \in Publishers |-> {}] /\ releases = [r \in Releases |-> NoRelease]
    /\ facts = Repository
    /\ drifted = [p \in Publishers |-> {}] /\ drifts = Drifts
PublishNext ==
    \/ \E p \in Publishers : Query(p) \/ Create(p) \/ Upload(p) \/ PublishDraft(p) \/ RequestLost(p)
    \/ \E fact \in Repository : ChangeRepository(fact)
    \/ \E r \in Releases : ChangeAssets(r) \/ AddRelease(r) \/ DeleteDraft(r)
PublishSpec == PublishInit /\ [][PublishNext]_pubVars
============================================================================
