------------------------------ MODULE Previews ------------------------------
(***************************************************************************)
(* The audition room: previews of versions and candidates, one at a time   *)
(* or side by side (backend/voice_city/api.py create_preview,              *)
(* compare_auditions, delete_preview; voice_city/preview_renderer.py).  A  *)
(* request is one transaction, but the audio and the provenance it stores  *)
(* are not part of it.                                                     *)
(***************************************************************************)
EXTENDS Naturals, Sequences, FiniteSets, Functions

CONSTANTS Listeners,   \* requests in flight at a time
          Auditions,   \* what a request renders: one clip, or several to compare
          Unsayable,   \* clips whose text is empty or too long
          PreviewCap   \* bound on previews ever begun
Clips == UNION {Range(a) : a \in Auditions}
ASSUME PreviewsAssumption == /\ PreviewCap \in Nat
                             /\ Auditions \subseteq Seq(Clips) /\ <<>> \notin Auditions

VARIABLES pvRows,      \* committed previews: id -> [clip, batch, status]
          pvObjects,   \* stored objects: <<kind, id>> -> clip
          pvReq,       \* request -> [pc, todo, own, id]
          pvNext,      \* ids given out
          pvDoomed,    \* previews whose deletion was begun
          pvGone       \* previews deleted
previewVars == <<pvRows, pvObjects, pvReq, pvNext, pvDoomed, pvGone>>

NoPreviewReq == [pc |-> "idle", todo |-> <<>>, own |-> <<>>, id |-> 0]
PreviewsInit == /\ pvRows = <<>> /\ pvObjects = <<>> /\ pvNext = 0
                /\ pvReq = [r \in Listeners |-> NoPreviewReq]
                /\ pvDoomed = {} /\ pvGone = {}

\* own: the rows of the request's transaction, which only its commit shows.
Asks(r, req) == pvReq' = [pvReq EXCEPT ![r] = req]
SetAt(f, x, v) == [y \in DOMAIN f \union {x} |-> IF y = x THEN v ELSE f[y]]
Merged(new, old) == [y \in DOMAIN new \union DOMAIN old |->
                        IF y \in DOMAIN new THEN new[y] ELSE old[y]]
Stored(kind, id, clip) == pvObjects' = SetAt(pvObjects, <<kind, id>>, clip)
Removed(kind, id) == pvObjects' = Restrict(pvObjects, DOMAIN pvObjects \ {<<kind, id>>})

\* Slip: the row of a failed render is committed.
KeepFailed(r) ==
    /\ pvRows' = Merged(pvReq[r].own, pvRows)
    /\ Asks(r, NoPreviewReq)
\* The failed row goes with the transaction; what is stored stays.
RollBackPreviews(r) ==
    /\ UNCHANGED pvRows
    /\ Asks(r, NoPreviewReq)

-----------------------------------------------------------------------------
(* Rendering.                                                              *)

AskPreviews(r, audition) ==
    /\ pvReq[r].pc = "idle"
    /\ Asks(r, [NoPreviewReq EXCEPT !.pc = "render", !.todo = audition])
    /\ UNCHANGED <<pvRows, pvObjects, pvNext, pvDoomed, pvGone>>

\* The text, the source and the provider are checked before the row is made.
RenderRefused(r) ==
    /\ pvReq[r].pc = "render" /\ RollBackPreviews(r)
    /\ UNCHANGED <<pvObjects, pvNext, pvDoomed, pvGone>>

RenderBegins(r) ==
    LET req == pvReq[r] clip == Head(req.todo) id == pvNext + 1 IN
    /\ req.pc = "render" /\ clip \notin Unsayable /\ pvNext < PreviewCap
    /\ pvNext' = id
    /\ Asks(r, [req EXCEPT !.pc = "synthesize", !.id = id,
           !.own = SetAt(req.own, id,
                         [clip |-> clip, batch |-> req.todo, status |-> "rendering"])])
    /\ UNCHANGED <<pvRows, pvObjects, pvDoomed, pvGone>>

\* Every chunk of the text, then the analysis.
SynthesizeClip(r) ==
    /\ pvReq[r].pc = "synthesize" /\ Asks(r, [pvReq[r] EXCEPT !.pc = "audio"])
    /\ UNCHANGED <<pvRows, pvObjects, pvNext, pvDoomed, pvGone>>

PutAudio(r) ==
    /\ pvReq[r].pc = "audio" /\ Stored("audio", pvReq[r].id, Head(pvReq[r].todo))
    /\ Asks(r, [pvReq[r] EXCEPT !.pc = "provenance"])
    /\ UNCHANGED <<pvRows, pvNext, pvDoomed, pvGone>>

PutProvenance(r) ==
    /\ pvReq[r].pc = "provenance" /\ Stored("provenance", pvReq[r].id, Head(pvReq[r].todo))
    /\ Asks(r, [pvReq[r] EXCEPT !.pc = "sign"])
    /\ UNCHANGED <<pvRows, pvNext, pvDoomed, pvGone>>

\* The row is ready; the next clip of a comparison, or the commit.
RenderReady(r) ==
    LET req == pvReq[r] rest == Tail(req.todo) IN
    /\ req.pc = "sign"
    /\ Asks(r, [req EXCEPT !.own[req.id].status = "ready", !.todo = rest,
                           !.pc = IF rest = <<>> THEN "commit" ELSE "render"])
    /\ UNCHANGED <<pvRows, pvObjects, pvNext, pvDoomed, pvGone>>

\* The provider, the analysis or the storage fails.
RenderFails(r) ==
    /\ pvReq[r].pc \in {"synthesize", "audio", "provenance", "sign"}
    /\ RollBackPreviews(r)
    /\ UNCHANGED <<pvObjects, pvNext, pvDoomed, pvGone>>

CommitPreviews(r) ==
    /\ pvReq[r].pc = "commit"
    /\ pvRows' = Merged(pvReq[r].own, pvRows)
    /\ Asks(r, NoPreviewReq)
    /\ UNCHANGED <<pvObjects, pvNext, pvDoomed, pvGone>>

-----------------------------------------------------------------------------
(* Deletion: the objects first, then the row.                              *)

DeleteAsked(r, id) ==
    /\ pvReq[r].pc = "idle" /\ id \in DOMAIN pvRows
    /\ Asks(r, [NoPreviewReq EXCEPT !.pc = "unstore", !.id = id])
    /\ pvDoomed' = pvDoomed \union {id}
    /\ UNCHANGED <<pvRows, pvObjects, pvNext, pvGone>>

DeleteAudio(r) ==
    /\ pvReq[r].pc = "unstore" /\ Removed("audio", pvReq[r].id)
    /\ Asks(r, [pvReq[r] EXCEPT !.pc = "unprove"])
    /\ UNCHANGED <<pvRows, pvNext, pvDoomed, pvGone>>

DeleteProvenance(r) ==
    /\ pvReq[r].pc = "unprove" /\ Removed("provenance", pvReq[r].id)
    /\ Asks(r, [pvReq[r] EXCEPT !.pc = "unrow"])
    /\ UNCHANGED <<pvRows, pvNext, pvDoomed, pvGone>>

\* Of two deletions of one preview the later deletes no row, and succeeds.
DeleteRowCommit(r) ==
    /\ pvReq[r].pc = "unrow"
    /\ pvRows' = Restrict(pvRows, DOMAIN pvRows \ {pvReq[r].id})
    /\ pvGone' = pvGone \union {pvReq[r].id}
    /\ Asks(r, NoPreviewReq)
    /\ UNCHANGED <<pvObjects, pvNext, pvDoomed>>

\* A storage error, or the process ends: also between render and commit.
RequestDies(r) ==
    /\ pvReq[r].pc \in {"unstore", "unprove", "unrow", "commit"}
    /\ Asks(r, NoPreviewReq)
    /\ UNCHANGED <<pvRows, pvObjects, pvNext, pvDoomed, pvGone>>

PreviewsNext ==
    \E r \in Listeners :
      \/ \E a \in Auditions : AskPreviews(r, a)
      \/ RenderRefused(r) \/ RenderBegins(r) \/ SynthesizeClip(r)
      \/ PutAudio(r) \/ PutProvenance(r) \/ RenderReady(r) \/ RenderFails(r)
      \/ CommitPreviews(r)
      \/ \E id \in DOMAIN pvRows : DeleteAsked(r, id)
      \/ DeleteAudio(r) \/ DeleteProvenance(r) \/ DeleteRowCommit(r)
      \/ RequestDies(r)

PreviewsSpec == PreviewsInit /\ [][PreviewsNext]_previewVars

PreviewsTypeOK ==
    /\ pvNext \in 0..PreviewCap /\ pvDoomed \subseteq 1..pvNext /\ pvGone \subseteq pvDoomed
    /\ DOMAIN pvRows \subseteq 1..pvNext
    /\ \A id \in DOMAIN pvRows : pvRows[id].status \in {"rendering", "ready"}

-----------------------------------------------------------------------------
\* Every committed preview is ready, and until its own deletion is begun both
\* its objects are stored and are of its clip,
\* whatever other requests fail, die or delete (api.create_preview,
\* preview_renderer.render).  A comparison is committed whole: the clips after a
\* preview in its batch are previews too, or were deleted.
PreviewsPlayable ==
    \A id \in DOMAIN pvRows :
      /\ pvRows[id].status = "ready"
      /\ id \notin pvDoomed =>
           \A kind \in {"audio", "provenance"} :
             <<kind, id>> \in DOMAIN pvObjects /\ pvObjects[<<kind, id>>] = pvRows[id].clip
      /\ Len(pvRows[id].batch) > 1 =>
           \E k \in DOMAIN pvRows \union pvGone :
             k > id /\ (k \in DOMAIN pvRows => pvRows[k].batch = Tail(pvRows[id].batch))

=============================================================================
