---------------------------- MODULE VoiceLibrary ----------------------------
(***************************************************************************)
(* The presets, pronunciation rules and automation tracks that             *)
(* organizations keep beside their voices (voice_city/service.py), in one  *)
(* database: what a row refers to and who may read or change it.  Every    *)
(* operation is one transaction.                                           *)
(***************************************************************************)
EXTENDS Integers, Sequences, FiniteSets, SequencesExt

CONSTANTS Tenants,    \* organizations
          LibVoices,  \* voices, each with one version
          LibProjects,
          OwnerOf,    \* voice or project -> organization
          FrameLists, \* keyframes a client sends
          RowCap      \* bound on rows ever created
ASSUME LibraryAssumption == FrameLists \subseteq Seq(Int)

NoRef == "none"

VARIABLES libRows,    \* id -> row; a deleted row keeps its id
          libGone     \* voices deleted so far
libraryVars == <<libRows, libGone>>

Kinds == {"preset", "rule", "track"}
LibraryTypeOK ==
    /\ libGone \subseteq LibVoices
    /\ \A i \in DOMAIN libRows :
         /\ libRows[i].kind \in Kinds /\ libRows[i].org \in Tenants
         /\ libRows[i].voice \in LibVoices \union {NoRef}
         /\ libRows[i].project \in LibProjects \union {NoRef}

LibraryInit == libRows = <<>> /\ libGone = {}

\* _get_voice and _validate_project_scope.
Visible(o, v) == OwnerOf[v] = o /\ v \notin libGone
VoiceRef(o, v) == v # NoRef => Visible(o, v)
\* Slip: any project that exists.
AnyProject(o, p) == p # NoRef => p \in LibProjects
ProjectRef(o, p) == p # NoRef => (p \in LibProjects /\ OwnerOf[p] = o)

Clamped(frames) ==
    [i \in DOMAIN frames |-> IF frames[i] < 0 THEN 0 ELSE IF frames[i] > 4 THEN 4 ELSE frames[i]]
\* Slip: keep the frames in the order they came.
StoredUnsorted(frames) == Clamped(frames)
\* _validate_keyframes, of which only the position matters here: p is the order
\* the sort puts the clamped frames in.
InOrder(frames) == \A k \in 2..Len(frames) : frames[k - 1] <= frames[k]
Sorts(p, frames) == /\ \A i, k \in DOMAIN frames : p[i] = p[k] => i = k
                    /\ InOrder([i \in DOMAIN frames |-> frames[p[i]]])
StoredFrames(frames) ==
    LET fs == Clamped(frames)
        order == CHOOSE p \in [DOMAIN fs -> DOMAIN fs] : Sorts(p, fs)
    IN  [i \in DOMAIN fs |-> fs[order[i]]]

Owned(o, i, kind) ==
    libRows[i].kind = kind /\ libRows[i].org = o /\ libRows[i].alive

AddRow(row) ==
    /\ Len(libRows) < RowCap
    /\ libRows' = Append(libRows, row)
    /\ UNCHANGED libGone

NewRow(o, kind) == [org |-> o, kind |-> kind, voice |-> NoRef, project |-> NoRef,
                    frames |-> <<>>, enabled |-> TRUE, alive |-> TRUE]

CreatePreset(o, v) ==
    VoiceRef(o, v) /\ AddRow([NewRow(o, "preset") EXCEPT !.voice = v])

CreateRule(o, v) ==
    VoiceRef(o, v) /\ AddRow([NewRow(o, "rule") EXCEPT !.voice = v])

CreateTrack(o, v, p, frames) ==
    /\ Visible(o, v) /\ ProjectRef(o, p) /\ frames # <<>>
    /\ AddRow([NewRow(o, "track") EXCEPT !.voice = v, !.project = p,
                                         !.frames = StoredFrames(frames)])

\* A rule's text and flags may change, its voice may not.
UpdateRule(o, i, enabled) ==
    /\ Owned(o, i, "rule")
    /\ libRows' = [libRows EXCEPT ![i].enabled = enabled]
    /\ UNCHANGED libGone

\* Of a track everything but its voice; a field the client leaves out stays.
UpdateTrack(o, i, p, frames, fields) ==
    /\ Owned(o, i, "track")
    /\ "project" \in fields => ProjectRef(o, p)
    /\ "frames" \in fields => frames # <<>>
    /\ libRows' = [libRows EXCEPT
           ![i].project = IF "project" \in fields THEN p ELSE libRows[i].project,
           ![i].frames  = IF "frames" \in fields THEN StoredFrames(frames)
                          ELSE libRows[i].frames]
    /\ UNCHANGED libGone

DeleteRow(o, i, kind) ==
    /\ Owned(o, i, kind)
    /\ libRows' = [libRows EXCEPT ![i].alive = FALSE]
    /\ UNCHANGED libGone

\* Rows about a deleted voice stay.
DropVoice(v) ==
    /\ v \notin libGone /\ libGone' = libGone \union {v}
    /\ UNCHANGED libRows

LibraryNext ==
    \/ \E o \in Tenants, v \in LibVoices \union {NoRef} :
         CreatePreset(o, v) \/ CreateRule(o, v)
    \/ \E o \in Tenants, v \in LibVoices, p \in LibProjects \union {NoRef},
          fs \in FrameLists : CreateTrack(o, v, p, fs)
    \/ \E o \in Tenants, i \in DOMAIN libRows :
         \/ \E b \in BOOLEAN : UpdateRule(o, i, b)
         \/ \E p \in LibProjects \union {NoRef}, fs \in FrameLists,
              fields \in SUBSET {"project", "frames"} : UpdateTrack(o, i, p, fs, fields)
         \/ \E kind \in Kinds : DeleteRow(o, i, kind)
    \/ \E v \in LibVoices : DropVoice(v)

LibrarySpec == LibraryInit /\ [][LibraryNext]_libraryVars

-----------------------------------------------------------------------------
\* No row of an organization refers to a voice or a project of another, after
\* any sequence of creations and updates (service._validate_project_scope).
RefsOwned == \A i \in DOMAIN libRows :
    \A ref \in {libRows[i].voice, libRows[i].project} \ {NoRef} :
        OwnerOf[ref] = libRows[i].org
\* A track's frames are in order as the evaluation of a segment needs them
\* (service._validate_keyframes).
FramesInOrder == \A i \in DOMAIN libRows : \A k \in 2..Len(libRows[i].frames) :
    libRows[i].frames[k - 1] <= libRows[i].frames[k]
\* Both: what an organization keeps is its own and can be evaluated.
LibraryOwnsItsRefs == RefsOwned /\ FramesInOrder

=============================================================================
