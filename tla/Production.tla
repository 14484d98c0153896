----------------------------- MODULE Production -----------------------------
(* How a production binds a voice: a submission captures narrator, rules,      *)
(* tracks, direction plan and cast in one transaction                          *)
(* (voice_city/production.py attach_voice_snapshot, direction_engine.py        *)
(* validate_direction_plan) while owners go on editing, and every later render *)
(* of the job resolves dialogue to voices from that snapshot alone             *)
(* (prepare_directed_segments, detect_dialogue_segments).                      *)
EXTENDS Naturals, Sequences, FiniteSets, SequencesExt

CONSTANTS Names,    \* speakers' names, as normalize_character_name leaves them
          Actors,   \* voices of the organisation; "narrator" is one of them
          Manuscripts, \* chapter texts: sequences of lines
          Plans,    \* direction plans of requests
          MaxJoin,  \* 4500 characters, in segments
          EditCap   \* bound on edits
ASSUME ProductionAssumption ==
    /\ "narrator" \in Actors /\ MaxJoin \in Nat /\ EditCap \in Nat
    /\ \A p \in Plans : p.cast \in Seq([name : Names, aliases : SUBSET Names, voice : Actors])
    /\ Manuscripts \subseteq Seq([kind : {"plain", "break", "label", "quote"},
                                  name : Names \union {"?"}])

(* A line is [kind, name]: "plain", "break" (a scene break), "label" (NAME:    *)
(* ...), "quote" (a quotation followed by narration).  name is "?" when the    *)
(* text gives no evidence of the speaker.                                      *)
(* A plan is [cast, skip, auto, scenes, identity]: cast a sequence of          *)
(* [name, aliases, voice], skip the unknown_dialogue_policy, scenes the scene  *)
(* indices with a style, identity whether a patch names an identity control.   *)

VARIABLES studio,    \* voice -> [rules, revokedAt]: mutable Voice City state; 0 = not revoked
          edits,     \* edits so far
          capture,   \* [pc, plan, cast]: a submission being captured
          snapshot,  \* the job's snapshot
          render     \* [pc, text, todo, out]: a chapter being prepared

productionVars == <<studio, edits, capture, snapshot, render>>

NoSnapshot == [bound |-> FALSE, began |-> 0, rules |-> 0, plan |-> "none", cast |-> <<>>]
NoRender == [pc |-> "idle", text |-> <<>>, todo |-> <<>>, next |-> 1, out |-> <<>>]
NoCapture == [pc |-> "idle", began |-> 0, plan |-> "none", rules |-> 0, cast |-> <<>>]
ProductionInit == /\ studio = [v \in Actors |-> [rules |-> 0, revokedAt |-> 0]]
                  /\ edits = 0 /\ capture = NoCapture /\ snapshot = NoSnapshot /\ render = NoRender
----------------------------------------------------------------------------
Revoked(v) == studio[v].revokedAt > 0
\* Owners edit rules and tracks, and revoke voices.
Edit(v) == /\ edits < EditCap /\ edits' = edits + 1
           /\ \/ studio' = [studio EXCEPT ![v].rules = @ + 1]
              \/ ~Revoked(v) /\ studio' = [studio EXCEPT ![v].revokedAt = edits + 1]
           /\ UNCHANGED <<capture, snapshot, render>>

\* _load_owned_version, for the narrator and then for every cast entry.
Refuse == capture' = [NoCapture EXCEPT !.pc = "refused"]
SubmitRender(plan) ==
    /\ capture.pc = "idle" /\ ~snapshot.bound
    /\ IF Revoked("narrator") THEN Refuse
       ELSE capture' = [NoCapture EXCEPT !.pc = "rules", !.began = edits, !.plan = plan]
    /\ UNCHANGED <<studio, edits, snapshot, render>>
\* The rules and tracks of the narrator as they are now; the plan is checked:
\* names are unique and patches leave identity controls alone.
PlanValid(plan) == /\ ~plan.identity
                   /\ \A i, k \in DOMAIN plan.cast : plan.cast[i].name = plan.cast[k].name => i = k
CaptureNarrator ==
    /\ capture.pc = "rules"
    /\ IF PlanValid(capture.plan)
       THEN capture' = [capture EXCEPT !.pc = "cast", !.rules = studio["narrator"].rules]
       ELSE Refuse
    /\ UNCHANGED <<studio, edits, snapshot, render>>
\* Slip: only the narrator's voice is checked.
Unchecked(v) == TRUE
Loadable(v) == ~Revoked(v)
CaptureCast ==
    LET i == Len(capture.cast) + 1
        entry == capture.plan.cast[i]
    IN /\ capture.pc = "cast" /\ i <= Len(capture.plan.cast)
       /\ IF ~Loadable(entry.voice) THEN Refuse
          ELSE capture' = [capture EXCEPT !.cast = Append(@,
                  [name |-> entry.name, aliases |-> entry.aliases, voice |-> entry.voice,
                   rules |-> studio[entry.voice].rules])]
       /\ UNCHANGED <<studio, edits, snapshot, render>>
Attach == /\ capture.pc = "cast" /\ Len(capture.cast) = Len(capture.plan.cast)
          /\ snapshot' = [bound |-> TRUE, began |-> capture.began, rules |-> capture.rules, plan |-> capture.plan, cast |-> capture.cast]
          /\ capture' = [NoCapture EXCEPT !.pc = "accepted"]
          /\ UNCHANGED <<studio, edits, render>>
----------------------------------------------------------------------------
\* detect_dialogue_segments: lines to segments with the scene they are in.
Line(kind, name) == [kind |-> kind, name |-> name]
Piece(k, i, part, kind, speaker) ==
    [of |-> <<i, part>>, scene |-> k, kind |-> kind, speaker |-> speaker]
Pieces(line, i, k) ==
    CASE line.kind \in {"plain", "break"} -> <<Piece(k, i, 1, "narration", "?")>>
      [] line.kind = "label" -> <<Piece(k, i, 1, "narration", "?"), Piece(k, i, 2, "dialogue", line.name)>>
      [] line.kind = "quote" -> <<Piece(k, i, 1, "dialogue", line.name), Piece(k, i, 2, "narration", "?")>>
ScenesBefore(text, i) == Cardinality({j \in 1..(i - 1) : text[j].kind = "break"})
Detected(text) == FlattenSeq([i \in DOMAIN text |-> Pieces(text[i], i, ScenesBefore(text, i))])

\* A later entry's name or alias replaces an earlier one in the index.
CastFor(speaker) ==
    LET named == {i \in DOMAIN snapshot.cast :
                     speaker = snapshot.cast[i].name \/ speaker \in snapshot.cast[i].aliases}
    IN IF named = {} THEN 0 ELSE CHOOSE i \in named : \A k \in named : k <= i

\* The voice, rules and plan one segment is spoken with: the style of its scene
\* and, under a cast, the narrator's tracks and then the cast voice's.
Narrated == [voice |-> "narrator", rules |-> snapshot.rules]
Identity(seg) ==
    LET c == IF seg.kind = "dialogue" THEN CastFor(seg.speaker) ELSE 0
    IN IF c = 0 THEN Narrated ELSE [voice |-> snapshot.cast[c].voice, rules |-> IF snapshot.cast[c].rules = 0 THEN snapshot.rules ELSE snapshot.cast[c].rules]
Style(seg) == seg.scene \in snapshot.plan.scenes
Dropped(seg) == seg.kind = "dialogue" /\ CastFor(seg.speaker) = 0 /\ snapshot.plan.skip

PrepareStart(text) ==
    /\ snapshot.bound /\ render.pc = "idle"
    /\ render' = [pc |-> "prepare", text |-> text, next |-> 1, out |-> <<>>,
                  todo |-> IF snapshot.plan.auto /\ Detected(text) # <<>> THEN Detected(text)
                           ELSE <<Piece(0, 0, 1, "narration", "?")>>]
    /\ UNCHANGED <<studio, edits, capture, snapshot>>

Prepared(seg) == [of |-> <<seg.of>>, kind |-> seg.kind, speaker |-> seg.speaker,
                  voice |-> Identity(seg).voice, rules |-> Identity(seg).rules, style |-> Style(seg)]
\* Slips: the plan is not compared; the voice is not compared.
JoinsAnyPlan(a, b) == a.voice = b.voice /\ a.kind = b.kind /\ a.speaker = b.speaker
JoinsAnyVoice(a, b) == a.style = b.style /\ a.kind = b.kind /\ Len(a.of) + Len(b.of) <= MaxJoin
Joins(a, b) == /\ a.voice = b.voice /\ a.style = b.style
               /\ a.kind = b.kind /\ a.speaker = b.speaker
               /\ Len(a.of) + Len(b.of) <= MaxJoin
Coalesce(out, new) ==
    IF out # <<>> /\ Joins(Last(out), new)
    THEN Append(Front(out), [new EXCEPT !.of = Last(out).of \o new.of])
    ELSE Append(out, new)
\* One segment (one that the rules leave without text is left out too; no rule
\* of this model erases a whole segment).
PrepareSegment ==
    LET seg == render.todo[render.next] IN
    /\ render.pc = "prepare" /\ render.next <= Len(render.todo)
    /\ render' = [render EXCEPT !.next = @ + 1,
                     !.out = IF Dropped(seg) THEN @ ELSE Coalesce(@, Prepared(seg))]
    /\ UNCHANGED <<studio, edits, capture, snapshot>>
RenderEnds == /\ render.pc = "prepare" /\ render.next > Len(render.todo)
              /\ render' = [render EXCEPT !.pc = "done"]
              /\ UNCHANGED <<studio, edits, capture, snapshot>>
\* The next run of the job prepares the text again.
RenderAgain == render.pc = "done" /\ render' = NoRender /\ UNCHANGED <<studio, edits, capture, snapshot>>

ProductionNext == \/ \E v \in Actors : Edit(v)
                  \/ \E p \in Plans : SubmitRender(p)
                  \/ CaptureNarrator \/ CaptureCast \/ Attach
                  \/ \E t \in Manuscripts : PrepareStart(t)
                  \/ PrepareSegment \/ RenderEnds \/ RenderAgain

ProductionSpec == ProductionInit /\ [][ProductionNext]_productionVars
----------------------------------------------------------------------------
ProductionTypeOK == /\ edits \in 0..EditCap /\ capture.pc \in {"idle", "rules", "cast", "accepted", "refused"}
                    /\ render.pc \in {"idle", "prepare", "done"}
                    /\ \A s \in Range(render.out) : s.voice \in Actors

\* The reference: what a segment of a text must sound like, from the plan the
\* caller sent and not from the loop.
Covered == FlattenSeq([i \in DOMAIN render.out |-> render.out[i].of])
Uncast(seg) == \A c \in Range(snapshot.plan.cast) : seg.speaker # c.name /\ seg.speaker \notin c.aliases
Wanted == FlattenSeq([i \in DOMAIN render.todo |->
              LET seg == render.todo[i] IN
              IF seg.kind = "dialogue" /\ Uncast(seg) /\ snapshot.plan.skip THEN <<>> ELSE <<seg.of>>])

\* "Only evidence-backed speaker attributions are cast; uncertain dialogue
\* remains with the narrator": a prepared chapter speaks every piece of the
\* text once and in order, except the uncast dialogue the plan drops; a piece is
\* spoken by a voice the plan lists for its speaker and by the narrator
\* otherwise; joining pieces crosses neither a turn nor a change of style.
CastSpeaks ==
    render.pc = "done" =>
        /\ Covered = Wanted
        /\ \A out \in Range(render.out) : \A seg \in Range(render.todo) :
              seg.of \in Range(out.of) =>
                 /\ out.kind = seg.kind /\ out.speaker = seg.speaker
                 /\ out.style = (seg.scene \in snapshot.plan.scenes)
                 /\ IF seg.kind = "narration" \/ Uncast(seg) THEN out.voice = "narrator"
                    ELSE \E c \in Range(snapshot.plan.cast) :
                            out.voice = c.voice /\ (seg.speaker = c.name \/ seg.speaker \in c.aliases)

\* "This voice has been revoked": a snapshot binds no voice that was revoked
\* before its submission arrived, however edits and the capture interleave (a
\* revocation that commits during the capture may still be missed).
RevokedNotCaptured ==
    snapshot.bound => \A v \in {"narrator"} \cup {c.voice : c \in Range(snapshot.cast)} :
        Revoked(v) => studio[v].revokedAt > snapshot.began

\* Both: a production speaks with the voices its plan casts, none of them
\* revoked when it was asked for.
ProductionHonest == CastSpeaks /\ RevokedNotCaptured
=============================================================================
