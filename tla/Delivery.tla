------------------------------ MODULE Delivery ------------------------------
(***************************************************************************)
(* What one segment of a production is rendered with: automation tracks    *)
(* over the voice's parameters (parameter_mapper.py), the pronunciation    *)
(* dictionary over the text (pronunciation_engine.py), and the provider    *)
(* plan, in the order of production.prepare_directed_segments.  All of it  *)
(* is pure; a step delivers one segment.                                   *)
(*                                                                         *)
(* Positions are quarters of the chapter, 0..4.  A value is held in units  *)
(* of 1/Fine of a control's unit, Fine being divisible by the cube of each *)
(* distance between keyframes, so interpolation is exact.                  *)
(***************************************************************************)
EXTENDS Integers, Sequences, SequencesExt, FiniteSets

CONSTANTS TrackLists,  \* sequences of automation tracks
          Dictionaries,\* sequences of pronunciation rules
          Passages     \* sequences of words
ASSUME DeliveryAssumption ==
    /\ \A q \in TrackLists \union Dictionaries \union Passages : q \in Seq(ToSet(q))
    /\ \A ts \in TrackLists : \A t \in ToSet(ts) : t.frames \in Seq(Int \X Int)
    /\ \A rs \in Dictionaries : \A r \in ToSet(rs) : r.priority \in Int

Fine == 1728
Paths == {"rate", "pitch", "energy"}
PathMin(p) == IF p = "rate" THEN -1 * Fine ELSE -2 * Fine
PathMax(p) == IF p = "rate" THEN Fine ELSE 2 * Fine
Neutral == [p \in Paths |-> 0]

VARIABLES dSegment,  \* the segment and what directs it
          dResult    \* the parameters, text and plan it is rendered with
deliveryVars == <<dSegment, dResult>>

Within(low, high, v) == IF v < low THEN low ELSE IF v > high THEN high ELSE v

-----------------------------------------------------------------------------
(* Automation.  A track is [scope, key, path, frames, curve, enabled]; a   *)
(* frame is <<at, value>>; one that is not numeric is left out.             *)

Malformed == 99
\* The members of I by rank; ties keep the order of the indices.
Precedes(rank, i, k) == rank[i] < rank[k] \/ (rank[i] = rank[k] /\ i < k)
Ranked(I, rank) == CHOOSE q \in Bijection(1..Cardinality(I), I) :
                      \A a, b \in DOMAIN q : a < b => Precedes(rank, q[a], q[b])

Points(frames) ==
    LET at == [i \in DOMAIN frames |-> Within(0, 4, frames[i][1])]
        order == Ranked({i \in DOMAIN frames : frames[i][1] # Malformed}, at)
    IN  [n \in DOMAIN order |-> <<at[order[n]], frames[order[n]][2]>>]

Ease(curve, d, s) ==
    IF curve = "smooth" THEN d * d * (3 * s - 2 * d) * (Fine \div (s * s * s))
                        ELSE d * (Fine \div s)

Evaluate(points, curve, position) ==
    LET first == points[1]
        final == points[Len(points)]
        Reached(i) == points[i][1] <= position
        spans == {i \in 1..(Len(points) - 1) :
                    Reached(i) /\ position <= points[i + 1][1]}
        i == CHOOSE i \in spans : \A k \in spans : i <= k
        s == points[i + 1][1] - points[i][1]
    IN  IF position <= first[1] THEN first[2] * Fine
        ELSE IF position >= final[1] THEN final[2] * Fine
        ELSE IF curve = "step"
             THEN points[CHOOSE k \in DOMAIN points :
                           Reached(k) /\ ~\E l \in DOMAIN points : Reached(l) /\ l > k][2] * Fine
        ELSE IF s = 0 THEN points[i + 1][2] * Fine
        ELSE points[i][2] * Fine
               + (points[i + 1][2] - points[i][2]) * Ease(curve, position - points[i][1], s)

Applies(track, scope, key, withGlobal) ==
    /\ track.enabled /\ track.path \in Paths /\ Points(track.frames) # <<>>
    /\ IF track.scope = "global" THEN withGlobal
       ELSE track.scope = scope /\ track.key = key

Driven(track, position) ==
    Within(PathMin(track.path), PathMax(track.path),
           Evaluate(Points(track.frames), track.curve, position))

\* Later tracks win.
Automate(parameters, tracks, scope, key, position, withGlobal) ==
    LET after[n \in 0..Len(tracks)] ==
          IF n = 0 THEN parameters
          ELSE IF Applies(tracks[n], scope, key, withGlobal)
               THEN [after[n - 1] EXCEPT ![tracks[n].path] = Driven(tracks[n], position)]
               ELSE after[n - 1]
    IN  after[Len(tracks)]

\* The scopes of a segment in the order they are applied; titles and the
\* "chapter:scene" keys are further names of the same two scopes.
Scopes(seg) ==
    << <<"chapter", seg.chapter, TRUE>>, <<"chapter", seg.chapter + 1, FALSE>>,
       <<"scene", seg.scene, FALSE>>, <<"sentence", seg.sentence, FALSE>> >>
    \o (IF seg.speaker = "?" THEN <<>> ELSE << <<"character", seg.speaker, FALSE>> >>)

Directed(seg) ==
    LET scopes == Scopes(seg)
        after[n \in 0..Len(scopes)] ==
          IF n = 0 THEN Neutral
          ELSE Automate(after[n - 1], seg.tracks, scopes[n][1], scopes[n][2], seg.position, scopes[n][3])
    IN  after[Len(scopes)]

-----------------------------------------------------------------------------
(* The dictionary.  A rule is [from, to, priority, enabled, flaw]; flaw    *)
(* says why a stored pattern cannot be used: "invalid", "nested", "empty", *)
(* "too long"; strength is in tenths.                                      *)

\* The enabled rules, the highest priority first.
ByPriority(rules) ==
    LET order == Ranked({i \in DOMAIN rules : rules[i].enabled}, [i \in DOMAIN rules |-> -rules[i].priority])
    IN  [n \in DOMAIN order |-> rules[order[n]]]
\* Slip: round the share of the rules down.
SelectedRounded(rules, strength) ==
    SubSeq(ByPriority(rules), 1, (strength * Len(ByPriority(rules))) \div 10)
Selected(rules, strength) ==
    SubSeq(ByPriority(rules), 1, (Within(0, 10, strength) * Len(ByPriority(rules)) + 9) \div 10)

Occurrences(r, text) == Cardinality({i \in DOMAIN text : text[i] = r.from})
Rewritten(r, text) == [i \in DOMAIN text |-> IF text[i] = r.from THEN r.to ELSE text[i]]

\* Each rule sees what the rules before it wrote; one that cannot be used is
\* reported and skipped, one that matches nothing leaves no evidence.
Apply(r, said) ==
    IF r.flaw # "none" THEN [said EXCEPT !.evidence = Append(@, <<r, 0>>)]
    ELSE IF Occurrences(r, said.text) > 0
         THEN [text |-> Rewritten(r, said.text),
               evidence |-> Append(said.evidence, <<r, Occurrences(r, said.text)>>)]
         ELSE said
Pronounce(text, rules, strength) ==
    LET chosen == IF text = <<>> THEN <<>> ELSE Selected(rules, strength)
        after[n \in 0..Len(chosen)] ==
          IF n = 0 THEN [text |-> text, evidence |-> <<>>] ELSE Apply(chosen[n], after[n - 1])
    IN  after[Len(chosen)]

\* map_parameters: a directive for what differs from the default, none
\* otherwise; polly takes pitch as a percentage, the others in hertz.
PlanOf(parameters, provider) ==
    LET Signed(v, unit) == IF v = 0 THEN <<>> ELSE <<v, unit>>
    IN  [rate |-> Signed(parameters.rate, "percent"),
         pitch |-> Signed(parameters.pitch,
                          IF provider = "polly" THEN "percent" ELSE "hertz"),
         volume |-> Signed(Within(-1 * Fine, Fine, parameters.energy), "percent")]

-----------------------------------------------------------------------------
NoDelivery == [parameters |-> Neutral, text |-> <<>>, evidence |-> <<>>,
               plan |-> PlanOf(Neutral, "edge")]
NoSegment == [chapter |-> 0, scene |-> 0, sentence |-> 0, speaker |-> "?",
              position |-> 0, tracks |-> <<>>, rules |-> <<>>, strength |-> 10,
              text |-> <<>>, provider |-> "edge"]

DeliveryInit == dSegment = NoSegment /\ dResult = NoDelivery

Deliver(seg) ==
    LET said == Pronounce(seg.text, seg.rules, seg.strength)
    IN  /\ dSegment' = seg
        /\ dResult' = [parameters |-> Directed(seg), text |-> said.text,
                       evidence |-> said.evidence,
                       plan |-> PlanOf(Directed(seg), seg.provider)]

DeliverDirected(tracks, chapter, scene, speaker, position, provider) ==
    Deliver([NoSegment EXCEPT !.tracks = tracks, !.chapter = chapter,
                !.scene = scene, !.speaker = speaker, !.position = position,
                !.provider = provider])

DeliverSpoken(text, rules, strength) ==
    Deliver([NoSegment EXCEPT !.text = text, !.rules = rules, !.strength = strength])

\* Every segment is delivered on its own.
DeliveryNext ==
    /\ dSegment = NoSegment
    /\ \/ \E ts \in TrackLists, c, s \in 0..1, who \in {"?", "Ann"},
             at \in 0..4, p \in {"edge", "polly"} :
            DeliverDirected(ts, c, s, who, at, p)
       \/ \E t \in Passages, rs \in Dictionaries, st \in {0, 3, 5, 10} :
            DeliverSpoken(t, rs, st)

DeliverySpec == DeliveryInit /\ [][DeliveryNext]_deliveryVars

DeliveryTypeOK ==
    /\ \A p \in Paths : dResult.parameters[p] \in PathMin(p)..PathMax(p)
    /\ Len(dResult.text) = Len(dSegment.text)

-----------------------------------------------------------------------------
(* The reference: what a track says at a position, without the loop.       *)
Frames(t) == {<<Within(0, 4, f[1]), f[2]>> : f \in {g \in ToSet(t.frames) : g[1] # Malformed}}
Before(t, at) == {f \in Frames(t) : f[1] <= at}
After(t, at) == {f \in Frames(t) : f[1] >= at}
Nearest(fs, at) == {f \in fs : \A g \in fs :
                      (f[1] - at) * (f[1] - at) <= (g[1] - at) * (g[1] - at)}
Neighbours(t, at) == Nearest(Before(t, at), at) \union Nearest(After(t, at), at)
Between(t, at, v) ==
    /\ \E f \in Neighbours(t, at) : Within(PathMin(t.path), PathMax(t.path), f[2] * Fine) <= v
    /\ \E f \in Neighbours(t, at) : v <= Within(PathMin(t.path), PathMax(t.path), f[2] * Fine)
Concerns(t, seg, scope) ==
    /\ t.enabled /\ Frames(t) # {} /\ t.scope = scope
    /\ scope = "scene" => t.key = seg.scene
    /\ scope = "sentence" => t.key = seg.sentence
    /\ scope = "character" => seg.speaker # "?" /\ t.key = seg.speaker
Driving(p, scopes) == {i \in DOMAIN dSegment.tracks :
                         /\ dSegment.tracks[i].path = p
                         /\ \E scope \in scopes : Concerns(dSegment.tracks[i], dSegment, scope)}
Narrower == [scene |-> {"sentence", "character"}, sentence |-> {"character"}, character |-> {}]

\* A control that a track of the segment's scene, sentence or speaker drives has
\* a value between the keyframes around the position of the last such track of
\* the narrowest scope, whatever global and chapter tracks say ("production
\* passes include_global for exactly one scope per segment", parameter_mapper.py).
NarrowestTrackDrives ==
    \A p \in Paths, scope \in DOMAIN Narrower :
      LET mine == Driving(p, {scope})
      IN  mine # {} /\ Driving(p, Narrower[scope]) = {} =>
            Between(dSegment.tracks[CHOOSE i \in mine : \A k \in mine : k <= i],
                    dSegment.position, dResult.parameters[p])

\* "The highest-priority rules survive the lowest strengths" (_selected_rules):
\* at any strength above zero the best enabled rule is applied to the text if it
\* occurs there, or reported if its pattern cannot be used.
BestRuleSurvives ==
    LET rules == dSegment.rules
        best == {i \in DOMAIN rules : rules[i].enabled
                   /\ \A k \in DOMAIN rules : rules[k].enabled =>
                        rules[k].priority < rules[i].priority
                          \/ (rules[k].priority = rules[i].priority /\ i <= k)}
    IN  \A i \in best :
          dSegment.strength > 0 /\ Occurrences(rules[i], dSegment.text) > 0 =>
            \E e \in ToSet(dResult.evidence) : e[1] = rules[i]

\* Both: a segment is delivered as its tracks and its dictionary direct.
DeliveryFaithful == NarrowestTrackDrives /\ BestRuleSurvives

=============================================================================
