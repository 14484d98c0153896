-------------------------- MODULE VoiceParameters --------------------------
(***************************************************************************)
(* The canonical parameter document of a Voice City voice                  *)
(* (backend/services/voice_city/parameter_schema.py) and the operations    *)
(* the generator makes candidates with (generator.py).  A document is a    *)
(* record of the controls that some constraint relates; values are         *)
(* integers, 1000 for 1.0, so rounding to a unit stands for the code's     *)
(* rounding to six decimals.  "emotion" is the total of the eighteen       *)
(* emotion weights and "resonance" the five placement weights.             *)
(***************************************************************************)
EXTENDS Integers, Sequences
LOCAL INSTANCE Functions

Defaults ==
    [breath |-> 80, effort |-> 0, closure |-> 50, rough |-> 50, rasp |-> 20,
     gravel |-> 0, pitch |-> 0, mumble |-> 0, precision |-> 250, hdrop |-> 0,
     thfront |-> 0, strength |-> 100, consistency |-> 800, vibrato |-> 0,
     depth |-> 0, emotion |-> 600, liveness |-> 30, decay |-> 20,
     creak |-> -150, resonance |-> <<350, 150, 300, 50, 150>>]
Control == DOMAIN Defaults
Signed == {"effort", "closure", "pitch", "precision"}
Lowest(c) == IF c \in Signed THEN -1000 ELSE 0
Highest(c) == IF c = "emotion" THEN 18000 ELSE 1000
NoPlacement == <<250, 150, 400, 50, 150>>
\* The one default outside its own range, and what descriptions start from.
Pinned == [c \in {"creak"} |-> 0]

AtMost(limit, v) == IF v > limit THEN limit ELSE v
AtLeast(limit, v) == IF v < limit THEN limit ELSE v
Clamp(low, high, v) == AtLeast(low, AtMost(high, v))
Rounded(a, b) == (2 * a + b) \div (2 * b)
Scaled(v, limit, total) == IF total > limit THEN Rounded(v * limit, total) ELSE v
Magnitude(v) == IF v < 0 THEN -v ELSE v

\* The third weight takes whatever rounding left over.
Resonance(w) ==
    LET asked == IF FoldFunction(+, 0, w) = 0 THEN NoPlacement ELSE w
        total == FoldFunction(+, 0, asked)
        share == [i \in DOMAIN asked |-> Rounded(1000 * asked[i], total)]
    IN  [share EXCEPT ![3] = @ + 1000 - FoldFunction(+, 0, share)]

\* Every value is read before any constraint writes one, so the cap on gravel
\* under an extreme pitch replaces the value the texture limit had chosen.
Constrained(d) ==
    LET airy == d.breath > 750 /\ (d.effort > 650 \/ d.closure > 700)
        texture == d.rough + d.rasp + d.gravel
        strained == Magnitude(d.pitch) > 800 /\ d.gravel > 650
        mumbled == d.mumble > 550
        accents == d.hdrop + d.thfront
        wobble == d.vibrato * d.depth
    IN  [d EXCEPT
          !.effort = IF airy THEN AtMost(550, @) ELSE @,
          !.closure = IF airy THEN AtMost(600, @) ELSE @,
          !.rough = Scaled(@, 1750, texture),
          !.rasp = Scaled(@, 1750, texture),
          !.gravel = IF strained THEN 650 ELSE Scaled(@, 1750, texture),
          !.mumble = AtMost(550, @),
          !.precision = IF mumbled THEN AtLeast(-400, @) ELSE @,
          !.hdrop = Scaled(@, 1100, accents),
          !.thfront = Scaled(@, 1100, accents),
          !.consistency = IF d.strength > 750 THEN AtLeast(500, @) ELSE @,
          !.depth = IF wobble > 180000 THEN Rounded(180000, d.vibrato) ELSE @,
          !.emotion = AtMost(6000, @),
          !.liveness = AtMost(450, @),
          !.decay = AtMost(350, @)]

\* A sparse patch is a function on some controls; the others take defaults,
\* which are not clamped.
Normalize(patch) ==
    LET given(c) == IF c = "resonance"
                    THEN [i \in 1..5 |-> Clamp(0, 1000, patch[c][i])]
                    ELSE Clamp(Lowest(c), Highest(c), patch[c])
        filled == [c \in Control |-> IF c \in DOMAIN patch THEN given(c)
                                     ELSE Defaults[c]]
    IN  Constrained([filled EXCEPT !.resonance = Resonance(filled.resonance)])

Patched(base, patch) ==
    [c \in DOMAIN base \union DOMAIN patch |-> IF c \in DOMAIN patch THEN patch[c] ELSE base[c]]
Merge(base, patch) == Normalize(Patched(base, patch))

Described(patch) == Normalize(Patched(Pinned, patch))

-----------------------------------------------------------------------------
Drifted(d, reference, locked) == {c \in locked : d[c] # reference[c]}
Hold(d, reference, cs) == Patched(d, [c \in cs |-> reference[c]])

\* Slip: give in to the constraint that moved a locked value.
HoldOnce(d, reference, locked) ==
    IF Drifted(d, reference, locked) = {} THEN d
    ELSE Normalize(Hold(d, reference, locked))

EnforceLocks(d, reference, locked) ==
    LET moved == Drifted(d, reference, locked)
        again == Normalize(Hold(d, reference, moved))
    IN  IF moved = {} THEN d
        ELSE Hold(again, reference, Drifted(again, reference, locked))

FinalizeSpec(parameters, reference, locked) ==
    EnforceLocks(Normalize(parameters), reference, locked)

\* Each control jittered around the center, or moved by a request; a locked
\* path is skipped.
Unlocked(patch, locked) == [c \in DOMAIN patch \ locked |-> patch[c]]
VariedSpec(center, patch, locked) ==
    FinalizeSpec(Merge(center, Unlocked(patch, locked)), center, locked)
MutatedSpec(base, patch, locked) == VariedSpec(Normalize(base), patch, locked)

BredSpec(a, b, weight, locked) ==
    LET da == Normalize(a)
        db == Normalize(b)
        Blend(x, y) == Rounded(x * weight + y * (1000 - weight), 1000)
        child == [c \in Control |->
                    IF c \in locked THEN da[c]
                    ELSE IF c = "resonance"
                         THEN [i \in 1..5 |-> Blend(da[c][i], db[c][i])]
                         ELSE Blend(da[c], db[c])]
    IN  FinalizeSpec(child, da, locked)

=============================================================================
