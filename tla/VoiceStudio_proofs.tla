------------------------ MODULE VoiceStudio_proofs ------------------------
(* What a studio owes a listener, for any patches, saves, locks and weights.   *)
(* A version goes through normalization and the screen once more, whatever its *)
(* candidate went through; only three controls matter to the constraint that   *)
(* breath and pressure exclude each other, and a voice keeps the provider of   *)
(* its first version.  An audition room plays whole clips, whatever fails.     *)
EXTENDS VoiceStudio, Previews, TLAPS

\* Sung says which controls of a document are numbers as far as it has them.
Sung == {"breath", "effort", "closure"}
Given(d) == \A c \in Sung \intersect DOMAIN d : d[c] \in Int
Numbers(d) == Control \subseteq DOMAIN d /\ \A c \in Sung : d[c] \in Int
Relaxed(d) == d["breath"] > 750 => d["effort"] <= 650 /\ d["closure"] <= 700
-----------------------------------------------------------------------------
LEMMA Controls == Sung \subseteq Control /\ "resonance" \in Control /\ "resonance" \notin Sung
  BY DEF Sung, Control, Defaults

LEMMA DefaultsAreNumbers == \A c \in Sung : Defaults[c] \in Int
  BY DEF Sung, Defaults

LEMMA NumbersGiven == ASSUME NEW d, Numbers(d) PROVE Given(d)
  BY DEF Numbers, Given

LEMMA ClampIsInt == ASSUME NEW v \in Int, NEW low \in Int, NEW high \in Int
                    PROVE  Clamp(low, high, v) \in Int
  BY DEF Clamp, AtLeast, AtMost

LEMMA ConstrainedOK ==
    ASSUME NEW d, DOMAIN d = Control, \A c \in Sung : d[c] \in Int
    PROVE  Numbers(Constrained(d)) /\ Relaxed(Constrained(d))
  <1> DEFINE airy == d.breath > 750 /\ (d.effort > 650 \/ d.closure > 700)
  <1>1. DOMAIN Constrained(d) = Control
    <2> DEFINE texture == d.rough + d.rasp + d.gravel
               strained == Magnitude(d.pitch) > 800 /\ d.gravel > 650
               accents == d.hdrop + d.thfront
               wobble == d.vibrato * d.depth
               \* The first seven controls, then the others.
               half == [d EXCEPT !.effort = IF airy THEN AtMost(550, @) ELSE @,
                                 !.closure = IF airy THEN AtMost(600, @) ELSE @,
                                 !.rough = Scaled(@, 1750, texture),
                                 !.rasp = Scaled(@, 1750, texture),
                                 !.gravel = IF strained THEN 650 ELSE Scaled(@, 1750, texture),
                                 !.mumble = AtMost(550, @),
                                 !.precision = IF d.mumble > 550 THEN AtLeast(-400, @) ELSE @]
    <2>1. Constrained(d) =
            [half EXCEPT !.hdrop = Scaled(@, 1100, accents), !.thfront = Scaled(@, 1100, accents),
                         !.consistency = IF d.strength > 750 THEN AtLeast(500, @) ELSE @,
                         !.depth = IF wobble > 180000 THEN Rounded(180000, d.vibrato) ELSE @,
                         !.emotion = AtMost(6000, @), !.liveness = AtMost(450, @),
                         !.decay = AtMost(350, @)]
      BY DEF Constrained
    <2>2. DOMAIN half = Control
      OBVIOUS
    <2> HIDE DEF half, accents, wobble
    <2>3. QED BY <2>1, <2>2
  <1>2. Constrained(d)["breath"] = d["breath"]
    BY Controls DEF Constrained, Sung
  <1>3. Constrained(d)["effort"] = IF airy THEN AtMost(550, d["effort"]) ELSE d["effort"]
    BY Controls DEF Constrained, Sung
  <1>4. Constrained(d)["closure"] = IF airy THEN AtMost(600, d["closure"]) ELSE d["closure"]
    BY Controls DEF Constrained, Sung
  <1>5. d["breath"] \in Int /\ d["effort"] \in Int /\ d["closure"] \in Int
    BY DEF Sung
  <1>6. QED BY <1>1, <1>2, <1>3, <1>4, <1>5 DEF Numbers, Relaxed, AtMost, Sung

\* Normalizing makes numbers of the controls that matter, and of them a voice
\* that does not press when it breathes.
LEMMA NormalizeOK ==
    ASSUME NEW p, Given(p)
    PROVE  Numbers(Normalize(p)) /\ Relaxed(Normalize(p))
  <1> DEFINE given(c) == IF c = "resonance"
                         THEN [i \in 1..5 |-> Clamp(0, 1000, p[c][i])]
                         ELSE Clamp(Lowest(c), Highest(c), p[c])
             filled == [c \in Control |-> IF c \in DOMAIN p THEN given(c) ELSE Defaults[c]]
             d == [filled EXCEPT !.resonance = Resonance(filled.resonance)]
  <1>1. Normalize(p) = Constrained(d)
    BY DEF Normalize
  <1>2. \A c \in Sung : filled[c] \in Int
    <2>1. TAKE c \in Sung
    <2>2. CASE c \in DOMAIN p
      <3>1. filled[c] = Clamp(Lowest(c), Highest(c), p[c])
        BY <2>2, Controls
      <3>2. p[c] \in Int /\ Lowest(c) \in Int /\ Highest(c) \in Int
        BY <2>2 DEF Given, Lowest, Highest
      <3>3. QED BY <3>1, <3>2, ClampIsInt
    <2>3. CASE c \notin DOMAIN p
      BY <2>3, Controls, DefaultsAreNumbers
    <2>4. QED BY <2>2, <2>3
  <1>3. DOMAIN filled = Control
    OBVIOUS
  <1> HIDE DEF filled
  <1>4. DOMAIN d = Control /\ \A c \in Sung : d[c] \in Int
    BY <1>2, <1>3, Controls
  <1> HIDE DEF d
  <1>5. QED BY <1>1, <1>4, ConstrainedOK

LEMMA PatchedGiven ==
    ASSUME NEW b, NEW p, Given(b), Given(p)
    PROVE  Given(Patched(b, p))
  BY DEF Given, Patched
LEMMA PatchedNumbers ==
    ASSUME NEW b, NEW p, Numbers(b), Given(p)
    PROVE  Numbers(Patched(b, p))
  <1>1. \A c \in Sung : c \in DOMAIN b
    BY Controls DEF Numbers
  <1>2. QED BY <1>1 DEF Given, Numbers, Patched
LEMMA SparseGiven == ASSUME NEW p, Sparse(p) PROVE Given(p)
  BY Controls DEF Sparse, Given

LEMMA DescribedOK ==
    ASSUME NEW p, Given(p)
    PROVE  Numbers(Described(p))
  <1>1. Given(Pinned)
    BY DEF Given, Pinned, Sung
  <1>2. QED BY <1>1, PatchedGiven, NormalizeOK DEF Described

\* What the locks make of a document: numbers still, and the locked controls
\* as the reference has them.
LEMMA LocksOK ==
    ASSUME NEW d, NEW ref, NEW locked, locked \subseteq Control, Numbers(d), Numbers(ref)
    PROVE  /\ Numbers(EnforceLocks(d, ref, locked))
           /\ \A c \in locked : EnforceLocks(d, ref, locked)[c] = ref[c]
  <1> DEFINE moved == Drifted(d, ref, locked)
             again == Normalize(Hold(d, ref, moved))
             left == Drifted(again, ref, locked)
  <1>1. ASSUME NEW cs, cs \subseteq locked PROVE Given([c \in cs |-> ref[c]])
    BY DEF Given, Numbers
  <1>2. moved \subseteq locked /\ left \subseteq locked
    BY DEF Drifted
  <1>3. CASE moved = {}
    <2>1. EnforceLocks(d, ref, locked) = d
      BY <1>3 DEF EnforceLocks
    <2>2. \A c \in locked : d[c] = ref[c]
      BY <1>3 DEF Drifted
    <2>3. QED BY <2>1, <2>2
  <1>4. CASE moved # {}
    <2>1. Given(Hold(d, ref, moved))
      BY <1>1, <1>2, NumbersGiven, PatchedGiven DEF Hold
    <2>2. Numbers(again)
      BY <2>1, NormalizeOK
    <2>3. EnforceLocks(d, ref, locked) = Hold(again, ref, left)
      BY <1>4 DEF EnforceLocks
    <2> HIDE DEF again
    <2>4. \A c \in locked : c \notin left => again[c] = ref[c]
      BY DEF Drifted
    <2> HIDE DEF left
    <2>5. Numbers(Hold(again, ref, left))
      BY <1>1, <1>2, <2>2, PatchedNumbers DEF Hold
    <2>6. \A c \in locked : Hold(again, ref, left)[c] = ref[c]
      <3>1. TAKE c \in locked
      <3>2. CASE c \in left
        BY <3>2 DEF Hold, Patched
      <3>3. CASE c \notin left
        <4>1. c \in DOMAIN again
          BY <2>2 DEF Numbers
        <4>2. QED BY <2>4, <3>3, <4>1 DEF Hold, Patched
      <3>4. QED BY <3>2, <3>3
    <2>7. QED BY <2>3, <2>5, <2>6
  <1>5. QED BY <1>3, <1>4

LEMMA FinalOK ==
    ASSUME NEW p, NEW ref, NEW locked, locked \subseteq Control, Given(p), Numbers(ref)
    PROVE  /\ Numbers(FinalizeSpec(p, ref, locked))
           /\ \A c \in locked : FinalizeSpec(p, ref, locked)[c] = ref[c]
  BY NormalizeOK, LocksOK DEF FinalizeSpec

LEMMA VariedOK ==
    ASSUME NEW center, NEW patch, NEW locked, locked \subseteq Control, Given(patch), Numbers(center)
    PROVE  /\ Numbers(VariedSpec(center, patch, locked))
           /\ \A c \in locked : VariedSpec(center, patch, locked)[c] = center[c]
  <1>1. Given(Unlocked(patch, locked))
    BY DEF Given, Unlocked
  <1>2. Given(Merge(center, Unlocked(patch, locked)))
    BY <1>1, NumbersGiven, PatchedGiven, NormalizeOK DEF Merge
  <1>3. QED BY <1>2, FinalOK DEF VariedSpec

\* Mutation varies the base as it is normalized again, which is what is held.
LEMMA MutatedOK ==
    ASSUME NEW base, NEW patch, NEW locked, locked \subseteq Control, Given(patch), Numbers(base)
    PROVE  /\ Numbers(MutatedSpec(base, patch, locked))
           /\ \A c \in locked : MutatedSpec(base, patch, locked)[c] = Normalize(base)[c]
  BY NumbersGiven, NormalizeOK, VariedOK DEF MutatedSpec

Blended(x, y, weight) == Rounded(x * weight + y * (1000 - weight), 1000)
LEMMA BlendIsInt ==
    ASSUME NEW weight \in Nat, NEW x \in Int, NEW y \in Int
    PROVE  Blended(x, y, weight) \in Int
  <1> DEFINE n == x * weight + y * (1000 - weight)
  <1>1. n \in Int
    OBVIOUS
  <1> HIDE DEF n
  <1>2. Rounded(n, 1000) \in Int
    BY <1>1 DEF Rounded
  <1>3. QED BY <1>2 DEF n, Blended

LEMMA BredOK ==
    ASSUME NEW a, NEW b, NEW weight \in Nat, NEW locked, locked \subseteq Control,
           Numbers(a), Numbers(b)
    PROVE  /\ Numbers(BredSpec(a, b, weight, locked))
           /\ \A c \in locked : BredSpec(a, b, weight, locked)[c] = Normalize(a)[c]
  <1> DEFINE da == Normalize(a)
             db == Normalize(b)
             child == [c \in Control |->
                         IF c \in locked THEN da[c]
                         ELSE IF c = "resonance"
                              THEN [i \in 1..5 |-> Blended(da[c][i], db[c][i], weight)]
                              ELSE Blended(da[c], db[c], weight)]
  <1>1. Numbers(da) /\ Numbers(db)
    BY NumbersGiven, NormalizeOK
  <1>2. BredSpec(a, b, weight, locked) = FinalizeSpec(child, da, locked)
    BY DEF BredSpec, Blended
  <1> HIDE DEF da, db
  <1>4. Given(child)
    <2> SUFFICES ASSUME NEW c \in Sung PROVE child[c] \in Int
      BY DEF Given
    <2>1. c \in Control /\ c # "resonance" /\ da[c] \in Int /\ db[c] \in Int
      BY <1>1, Controls DEF Numbers
    <2>2. Blended(da[c], db[c], weight) \in Int
      BY <2>1, BlendIsInt
    <2>3. child[c] = IF c \in locked THEN da[c] ELSE Blended(da[c], db[c], weight)
      BY <2>1
    <2> HIDE DEF child
    <2>4. QED BY <2>1, <2>2, <2>3
  <1> HIDE DEF child
  <1>5. QED BY <1>1, <1>2, <1>4, FinalOK DEF da
-----------------------------------------------------------------------------
\* Lists of rows that are appended to and updated, whatever is in them.
Listed(s) == \E S : s \in Seq(S)
LEMMA ListedFacts ==
    ASSUME NEW s, Listed(s)
    PROVE  Len(s) \in Nat /\ DOMAIN s = 1..Len(s)
  BY DEF Listed
Longer(t, s, e) == /\ Listed(t) /\ Len(t) = Len(s) + 1
                   /\ Len(s) \in Nat /\ DOMAIN t = 1..(Len(s) + 1)
                   /\ DOMAIN s = 1..Len(s)
                   /\ \A i \in DOMAIN s : t[i] = s[i]
                   /\ t[Len(s) + 1] = e
LEMMA Appended ==
    ASSUME NEW s, NEW e, Listed(s)
    PROVE  Longer(Append(s, e), s, e)
  <1>1. PICK S : s \in Seq(S)
    BY DEF Listed
  <1> DEFINE T == S \union {e}
  <1>2. s \in Seq(T) /\ e \in T
    BY <1>1
  <1> HIDE DEF T
  <1>3. Append(s, e) \in Seq(T)
    BY <1>2
  <1>4. Listed(Append(s, e))
    BY <1>3 DEF Listed
  <1>5. QED BY <1>2, <1>3, <1>4 DEF Longer
LEMMA Updated ==
    ASSUME NEW s, NEW k, NEW e, Listed(s), k \in DOMAIN s
    PROVE  LET t == [s EXCEPT ![k] = e]
           IN  /\ Listed(t) /\ DOMAIN t = DOMAIN s /\ t[k] = e
               /\ \A i \in DOMAIN s : i # k => t[i] = s[i]
  <1>1. PICK S : s \in Seq(S)
    BY DEF Listed
  <1> DEFINE T == S \union {e}
             t == [s EXCEPT ![k] = e]
  <1>2. s \in Seq(T) /\ e \in T
    BY <1>1
  <1> HIDE DEF T
  <1>3. t \in Seq(T)
    BY <1>2
  <1>4. Listed(t)
    BY <1>3 DEF Listed
  <1>5. QED BY <1>4
-----------------------------------------------------------------------------
VoiceRow == [status : {"ready", "revoked", "deleted"}, current : Nat, provider : StudioProviders]
Lists == sVoices \in Seq(VoiceRow) /\ Listed(sVersions) /\ Listed(sCandidates)
VersionOK(n) == /\ sVersions[n].voice \in DOMAIN sVoices
                /\ sVersions[n].provider = sVoices[sVersions[n].voice].provider
                /\ Numbers(sVersions[n].doc) /\ Relaxed(sVersions[n].doc)
                /\ Clear(sVersions[n].doc)
VoiceOK(v) == /\ sVoices[v].current \in DOMAIN sVersions
              /\ sVersions[sVoices[v].current].voice = v
CandidateOK(c) == /\ Numbers(c.doc) /\ c.provider \in StudioProviders
                  /\ \A x \in c.locked : c.doc[x] = c.held[x]
VersionsOK == \A n \in DOMAIN sVersions : VersionOK(n)
VoicesOK == \A v \in DOMAIN sVoices : VoiceOK(v)
CandidatesOK == \A k \in DOMAIN sCandidates : CandidateOK(sCandidates[k])
StudioInv == Lists /\ VersionsOK /\ VoicesOK /\ CandidatesOK

LEMMA VoiceFacts ==
    ASSUME NEW s \in Seq(VoiceRow)
    PROVE  /\ Len(s) \in Nat /\ DOMAIN s = 1..Len(s) /\ Listed(s)
           /\ \A v \in DOMAIN s : s[v] \in VoiceRow
  BY DEF Listed

\* A version of v is added, v being one of the voices or the one that is new.
LEMMA AddVersionOK ==
    ASSUME Lists, VersionsOK, VoicesOK, NEW v, NEW p, NEW pr \in StudioProviders,
           NEW voices \in Seq(VoiceRow), v \in DOMAIN voices,
           \A u \in DOMAIN sVoices : u \in DOMAIN voices /\ voices[u] = sVoices[u],
           \A u \in DOMAIN voices : u \in DOMAIN sVoices \/ u = v,
           v \in DOMAIN sVoices => pr = sVoices[v].provider,
           Given(p), AddVersion(v, p, pr, voices)
    PROVE  sVoices' \in Seq(VoiceRow) /\ Listed(sVersions') /\ VersionsOK' /\ VoicesOK'
  <1> DEFINE last == Len(sVersions) + 1
             rec == [voice |-> v, number |-> Cardinality(OfVoice(v)) + 1,
                     doc |-> Normalize(p), provider |-> pr]
             row == [voices[v] EXCEPT !.current = last, !.provider = pr]
  <1>1. /\ Clear(Normalize(p)) /\ sVersions' = Append(sVersions, rec)
        /\ sVoices' = [voices EXCEPT ![v].current = last, ![v].provider = pr]
    BY DEF AddVersion
  <1>2. rec.voice = v /\ rec.provider = pr /\ rec.doc = Normalize(p)
    OBVIOUS
  <1> HIDE DEF rec
  <1>3. Longer(sVersions', sVersions, rec)
    BY <1>1, Appended DEF Lists
  <1>4. last \in Nat
    BY <1>3 DEF Longer
  <1>5. voices[v] \in VoiceRow
    BY VoiceFacts
  <1>6. row \in VoiceRow /\ row.current = last /\ row.provider = pr
    <2> HIDE DEF last
    <2>1. QED BY <1>4, <1>5 DEF VoiceRow
  <1>7. sVoices' = [voices EXCEPT ![v] = row]
    BY <1>1
  <1>8. last \in DOMAIN sVersions' /\ sVersions'[last] = rec
    BY <1>3 DEF Longer
  <1>9. \A n \in DOMAIN sVersions' : n \in DOMAIN sVersions \/ n = last
    BY <1>3 DEF Longer
  <1>10. \A n \in DOMAIN sVersions : n \in DOMAIN sVersions' /\ sVersions'[n] = sVersions[n]
    BY <1>3 DEF Longer
  <1> HIDE DEF last, row
  <1>11. /\ sVoices' \in Seq(VoiceRow) /\ DOMAIN sVoices' = DOMAIN voices /\ sVoices'[v] = row
         /\ \A u \in DOMAIN voices : u # v => sVoices'[u] = voices[u]
    BY <1>6, <1>7
  <1>12. VoicesOK'
    <2> SUFFICES ASSUME NEW u \in DOMAIN sVoices' PROVE VoiceOK(u)'
      BY DEF VoicesOK
    <2>1. CASE u = v
      BY <1>2, <1>6, <1>8, <1>11, <2>1 DEF VoiceOK
    <2>2. CASE u # v
      <3>1. u \in DOMAIN sVoices /\ sVoices'[u] = sVoices[u]
        BY <1>11, <2>2
      <3>2. VoiceOK(u)
        BY <3>1 DEF VoicesOK
      <3>3. QED BY <1>10, <3>1, <3>2 DEF VoiceOK
    <2>3. QED BY <2>1, <2>2
  <1>13. VersionsOK'
    <2> SUFFICES ASSUME NEW n \in DOMAIN sVersions' PROVE VersionOK(n)'
      BY DEF VersionsOK
    <2>1. CASE n = last
      <3>1. Numbers(rec.doc) /\ Relaxed(rec.doc) /\ Clear(rec.doc)
        BY <1>1, <1>2, NormalizeOK
      <3>2. QED BY <1>2, <1>6, <1>8, <1>11, <2>1, <3>1 DEF VersionOK, Clear
    <2>2. CASE n \in DOMAIN sVersions
      <3>1. VersionOK(n) /\ sVersions'[n] = sVersions[n]
        BY <1>10, <2>2 DEF VersionsOK
      <3>2. PICK w \in DOMAIN sVoices : w = sVersions[n].voice
        BY <3>1 DEF VersionOK
      <3>3. w \in DOMAIN sVoices' /\ sVoices'[w].provider = sVoices[w].provider
        BY <1>6, <1>11
      <3>4. QED BY <3>1, <3>2, <3>3 DEF VersionOK, Clear
    <2>3. QED BY <1>9, <2>1, <2>2
  <1>14. QED BY <1>3, <1>11, <1>12, <1>13 DEF Longer

LEMMA SaveOK ==
    ASSUME StudioInv, NEW v \in DOMAIN sVoices, NEW p, NEW pr, Given(p),
           pr = sVoices[v].provider, AddVersion(v, p, pr, sVoices)
    PROVE  sVoices' \in Seq(VoiceRow) /\ Listed(sVersions') /\ VersionsOK' /\ VoicesOK'
  <1>1. sVoices \in Seq(VoiceRow) /\ sVoices[v] \in VoiceRow
    BY VoiceFacts DEF StudioInv, Lists
  <1>2. pr \in StudioProviders
    BY <1>1 DEF VoiceRow
  <1>3. QED BY <1>1, <1>2, AddVersionOK DEF StudioInv

LEMMA AddVoiceOK ==
    ASSUME StudioInv, NEW p, NEW pr \in StudioProviders, Given(p), AddVoice(p, pr)
    PROVE  sVoices' \in Seq(VoiceRow) /\ Listed(sVersions') /\ VersionsOK' /\ VoicesOK'
  <1> DEFINE row == [status |-> "ready", current |-> 0, provider |-> pr]
             voices == Append(sVoices, row)
             v == Len(sVoices) + 1
  <1>1. AddVersion(v, p, pr, voices)
    BY DEF AddVoice
  <1>2. sVoices \in Seq(VoiceRow) /\ row \in VoiceRow
    BY DEF StudioInv, Lists, VoiceRow
  <1> HIDE DEF row
  <1>3. voices \in Seq(VoiceRow)
    BY <1>2
  <1>4. Longer(voices, sVoices, row)
    BY <1>2, VoiceFacts, Appended
  <1> HIDE DEF voices
  <1>5. /\ v \in DOMAIN voices /\ v \notin DOMAIN sVoices
        /\ \A u \in DOMAIN sVoices : u \in DOMAIN voices /\ voices[u] = sVoices[u]
        /\ \A u \in DOMAIN voices : u \in DOMAIN sVoices \/ u = v
    BY <1>4 DEF Longer
  <1> HIDE DEF v
  <1>6. QED BY <1>1, <1>3, <1>5, AddVersionOK DEF StudioInv

\* Only the status, or the current version, of a voice changes.
LEMMA RowOK ==
    ASSUME StudioInv, NEW v \in DOMAIN sVoices, NEW row \in VoiceRow,
           sVoices' = [sVoices EXCEPT ![v] = row], UNCHANGED <<sVersions, sCandidates>>,
           row.provider = sVoices[v].provider,
           row.current \in DOMAIN sVersions, sVersions[row.current].voice = v
    PROVE  StudioInv'
  <1>1. /\ sVoices' \in Seq(VoiceRow) /\ DOMAIN sVoices' = DOMAIN sVoices /\ sVoices'[v] = row
        /\ \A u \in DOMAIN sVoices : u # v => sVoices'[u] = sVoices[u]
    BY DEF StudioInv, Lists
  <1>2. VoicesOK'
    BY <1>1 DEF StudioInv, VoicesOK, VoiceOK
  <1>3. \A u \in DOMAIN sVoices : sVoices'[u].provider = sVoices[u].provider
    BY <1>1
  <1>4. VersionsOK'
    BY <1>1, <1>3 DEF StudioInv, VersionsOK, VersionOK, Clear
  <1>5. QED BY <1>1, <1>2, <1>4 DEF StudioInv, Lists, CandidatesOK

LEMMA JudgedOK ==
    ASSUME StudioInv, NEW k \in DOMAIN sCandidates, NEW status, Judged(k, status)
    PROVE  Listed(sCandidates') /\ CandidatesOK'
  <1> DEFINE c == [sCandidates[k] EXCEPT !.status = status]
  <1>1. sCandidates' = [sCandidates EXCEPT ![k] = c]
    BY DEF Judged
  <1>2. c.doc = sCandidates[k].doc /\ c.provider = sCandidates[k].provider
        /\ c.locked = sCandidates[k].locked /\ c.held = sCandidates[k].held
    OBVIOUS
  <1> HIDE DEF c
  <1>3. CandidateOK(c)
    BY <1>2 DEF StudioInv, CandidatesOK, CandidateOK
  <1>4. /\ Listed(sCandidates') /\ DOMAIN sCandidates' = DOMAIN sCandidates
        /\ sCandidates'[k] = c /\ \A i \in DOMAIN sCandidates : i # k => sCandidates'[i] = sCandidates[i]
    BY <1>1, Updated DEF StudioInv, Lists
  <1>5. QED BY <1>3, <1>4 DEF StudioInv, CandidatesOK

LEMMA StoreOK ==
    ASSUME StudioInv, NEW c, StoreCandidate(c), CandidateOK(c)
    PROVE  StudioInv'
  <1>1. Longer(sCandidates', sCandidates, c) /\ UNCHANGED <<sVoices, sVersions>>
    BY Appended DEF StoreCandidate, StudioInv, Lists
  <1>2. CandidatesOK'
    <2> SUFFICES ASSUME NEW k \in DOMAIN sCandidates' PROVE CandidateOK(sCandidates'[k])
      BY DEF CandidatesOK
    <2>1. k \in DOMAIN sCandidates \/ k = Len(sCandidates) + 1
      BY <1>1 DEF Longer
    <2>2. QED BY <1>1, <2>1 DEF Longer, StudioInv, CandidatesOK
  <1>3. QED BY <1>1, <1>2 DEF StudioInv, Lists, Longer, VersionsOK, VersionOK, VoicesOK, VoiceOK, Clear
-----------------------------------------------------------------------------
LEMMA SpecifiedOK ==
    ASSUME NEW doc, NEW pr \in StudioProviders, NEW locked, NEW held, NEW parents,
           Numbers(doc), \A x \in locked : doc[x] = held[x]
    PROVE  CandidateOK(Specified(doc, pr, locked, held, parents))
  BY DEF CandidateOK, Specified

LEMMA Requested ==
    /\ \A d \in Patches \union Saves : Given(d)
    /\ \A ls \in LockSets : ls \subseteq Control
    /\ Weights \subseteq Nat
  BY StudioAssumption, SparseGiven

LEMMA SVersionFacts ==
    ASSUME StudioInv, NEW n \in DOMAIN sVersions
    PROVE  Numbers(sVersions[n].doc) /\ sVersions[n].provider \in StudioProviders
  <1>1. VersionOK(n)
    BY DEF StudioInv, VersionsOK
  <1>2. sVoices[sVersions[n].voice] \in VoiceRow
    BY <1>1, VoiceFacts DEF StudioInv, Lists, VersionOK
  <1>3. QED BY <1>1, <1>2 DEF VersionOK, VoiceRow
-----------------------------------------------------------------------------
\* One operation at a time.
LEMMA StatusStep ==
    ASSUME StudioInv, NEW v \in DOMAIN sVoices, Revoke(v) \/ DeleteVoice(v)
    PROVE  StudioInv'
  <1>1. sVoices[v] \in VoiceRow /\ VoiceOK(v)
    BY VoiceFacts DEF StudioInv, Lists, VoicesOK
  <1>2. ASSUME NEW s \in {"revoked", "deleted"}, sVoices' = [sVoices EXCEPT ![v].status = s],
               UNCHANGED <<sVersions, sCandidates>>
        PROVE  StudioInv'
    <2> DEFINE row == [sVoices[v] EXCEPT !.status = s]
    <2>1. /\ row \in VoiceRow /\ row.provider = sVoices[v].provider
          /\ row.current = sVoices[v].current
      BY <1>1 DEF VoiceRow
    <2>2. sVoices' = [sVoices EXCEPT ![v] = row]
      BY <1>2
    <2> HIDE DEF row
    <2>3. QED BY <1>1, <1>2, <2>1, <2>2, RowOK DEF VoiceOK
  <1>3. QED BY <1>2 DEF Revoke, DeleteVoice

LEMMA RollBackStep ==
    ASSUME StudioInv, NEW v \in DOMAIN sVoices, NEW n \in DOMAIN sVersions, RollBack(v, n)
    PROVE  StudioInv'
  <1>1. sVoices[v] \in VoiceRow
    BY VoiceFacts DEF StudioInv, Lists
  <1> DEFINE pr == sVersions[n].provider
             row == [sVoices[v] EXCEPT !.current = n, !.provider = pr]
  <1>2. sVersions[n].voice = v /\ UNCHANGED <<sVersions, sCandidates>>
    BY DEF RollBack
  <1>3. sVoices' = [sVoices EXCEPT ![v] = row]
    BY DEF RollBack
  <1>4. pr = sVoices[v].provider
    BY <1>2 DEF StudioInv, VersionsOK, VersionOK
  <1>5. pr \in StudioProviders /\ n \in Nat
    BY SVersionFacts, ListedFacts DEF StudioInv, Lists
  <1> HIDE DEF pr
  <1>6. row \in VoiceRow /\ row.provider = sVoices[v].provider /\ row.current = n
    BY <1>1, <1>4, <1>5 DEF VoiceRow
  <1> HIDE DEF row
  <1>7. QED BY <1>2, <1>3, <1>6, RowOK

LEMMA SaveStep ==
    ASSUME StudioInv, NEW v \in DOMAIN sVoices, NEW d \in Saves, SaveVersion(v, d)
    PROVE  StudioInv'
  <1>1. AddVersion(v, d, sVoices[v].provider, sVoices) /\ UNCHANGED sCandidates
    BY DEF SaveVersion
  <1>2. Given(d)
    BY Requested
  <1>3. QED BY <1>1, <1>2, SaveOK DEF StudioInv, Lists, CandidatesOK

LEMMA CreateStep ==
    ASSUME StudioInv, NEW patch \in Patches, NEW pr \in StudioProviders, CreateVoice(patch, pr)
    PROVE  StudioInv'
  <1>1. AddVoice(Described(patch), pr) /\ UNCHANGED sCandidates
    BY DEF CreateVoice
  <1>2. Given(Described(patch))
    BY Requested, DescribedOK, NumbersGiven
  <1>3. QED BY <1>1, <1>2, AddVoiceOK DEF StudioInv, Lists, CandidatesOK

LEMMA GenerateStep ==
    ASSUME StudioInv, NEW patch \in Patches, NEW jitter \in Patches, NEW ls \in LockSets,
           NEW pr \in StudioProviders, Generate(patch, jitter, ls, pr)
    PROVE  StudioInv'
  <1> DEFINE center == Described(patch)
             doc == VariedSpec(center, jitter, ls)
  <1>1. Numbers(center) /\ Given(jitter) /\ ls \subseteq Control
    BY Requested, DescribedOK
  <1> HIDE DEF center
  <1>2. Numbers(doc) /\ \A c \in ls : doc[c] = center[c]
    BY <1>1, VariedOK
  <1>3. StoreCandidate(Specified(doc, pr, ls, center, {}))
    BY DEF Generate, center
  <1> HIDE DEF doc
  <1>4. QED BY <1>2, <1>3, SpecifiedOK, StoreOK

LEMMA MutateStep ==
    ASSUME StudioInv, NEW n \in DOMAIN sVersions, NEW patch \in Patches, NEW ls \in LockSets,
           Mutate(n, patch, ls)
    PROVE  StudioInv'
  <1> DEFINE base == Normalize(sVersions[n].doc)
             again == Normalize(base)
             doc == MutatedSpec(base, patch, ls)
             pr == sVersions[n].provider
  <1>1. Numbers(base) /\ pr \in StudioProviders /\ Given(patch) /\ ls \subseteq Control
    BY Requested, SVersionFacts, NumbersGiven, NormalizeOK
  <1>2. StoreCandidate(Specified(doc, pr, ls, again, {n}))
    BY DEF Mutate
  <1> HIDE DEF base, pr
  <1>3. Numbers(doc) /\ \A c \in ls : doc[c] = again[c]
    BY <1>1, MutatedOK
  <1> HIDE DEF doc, again
  <1>4. QED BY <1>1, <1>2, <1>3, SpecifiedOK, StoreOK

LEMMA BreedStep ==
    ASSUME StudioInv, NEW a \in DOMAIN sVersions, NEW b \in DOMAIN sVersions,
           NEW w \in Weights, NEW ls \in LockSets, Breed(a, b, w, ls)
    PROVE  StudioInv'
  <1> DEFINE da == sVersions[a].doc
             db == sVersions[b].doc
             held == Normalize(da)
             doc == BredSpec(da, db, w, ls)
             pr == sVersions[a].provider
  <1>1. /\ Numbers(da) /\ Numbers(db) /\ pr \in StudioProviders
        /\ w \in Nat /\ ls \subseteq Control
    BY Requested, SVersionFacts
  <1>2. StoreCandidate(Specified(doc, pr, ls, held, {a, b}))
    BY DEF Breed
  <1> HIDE DEF da, db, pr
  <1>3. Numbers(doc) /\ \A c \in ls : doc[c] = held[c]
    BY <1>1, BredOK
  <1> HIDE DEF doc, held
  <1>4. QED BY <1>1, <1>2, <1>3, SpecifiedOK, StoreOK

LEMMA JudgeStep ==
    ASSUME StudioInv, NEW k \in DOMAIN sCandidates,
           \/ AcceptAsNew(k) \/ Reject(k)
           \/ \E v \in DOMAIN sVoices : AcceptInto(k, v)
    PROVE  StudioInv'
  <1> DEFINE doc == sCandidates[k].doc
             pr == sCandidates[k].provider
  <1>1. Given(doc) /\ pr \in StudioProviders
    BY NumbersGiven DEF StudioInv, CandidatesOK, CandidateOK
  <1>2. CASE AcceptAsNew(k)
    <2>1. AddVoice(doc, pr) /\ Judged(k, "accepted")
      BY <1>2 DEF AcceptAsNew
    <2> HIDE DEF doc, pr
    <2>2. QED BY <1>1, <2>1, AddVoiceOK, JudgedOK DEF StudioInv, Lists
  <1>3. CASE Reject(k)
    <2>1. Judged(k, "rejected") /\ UNCHANGED <<sVoices, sVersions>>
      BY <1>3 DEF Reject
    <2>2. QED BY <2>1, JudgedOK
             DEF StudioInv, Lists, VersionsOK, VersionOK, VoicesOK, VoiceOK, Clear
  <1>4. ASSUME NEW v \in DOMAIN sVoices, AcceptInto(k, v)
        PROVE  StudioInv'
    <2>1. /\ AddVersion(v, doc, pr, sVoices) /\ Judged(k, "accepted")
          /\ sVersions[sVoices[v].current].provider = pr
      BY <1>4 DEF AcceptInto
    <2>2. pr = sVoices[v].provider
      <3>1. VoiceOK(v)
        BY DEF StudioInv, VoicesOK
      <3>2. VersionOK(sVoices[v].current)
        BY <3>1 DEF StudioInv, VersionsOK, VoiceOK
      <3>3. QED BY <2>1, <3>1, <3>2 DEF VoiceOK, VersionOK
    <2> HIDE DEF doc, pr
    <2>3. QED BY <1>1, <2>1, <2>2, SaveOK, JudgedOK DEF StudioInv, Lists
  <1>5. QED BY <1>2, <1>3, <1>4
-----------------------------------------------------------------------------
LEMMA InitStudio == StudioInit => StudioInv
  <1> SUFFICES ASSUME StudioInit PROVE StudioInv
    OBVIOUS
  <1>1. sVoices = <<>> /\ sVersions = <<>> /\ sCandidates = <<>>
    BY DEF StudioInit
  <1>2. <<>> \in Seq(VoiceRow) /\ Listed(<<>>)
    BY DEF Listed
  <1>3. QED BY <1>1, <1>2 DEF StudioInv, Lists, VersionsOK, VoicesOK, CandidatesOK

LEMMA NextStudio ==
    ASSUME StudioInv, [StudioNext]_studioVars
    PROVE  StudioInv'
  <1>1. CASE UNCHANGED studioVars
    BY <1>1 DEF studioVars, StudioInv, Lists, VersionsOK, VersionOK, VoicesOK, VoiceOK,
       CandidatesOK, Clear
  <1>2. ASSUME NEW patch \in Patches, NEW p \in StudioProviders, CreateVoice(patch, p)
        PROVE  StudioInv'
    BY <1>2, CreateStep
  <1>3. ASSUME NEW v \in DOMAIN sVoices,
               \/ \E d \in Saves : SaveVersion(v, d)
               \/ \E n \in DOMAIN sVersions : RollBack(v, n)
               \/ Revoke(v) \/ DeleteVoice(v)
        PROVE  StudioInv'
    BY <1>3, SaveStep, StatusStep, RollBackStep
  <1>4. ASSUME NEW patch \in Patches, NEW jitter \in Patches, NEW ls \in LockSets,
               NEW p \in StudioProviders, Generate(patch, jitter, ls, p)
        PROVE  StudioInv'
    BY <1>4, GenerateStep
  <1>5. ASSUME NEW n \in DOMAIN sVersions, NEW patch \in Patches, NEW ls \in LockSets,
               Mutate(n, patch, ls)
        PROVE  StudioInv'
    BY <1>5, MutateStep
  <1>6. ASSUME NEW a \in DOMAIN sVersions, NEW b \in DOMAIN sVersions, NEW w \in Weights,
               NEW ls \in LockSets, Breed(a, b, w, ls)
        PROVE  StudioInv'
    BY <1>6, BreedStep
  <1>7. ASSUME NEW k \in DOMAIN sCandidates,
               \/ AcceptAsNew(k) \/ Reject(k)
               \/ \E v \in DOMAIN sVoices : AcceptInto(k, v)
        PROVE  StudioInv'
    BY <1>7, JudgeStep
  <1>8. QED BY <1>1, <1>2, <1>3, <1>4, <1>5, <1>6, <1>7 DEF StudioNext

\* The invariant of the studio, whatever is created, saved, varied, bred,
\* accepted, rolled back, revoked and deleted in any order.
THEOREM StudioInvariant == StudioSpec => []StudioInv
  <1>1. StudioInv /\ [StudioNext]_studioVars => StudioInv'
    BY NextStudio
  <1>2. QED BY <1>1, InitStudio, PTL DEF StudioSpec

\* For any requests, protected profiles and locks: a saved version can be
\* spoken (service._create_version), does not press when it breathes
\* (parameter_schema), is its voice's own and of its provider (service.rollback,
\* accept_candidate), and what was locked did not move (generator).
THEOREM StudioIsSound == StudioSpec => []StudioSound
  <1>1. StudioInv => StudioSound
    <2> SUFFICES ASSUME StudioInv PROVE StudioSound
      OBVIOUS
    <2>1. NothingProtectedSaved
      BY DEF StudioInv, VersionsOK, VersionOK, NothingProtectedSaved
    <2>2. NeverAiryAndPressed
      BY DEF StudioInv, VersionsOK, VersionOK, Relaxed, NeverAiryAndPressed
    <2>3. VoicesCoherent
      BY DEF StudioInv, VersionsOK, VersionOK, VoicesOK, VoiceOK, VoicesCoherent, OfVoice
    <2>4. LocksHeld
      BY DEF StudioInv, CandidatesOK, CandidateOK, LocksHeld
    <2>5. QED BY <2>1, <2>2, <2>3, <2>4 DEF StudioSound
  <1>2. QED BY <1>1, StudioInvariant, PTL
-----------------------------------------------------------------------------
\* Previews.  Rows of an open transaction are nobody else's, and all but the one
\* being rendered are ready and stored; each comes before the row of the rest
\* of its batch, or before what its request still has to render.
PvRow == [clip : Clips, batch : Seq(Clips), status : {"rendering", "ready"}]
PvKinds == {"audio", "provenance"}
IsReq(x) == x = [pc |-> x.pc, todo |-> x.todo, own |-> x.own, id |-> x.id]
Kept(kind, id, clip) == <<kind, id>> \in DOMAIN pvObjects /\ pvObjects[<<kind, id>>] = clip
Playable(id, row) == row.status = "ready" /\ \A kind \in PvKinds : Kept(kind, id, row.clip)
Rendering(x) == x.pc \in {"synthesize", "audio", "provenance", "sign"}
Deleting(x) == x.pc \in {"unstore", "unprove", "unrow"}

OwnRow(x, id) == /\ id \in 1..pvNext /\ id \notin DOMAIN pvRows /\ id \notin pvDoomed
                 /\ x.own[id] \in PvRow
                 /\ Playable(id, x.own[id]) \/ (id = x.id /\ Rendering(x))
Followed(x, id) == Len(x.own[id].batch) > 1 =>
                      \/ \E k \in DOMAIN x.own : k > id /\ x.own[k].batch = Tail(x.own[id].batch)
                      \/ id = x.id /\ Rendering(x)
                      \/ id = x.id /\ x.pc = "render" /\ x.todo = Tail(x.own[id].batch)
RenderingOK(x) == Rendering(x) =>
                      /\ x.id \in DOMAIN x.own
                      /\ x.own[x.id].batch = x.todo /\ x.own[x.id].clip = Head(x.todo)
                      /\ x.pc \in {"provenance", "sign"} => Kept("audio", x.id, Head(x.todo))
                      /\ x.pc = "sign" => Kept("provenance", x.id, Head(x.todo))
ReqOK(x) == /\ IsReq(x)
            /\ x.pc \in {"idle", "render", "synthesize", "audio", "provenance", "sign", "commit",
                         "unstore", "unprove", "unrow"}
            /\ \A id \in DOMAIN x.own : OwnRow(x, id) /\ Followed(x, id)
            /\ RenderingOK(x)
            /\ x.pc = "render" \/ Rendering(x) => x.todo \in Seq(Clips) /\ x.todo # <<>>
            /\ Deleting(x) => x.id \in pvDoomed
            /\ x.pc = "idle" \/ Deleting(x) => DOMAIN x.own = {}
Shown(id) == /\ id \in 1..pvNext /\ pvRows[id] \in PvRow /\ pvRows[id].status = "ready"
             /\ id \notin pvDoomed => Playable(id, pvRows[id])
             /\ Len(pvRows[id].batch) > 1 =>
                   \E k \in DOMAIN pvRows \union pvGone :
                      k > id /\ (k \in DOMAIN pvRows => pvRows[k].batch = Tail(pvRows[id].batch))
CountsOK == pvNext \in Nat /\ pvDoomed \subseteq 1..pvNext /\ pvGone \subseteq pvDoomed
ReqsOK == /\ pvReq = [r \in Listeners |-> pvReq[r]]
          /\ \A r \in Listeners : ReqOK(pvReq[r])
OwnApart == \A r, s \in Listeners : r # s =>
               \A id \in DOMAIN pvReq[r].own : id \notin DOMAIN pvReq[s].own
RowsOK == \A id \in DOMAIN pvRows : Shown(id)
PreviewsInv == CountsOK /\ ReqsOK /\ OwnApart /\ RowsOK
-----------------------------------------------------------------------------
\* What was stored for id still is.
ObjectsKept(id) == \A kind \in PvKinds : <<kind, id>> \in DOMAIN pvObjects =>
                      /\ <<kind, id>> \in DOMAIN pvObjects'
                      /\ pvObjects'[<<kind, id>>] = pvObjects[<<kind, id>>]
\* Counts only grow.
Onward == pvNext <= pvNext' /\ pvDoomed \subseteq pvDoomed' /\ CountsOK'

LEMMA PlayableKept ==
    ASSUME NEW id, NEW row, Playable(id, row), ObjectsKept(id)
    PROVE  Playable(id, row)'
  BY DEF Playable, ObjectsKept, Kept

LEMMA ReqKept ==
    ASSUME NEW x, ReqOK(x), CountsOK, Onward,
           \A id \in DOMAIN x.own : id \notin DOMAIN pvRows' /\ id \notin pvDoomed' /\ ObjectsKept(id)
    PROVE  ReqOK(x)'
  <1>1. ASSUME NEW id \in DOMAIN x.own PROVE (OwnRow(x, id) /\ Followed(x, id))'
    <2>1. OwnRow(x, id) /\ Followed(x, id) /\ id \notin DOMAIN pvRows' /\ id \notin pvDoomed' /\ ObjectsKept(id)
      BY DEF ReqOK
    <2>2. id \in 1..pvNext'
      BY <2>1 DEF OwnRow, Onward, CountsOK
    <2>3. Playable(id, x.own[id]) => Playable(id, x.own[id])'
      <3>1. PICK row : row = x.own[id]
        OBVIOUS
      <3>2. Playable(id, row) => Playable(id, row)'
        BY <2>1, PlayableKept
      <3>3. QED BY <3>1, <3>2
    <2>4. QED BY <2>1, <2>2, <2>3 DEF OwnRow, Followed, Rendering
  <1>2. RenderingOK(x)'
    <2>1. ASSUME Rendering(x) PROVE ObjectsKept(x.id)
      BY <2>1 DEF ReqOK, RenderingOK
    <2>2. QED BY <2>1 DEF ReqOK, RenderingOK, Rendering, ObjectsKept, Kept, PvKinds
  <1>3. QED BY <1>1, <1>2 DEF ReqOK, Onward, Rendering, Deleting, IsReq

LEMMA RowsKept ==
    ASSUME RowsOK, CountsOK, Onward, UNCHANGED <<pvRows, pvGone>>,
           \A id \in DOMAIN pvRows : id \notin pvDoomed' => ObjectsKept(id)
    PROVE  RowsOK'
  <1> SUFFICES ASSUME NEW id \in DOMAIN pvRows PROVE Shown(id)'
    BY DEF RowsOK
  <1>1. Shown(id) /\ (id \notin pvDoomed' => id \notin pvDoomed /\ ObjectsKept(id))
    BY DEF RowsOK, Onward
  <1>2. id \in 1..pvNext'
    BY <1>1 DEF Shown, Onward, CountsOK
  <1>3. id \notin pvDoomed' => Playable(id, pvRows[id])'
    <2>1. PICK row : row = pvRows[id] /\ row = pvRows'[id]
      OBVIOUS
    <2>2. id \notin pvDoomed' => Playable(id, row)'
      BY <1>1, <2>1, PlayableKept DEF Shown
    <2>3. QED BY <2>1, <2>2 DEF Playable, Kept
  <1>4. QED BY <1>1, <1>2, <1>3 DEF Shown

\* One request goes on to x; the others keep their rows and objects.
LEMMA OneRequestMoves ==
    ASSUME PreviewsInv, NEW r \in Listeners, NEW x, Asks(r, x), ReqOK(x)', Onward, RowsOK',
           \A s \in Listeners \ {r} : \A id \in DOMAIN pvReq[s].own :
              /\ id \notin DOMAIN pvRows' /\ id \notin pvDoomed'
              /\ id \notin DOMAIN x.own /\ ObjectsKept(id)
    PROVE  PreviewsInv'
  <1>1. /\ pvReq' = [s \in Listeners |-> pvReq'[s]] /\ pvReq'[r] = x
        /\ \A s \in Listeners \ {r} : pvReq'[s] = pvReq[s]
    <2>1. pvReq = [s \in Listeners |-> pvReq[s]] /\ pvReq' = [pvReq EXCEPT ![r] = x]
      BY DEF PreviewsInv, ReqsOK, Asks
    <2>2. QED BY <2>1
  <1>2. ASSUME NEW s \in Listeners PROVE ReqOK(pvReq[s])'
    <2>1. CASE s = r
      <3>1. pvReq'[s] = x
        BY <1>1, <2>1
      <3>2. QED BY <3>1 DEF ReqOK, IsReq, OwnRow, Followed, RenderingOK, Rendering, Deleting, Playable, Kept
    <2>2. CASE s # r
      <3>1. PICK y : y = pvReq[s] /\ y = pvReq'[s]
        BY <1>1, <2>2
      <3>2. ReqOK(y)
        BY <3>1 DEF PreviewsInv, ReqsOK
      <3>3. ReqOK(y)'
        BY <2>2, <3>1, <3>2, ReqKept DEF PreviewsInv
      <3>4. QED BY <3>1, <3>3 DEF ReqOK, IsReq, OwnRow, Followed, RenderingOK, Rendering, Deleting, Playable, Kept
    <2>3. QED BY <2>1, <2>2
  <1>3. OwnApart'
    <2> SUFFICES ASSUME NEW s \in Listeners, NEW t \in Listeners, s # t,
                        NEW id \in DOMAIN pvReq'[s].own
                 PROVE  id \notin DOMAIN pvReq'[t].own
      BY DEF OwnApart
    <2>1. CASE s # r /\ t # r
      BY <1>1, <2>1 DEF PreviewsInv, OwnApart
    <2>2. CASE s = r
      BY <1>1, <2>2
    <2>3. CASE t = r
      BY <1>1, <2>3
    <2>4. QED BY <2>1, <2>2, <2>3
  <1>4. QED BY <1>1, <1>2, <1>3 DEF PreviewsInv, ReqsOK, Onward
\* Only a request changes.
LEMMA OnlyRequestMoves ==
    ASSUME PreviewsInv, NEW r \in Listeners, NEW x, Asks(r, x), ReqOK(x),
           UNCHANGED <<pvRows, pvObjects, pvNext, pvDoomed, pvGone>>,
           \A id \in DOMAIN x.own : id \in DOMAIN pvReq[r].own
    PROVE  PreviewsInv'
  <1>1. Onward /\ \A id : ObjectsKept(id)
    BY DEF PreviewsInv, CountsOK, Onward, ObjectsKept
  <1>2. RowsOK'
    BY <1>1, RowsKept DEF PreviewsInv
  <1>3. ReqOK(x)'
    BY <1>1, ReqKept DEF PreviewsInv, ReqOK, OwnRow
  <1>4. \A s \in Listeners \ {r} : \A id \in DOMAIN pvReq[s].own :
           /\ id \notin DOMAIN pvRows' /\ id \notin pvDoomed' /\ id \notin DOMAIN x.own
    BY DEF PreviewsInv, ReqsOK, ReqOK, OwnRow, OwnApart
  <1>5. QED BY <1>1, <1>2, <1>3, <1>4, OneRequestMoves

LEMMA IdleReq == ReqOK(NoPreviewReq) /\ DOMAIN NoPreviewReq.own = {}
  <1>1. /\ NoPreviewReq.pc = "idle" /\ NoPreviewReq.todo = <<>> /\ NoPreviewReq.own = <<>>
        /\ NoPreviewReq.id = 0 /\ IsReq(NoPreviewReq)
    BY DEF NoPreviewReq, IsReq
  <1>2. DOMAIN <<>> = {}
    OBVIOUS
  <1>3. DOMAIN NoPreviewReq.own = {}
    BY <1>1, <1>2
  <1>4. QED BY <1>1, <1>3 DEF ReqOK, RenderingOK, Rendering, Deleting

LEMMA RequestEnds ==
    ASSUME PreviewsInv, NEW r \in Listeners, Asks(r, NoPreviewReq),
           UNCHANGED <<pvRows, pvObjects, pvNext, pvDoomed, pvGone>>
    PROVE  PreviewsInv'
  <1>1. PICK x : x = NoPreviewReq
    OBVIOUS
  <1>2. ReqOK(x) /\ DOMAIN x.own = {}
    BY <1>1, IdleReq
  <1>3. Asks(r, x)
    BY <1>1
  <1>4. QED BY <1>2, <1>3, OnlyRequestMoves

LEMMA AskPreviewsInv ==
    ASSUME PreviewsInv, NEW r \in Listeners, NEW a \in Auditions, AskPreviews(r, a)
    PROVE  PreviewsInv'
  <1>1. PICK x : x = [NoPreviewReq EXCEPT !.pc = "render", !.todo = a]
    OBVIOUS
  <1>2. x.pc = "render" /\ x.todo = a /\ x.own = <<>> /\ IsReq(x)
    BY <1>1 DEF NoPreviewReq, IsReq
  <1>3. DOMAIN <<>> = {}
    OBVIOUS
  <1>4. DOMAIN x.own = {} /\ a \in Seq(Clips) /\ a # <<>>
    BY <1>2, <1>3, PreviewsAssumption
  <1>5. ReqOK(x)
    BY <1>2, <1>4 DEF ReqOK, RenderingOK, Rendering, Deleting
  <1>6. Asks(r, x) /\ UNCHANGED <<pvRows, pvObjects, pvNext, pvDoomed, pvGone>>
    BY <1>1 DEF AskPreviews
  <1>7. QED BY <1>4, <1>5, <1>6, OnlyRequestMoves

\* A step of a request that keeps its rows.
LEMMA SynthesizeInv ==
    ASSUME PreviewsInv, NEW r \in Listeners, SynthesizeClip(r)
    PROVE  PreviewsInv'
  <1>1. PICK y : y = pvReq[r]
    OBVIOUS
  <1>2. ReqOK(y) /\ y.pc = "synthesize"
    BY <1>1 DEF PreviewsInv, ReqsOK, SynthesizeClip
  <1>3. PICK x : x = [y EXCEPT !.pc = "audio"]
    OBVIOUS
  <1>4. x.pc = "audio" /\ x.todo = y.todo /\ x.own = y.own /\ x.id = y.id /\ IsReq(x)
    BY <1>2, <1>3 DEF ReqOK, IsReq
  <1>5. ReqOK(x)
    BY <1>2, <1>4 DEF ReqOK, RenderingOK, Rendering, Deleting, OwnRow, Followed
  <1>6. Asks(r, x) /\ UNCHANGED <<pvRows, pvObjects, pvNext, pvDoomed, pvGone>>
    BY <1>1, <1>3 DEF SynthesizeClip
  <1>7. QED BY <1>1, <1>4, <1>5, <1>6, OnlyRequestMoves

LEMMA RenderBeginsInv ==
    ASSUME PreviewsInv, NEW r \in Listeners, RenderBegins(r)
    PROVE  PreviewsInv'
  <1>1. PICK y : y = pvReq[r]
    OBVIOUS
  <1>2. PICK id : id = pvNext + 1
    OBVIOUS
  <1>3. PICK row : row = [clip |-> Head(y.todo), batch |-> y.todo, status |-> "rendering"]
    OBVIOUS
  <1>4. PICK x : x = [y EXCEPT !.pc = "synthesize", !.id = id, !.own = SetAt(y.own, id, row)]
    OBVIOUS
  <1>5. /\ Asks(r, x) /\ pvNext' = id /\ UNCHANGED <<pvRows, pvObjects, pvDoomed, pvGone>>
        /\ y.pc = "render"
    BY <1>1, <1>2, <1>3, <1>4 DEF RenderBegins
  <1>6. ReqOK(y) /\ CountsOK
    BY <1>1 DEF PreviewsInv, ReqsOK
  <1>7. x.pc = "synthesize" /\ x.id = id /\ x.own = SetAt(y.own, id, row) /\ x.todo = y.todo /\ IsReq(x)
    BY <1>4, <1>6 DEF ReqOK, IsReq
  <1>8. /\ DOMAIN x.own = DOMAIN y.own \union {id} /\ x.own[id] = row
        /\ \A k \in DOMAIN y.own : k # id => x.own[k] = y.own[k]
    BY <1>7 DEF SetAt
  <1>9. /\ y.todo \in Seq(Clips) /\ y.todo # <<>> /\ Head(y.todo) \in Clips /\ row \in PvRow
        /\ row.batch = y.todo /\ row.clip = Head(y.todo)
    BY <1>3, <1>5, <1>6 DEF ReqOK, PvRow
  <1>10. Onward /\ \A k : ObjectsKept(k)
    BY <1>2, <1>5, <1>6 DEF Onward, CountsOK, ObjectsKept
  <1>11. RowsOK'
    BY <1>5, <1>6, <1>10, RowsKept DEF PreviewsInv
  <1>12. \A k \in DOMAIN pvRows : k \in 1..pvNext
    BY DEF PreviewsInv, RowsOK, Shown
  <1>13. ReqOK(y)'
    BY <1>5, <1>6, <1>10, ReqKept DEF ReqOK, OwnRow
  <1>14. ASSUME NEW k \in DOMAIN y.own PROVE OwnRow(x, k)' /\ Followed(x, k) /\ k # id
    <2>1. OwnRow(y, k) /\ OwnRow(y, k)' /\ Followed(y, k)
      BY <1>6, <1>13, <1>14 DEF ReqOK
    <2>2. k \in 1..pvNext /\ k # id /\ k < id
      BY <1>2, <1>6, <2>1 DEF OwnRow, CountsOK
    <2>3. Playable(k, y.own[k])' /\ x.own[k] = y.own[k]
      BY <1>5, <1>8, <2>1, <2>2 DEF OwnRow, Rendering
    <2>4. OwnRow(x, k)'
      BY <2>1, <2>3 DEF OwnRow
    <2>5. Followed(x, k)
      <3>1. CASE k = y.id /\ y.todo = Tail(y.own[k].batch)
        BY <1>8, <1>9, <2>2, <2>3, <3>1 DEF Followed
      <3>2. CASE \E j \in DOMAIN y.own : j > k /\ y.own[j].batch = Tail(y.own[k].batch)
        <4>1. PICK j \in DOMAIN y.own : j > k /\ y.own[j].batch = Tail(y.own[k].batch)
          BY <3>2
        <4>2. j # id
          BY <1>2, <1>6 DEF ReqOK, OwnRow, CountsOK
        <4>3. QED BY <1>8, <2>3, <4>1, <4>2 DEF Followed
      <3>3. CASE ~(Len(y.own[k].batch) > 1)
        BY <2>3, <3>3 DEF Followed
      <3>4. QED BY <1>5, <2>1, <3>1, <3>2, <3>3 DEF Followed, Rendering
    <2>6. QED BY <2>2, <2>4, <2>5
  <1>15. OwnRow(x, id)' /\ Followed(x, id)
    BY <1>2, <1>5, <1>6, <1>7, <1>8, <1>9, <1>12 DEF OwnRow, Followed, Rendering, CountsOK
  <1>16. ReqOK(x)'
    <2>1. \A k \in DOMAIN x.own : (OwnRow(x, k) /\ Followed(x, k))'
      BY <1>8, <1>14, <1>15 DEF Followed, Rendering
    <2>2. QED BY <1>7, <1>8, <1>9, <2>1 DEF ReqOK, IsReq, RenderingOK, Rendering, Deleting
  <1>17. ASSUME NEW s \in Listeners \ {r}, NEW k \in DOMAIN pvReq[s].own
         PROVE  k \notin DOMAIN pvRows' /\ k \notin pvDoomed' /\ k \notin DOMAIN x.own
    <2>1. k \in 1..pvNext /\ k \notin DOMAIN pvRows /\ k \notin pvDoomed /\ k \notin DOMAIN y.own
      BY <1>1 DEF PreviewsInv, ReqsOK, ReqOK, OwnRow, OwnApart
    <2>2. k # id
      BY <1>2, <1>6, <2>1 DEF CountsOK
    <2>3. QED BY <1>5, <1>8, <2>1, <2>2
  <1>18. QED BY <1>5, <1>10, <1>11, <1>16, <1>17, OneRequestMoves
\* An object is stored for the row being rendered.
LEMMA StoredFacts ==
    ASSUME NEW kind, NEW id, NEW clip, Stored(kind, id, clip)
    PROVE  /\ Kept(kind, id, clip)'
           /\ \A j : j # id => ObjectsKept(j)
           /\ \A other \in PvKinds : other # kind =>
                \A c : Kept(other, id, c) => Kept(other, id, c)'
  <1>1. PICK n : n = <<kind, id>>
    OBVIOUS
  <1>2. pvObjects' = SetAt(pvObjects, n, clip)
    BY <1>1 DEF Stored
  <1>3. /\ DOMAIN pvObjects' = DOMAIN pvObjects \union {n} /\ pvObjects'[n] = clip
        /\ \A j \in DOMAIN pvObjects : j # n => pvObjects'[j] = pvObjects[j]
    BY <1>2 DEF SetAt
  <1>4. QED BY <1>1, <1>3 DEF Kept, ObjectsKept, PvKinds

LEMMA StoreKeeps ==
    ASSUME PreviewsInv, NEW r \in Listeners, NEW x, Asks(r, x), NEW y, y = pvReq[r], Rendering(y),
           NEW kind \in PvKinds, Stored(kind, y.id, Head(y.todo)),
           UNCHANGED <<pvRows, pvNext, pvDoomed, pvGone>>,
           IsReq(x), Rendering(x), x.todo = y.todo, x.own = y.own, x.id = y.id, RenderingOK(x)'
    PROVE  PreviewsInv'
  <1>1. ReqOK(y) /\ CountsOK /\ y.id \in DOMAIN y.own
    BY DEF PreviewsInv, ReqsOK, ReqOK, RenderingOK
  <1>2. \A j : j # y.id => ObjectsKept(j)
    BY StoredFacts
  <1>3. Onward
    BY <1>1 DEF Onward, CountsOK
  <1>4. \A id \in DOMAIN pvRows : ObjectsKept(id)
    BY <1>1, <1>2 DEF ReqOK, OwnRow
  <1>5. RowsOK'
    BY <1>1, <1>3, <1>4, RowsKept DEF PreviewsInv
  <1>6. ASSUME NEW id \in DOMAIN x.own PROVE OwnRow(x, id)' /\ Followed(x, id)
    <2>1. OwnRow(y, id) /\ Followed(y, id)
      BY <1>1, <1>6 DEF ReqOK
    <2>2. id # x.id => Playable(id, x.own[id])'
      <3>1. PICK row : row = x.own[id]
        OBVIOUS
      <3>2. id # x.id => Playable(id, row) /\ ObjectsKept(id)
        BY <1>2, <2>1, <3>1 DEF OwnRow
      <3>3. id # x.id => Playable(id, row)'
        BY <3>2, PlayableKept
      <3>4. QED BY <3>1, <3>3
    <2>3. id \in 1..pvNext' /\ id \notin DOMAIN pvRows' /\ id \notin pvDoomed' /\ x.own[id] \in PvRow
      BY <2>1 DEF OwnRow
    <2>4. OwnRow(x, id)'
      BY <2>2, <2>3 DEF OwnRow, Rendering
    <2>5. Followed(x, id)
      BY <2>1 DEF Followed, Rendering
    <2>6. QED BY <2>4, <2>5
  <1>7. ReqOK(x)'
    BY <1>1, <1>6 DEF ReqOK, IsReq, Rendering, Deleting, Followed
  <1>8. \A s \in Listeners \ {r} : \A id \in DOMAIN pvReq[s].own :
           /\ id \notin DOMAIN pvRows' /\ id \notin pvDoomed' /\ id \notin DOMAIN x.own /\ ObjectsKept(id)
    BY <1>1, <1>2 DEF PreviewsInv, ReqsOK, ReqOK, OwnRow, OwnApart
  <1>9. QED BY <1>3, <1>5, <1>7, <1>8, OneRequestMoves

LEMMA PutAudioInv ==
    ASSUME PreviewsInv, NEW r \in Listeners, PutAudio(r)
    PROVE  PreviewsInv'
  <1>1. PICK y : y = pvReq[r]
    OBVIOUS
  <1>2. PICK x : x = [y EXCEPT !.pc = "provenance"]
    OBVIOUS
  <1>3. /\ y.pc = "audio" /\ Stored("audio", y.id, Head(y.todo)) /\ Asks(r, x)
        /\ UNCHANGED <<pvRows, pvNext, pvDoomed, pvGone>>
    BY <1>1, <1>2 DEF PutAudio
  <1>4. ReqOK(y)
    BY <1>1 DEF PreviewsInv, ReqsOK
  <1>5. x.pc = "provenance" /\ x.todo = y.todo /\ x.own = y.own /\ x.id = y.id /\ IsReq(x)
    BY <1>2, <1>4 DEF ReqOK, IsReq
  <1>6. Kept("audio", x.id, Head(x.todo))'
    <2>1. PICK i : i = y.id
      OBVIOUS
    <2>2. PICK c : c = Head(y.todo)
      OBVIOUS
    <2>3. Kept("audio", i, c)'
      BY <1>3, <2>1, <2>2, StoredFacts
    <2>4. QED BY <1>5, <2>1, <2>2, <2>3
  <1>7. RenderingOK(x)'
    BY <1>3, <1>4, <1>5, <1>6 DEF ReqOK, RenderingOK, Rendering
  <1>8. QED BY <1>1, <1>3, <1>5, <1>7, StoreKeeps DEF Rendering, PvKinds

LEMMA PutProvenanceInv ==
    ASSUME PreviewsInv, NEW r \in Listeners, PutProvenance(r)
    PROVE  PreviewsInv'
  <1>1. PICK y : y = pvReq[r]
    OBVIOUS
  <1>2. PICK x : x = [y EXCEPT !.pc = "sign"]
    OBVIOUS
  <1>3. /\ y.pc = "provenance" /\ Stored("provenance", y.id, Head(y.todo)) /\ Asks(r, x)
        /\ UNCHANGED <<pvRows, pvNext, pvDoomed, pvGone>>
    BY <1>1, <1>2 DEF PutProvenance
  <1>4. ReqOK(y)
    BY <1>1 DEF PreviewsInv, ReqsOK
  <1>5. x.pc = "sign" /\ x.todo = y.todo /\ x.own = y.own /\ x.id = y.id /\ IsReq(x)
    BY <1>2, <1>4 DEF ReqOK, IsReq
  <1>6. (Kept("audio", x.id, Head(x.todo)) /\ Kept("provenance", x.id, Head(x.todo)))'
    <2>1. PICK i : i = y.id
      OBVIOUS
    <2>2. PICK c : c = Head(y.todo)
      OBVIOUS
    <2>3. Kept("audio", i, c)
      BY <1>3, <1>4, <2>1, <2>2 DEF ReqOK, RenderingOK, Rendering
    <2>4. Kept("provenance", i, c)' /\ Kept("audio", i, c)'
      <3>1. Stored("provenance", i, c) /\ "audio" \in PvKinds
        BY <1>3, <2>1, <2>2 DEF PvKinds
      <3>2. QED BY <2>3, <3>1, StoredFacts
    <2>5. QED BY <1>5, <2>1, <2>2, <2>4
  <1>7. RenderingOK(x)'
    BY <1>3, <1>4, <1>5, <1>6 DEF ReqOK, RenderingOK, Rendering
  <1>8. QED BY <1>1, <1>3, <1>5, <1>7, StoreKeeps DEF Rendering, PvKinds

\* The row is ready and stored; what follows it is the rest of the batch.
LEMMA RenderReadyInv ==
    ASSUME PreviewsInv, NEW r \in Listeners, RenderReady(r)
    PROVE  PreviewsInv'
  <1>1. PICK y : y = pvReq[r]
    OBVIOUS
  <1>2. PICK rest : rest = Tail(y.todo)
    OBVIOUS
  <1>3. PICK x : x = [y EXCEPT !.own[y.id].status = "ready", !.todo = rest,
                               !.pc = IF rest = <<>> THEN "commit" ELSE "render"]
    OBVIOUS
  <1>4. y.pc = "sign" /\ Asks(r, x) /\ UNCHANGED <<pvRows, pvObjects, pvNext, pvDoomed, pvGone>>
    BY <1>1, <1>2, <1>3 DEF RenderReady
  <1>5. ReqOK(y) /\ IsReq(y) /\ RenderingOK(y)
    BY <1>1 DEF PreviewsInv, ReqsOK, ReqOK
  <1>6. /\ x.pc = (IF rest = <<>> THEN "commit" ELSE "render")
        /\ x.todo = rest /\ x.id = y.id /\ IsReq(x)
        /\ x.own = [y.own EXCEPT ![y.id].status = "ready"]
    BY <1>3, <1>5 DEF IsReq
  <1>7. /\ y.id \in DOMAIN y.own /\ y.own[y.id] \in PvRow
        /\ y.own[y.id].batch = y.todo /\ y.own[y.id].clip = Head(y.todo)
        /\ Kept("audio", y.id, Head(y.todo)) /\ Kept("provenance", y.id, Head(y.todo))
        /\ y.todo \in Seq(Clips) /\ y.todo # <<>>
    BY <1>4, <1>5 DEF ReqOK, RenderingOK, Rendering, OwnRow
  <1>8. /\ DOMAIN x.own = DOMAIN y.own
        /\ \A k \in DOMAIN y.own : k # y.id => x.own[k] = y.own[k]
        /\ x.own[y.id] = [y.own[y.id] EXCEPT !.status = "ready"]
    BY <1>6, <1>7
  <1>9. /\ x.own[y.id] \in PvRow /\ x.own[y.id].status = "ready"
        /\ x.own[y.id].batch = y.todo /\ x.own[y.id].clip = Head(y.todo)
    BY <1>7, <1>8 DEF PvRow
  <1>10. Playable(y.id, x.own[y.id])
    BY <1>7, <1>9 DEF Playable, PvKinds
  <1>11. rest \in Seq(Clips) /\ (rest = <<>> => ~(Len(y.todo) > 1))
    <2>1. rest \in Seq(Clips) /\ Len(rest) = Len(y.todo) - 1 /\ Len(y.todo) \in Nat
      BY <1>2, <1>7
    <2>2. rest = <<>> => Len(rest) = 0
      OBVIOUS
    <2>3. QED BY <2>1, <2>2
  <1>12. ASSUME NEW k \in DOMAIN x.own PROVE OwnRow(x, k) /\ Followed(x, k)
    <2>1. OwnRow(y, k) /\ Followed(y, k) /\ k \in DOMAIN y.own
      BY <1>5, <1>8, <1>12 DEF ReqOK
    <2>2. OwnRow(x, k)
      BY <1>8, <1>9, <1>10, <2>1 DEF OwnRow
    <2>3. CASE k = y.id
      <3>1. Followed(x, k)
        BY <1>2, <1>6, <1>9, <1>11, <2>3 DEF Followed
      <3>2. QED BY <2>2, <3>1
    <2>4. CASE k # y.id
      <3>1. \A j \in DOMAIN y.own : x.own[j].batch = y.own[j].batch
        BY <1>7, <1>8, <1>9
      <3>2. Followed(x, k)
        BY <1>4, <1>8, <2>1, <2>4, <3>1 DEF Followed
      <3>3. QED BY <2>2, <3>2
    <2>5. QED BY <2>3, <2>4
  <1>13. ReqOK(x)
    BY <1>6, <1>11, <1>12 DEF ReqOK, RenderingOK, Rendering, Deleting
  <1>14. QED BY <1>1, <1>4, <1>8, <1>13, OnlyRequestMoves
\* The transaction's rows become everybody's, the whole batch at once.
LEMMA CommitPreviewsInv ==
    ASSUME PreviewsInv, NEW r \in Listeners, CommitPreviews(r)
    PROVE  PreviewsInv'
  <1>1. PICK y : y = pvReq[r]
    OBVIOUS
  <1>2. PICK x : x = NoPreviewReq
    OBVIOUS
  <1>3. /\ y.pc = "commit" /\ pvRows' = Merged(y.own, pvRows) /\ Asks(r, x)
        /\ UNCHANGED <<pvObjects, pvNext, pvDoomed, pvGone>>
    BY <1>1, <1>2 DEF CommitPreviews
  <1>4. ReqOK(y) /\ CountsOK /\ pvGone \subseteq pvDoomed
    BY <1>1 DEF PreviewsInv, ReqsOK, CountsOK
  <1>5. /\ DOMAIN pvRows' = DOMAIN y.own \union DOMAIN pvRows
        /\ \A j \in DOMAIN y.own : pvRows'[j] = y.own[j]
        /\ \A j \in DOMAIN pvRows : j \notin DOMAIN y.own => pvRows'[j] = pvRows[j]
    BY <1>3 DEF Merged
  <1>6. Onward /\ \A k : ObjectsKept(k)
    BY <1>3, <1>4 DEF Onward, CountsOK, ObjectsKept
  <1>7. \A k \in DOMAIN y.own : OwnRow(y, k) /\ Followed(y, k) /\ k \notin DOMAIN pvRows /\ k \notin pvGone
    BY <1>4 DEF ReqOK, OwnRow
  <1>8. RowsOK'
    <2> SUFFICES ASSUME NEW k \in DOMAIN pvRows' PROVE Shown(k)'
      BY DEF RowsOK
    <2>1. CASE k \in DOMAIN y.own
      <3>1. /\ OwnRow(y, k) /\ Followed(y, k) /\ Playable(k, y.own[k]) /\ pvRows'[k] = y.own[k]
        BY <1>3, <1>5, <1>7, <2>1 DEF OwnRow, Rendering
      <3>2. PICK row : row = y.own[k]
        OBVIOUS
      <3>3. Playable(k, row)'
        BY <1>6, <3>1, <3>2, PlayableKept
      <3>4. Len(row.batch) > 1 => \E j \in DOMAIN y.own : j > k /\ y.own[j].batch = Tail(row.batch)
        BY <1>3, <3>1, <3>2 DEF Followed, Rendering
      <3>5. Len(row.batch) > 1 => \E j \in DOMAIN pvRows' : j > k /\ pvRows'[j].batch = Tail(row.batch)
        BY <1>5, <3>4
      <3>6. k \in 1..pvNext' /\ row \in PvRow /\ row.status = "ready" /\ row = pvRows'[k]
        BY <1>3, <3>1, <3>2 DEF OwnRow, Playable
      <3>7. Playable(k, pvRows[k])'
        BY <3>3, <3>6 DEF Playable, Kept
      <3>8. QED BY <3>5, <3>6, <3>7 DEF Shown
    <2>2. CASE k \notin DOMAIN y.own
      <3>1. k \in DOMAIN pvRows /\ Shown(k) /\ pvRows'[k] = pvRows[k]
        BY <1>5, <2>2 DEF PreviewsInv, RowsOK
      <3>2. PICK row : row = pvRows[k] /\ row = pvRows'[k]
        BY <3>1
      <3>3. k \notin pvDoomed' => Playable(k, row)'
        BY <1>3, <1>6, <3>1, <3>2, PlayableKept DEF Shown
      <3>4. k \notin pvDoomed' => Playable(k, pvRows[k])'
        BY <3>2, <3>3 DEF Playable, Kept
      <3>5. Len(row.batch) > 1 =>
               \E j \in DOMAIN pvRows' \union pvGone :
                  j > k /\ (j \in DOMAIN pvRows' => pvRows'[j].batch = Tail(row.batch))
        <4> SUFFICES ASSUME Len(row.batch) > 1
                     PROVE  \E j \in DOMAIN pvRows' \union pvGone :
                               j > k /\ (j \in DOMAIN pvRows' => pvRows'[j].batch = Tail(row.batch))
          OBVIOUS
        <4>1. PICK j \in DOMAIN pvRows \union pvGone :
                 j > k /\ (j \in DOMAIN pvRows => pvRows[j].batch = Tail(row.batch))
          BY <3>1, <3>2 DEF Shown
        <4>2. j \notin DOMAIN y.own
          BY <1>7
        <4>3. QED BY <1>5, <4>1, <4>2
      <3>6. k \in 1..pvNext' /\ row \in PvRow /\ row.status = "ready"
        BY <1>3, <3>1, <3>2 DEF Shown
      <3>7. QED BY <1>3, <3>2, <3>4, <3>5, <3>6 DEF Shown
    <2>3. QED BY <2>1, <2>2
  <1>9. ReqOK(x)'
    <2>1. ReqOK(x) /\ DOMAIN x.own = {}
      BY <1>2, IdleReq
    <2>2. QED BY <1>4, <1>6, <2>1, ReqKept
  <1>10. ASSUME NEW s \in Listeners \ {r}, NEW k \in DOMAIN pvReq[s].own
         PROVE  k \notin DOMAIN pvRows' /\ k \notin pvDoomed' /\ k \notin DOMAIN x.own
    <2>1. k \notin DOMAIN pvRows /\ k \notin pvDoomed /\ k \notin DOMAIN y.own
      BY <1>1 DEF PreviewsInv, ReqsOK, ReqOK, OwnRow, OwnApart
    <2>2. DOMAIN x.own = {}
      BY <1>2, IdleReq
    <2>3. QED BY <1>3, <1>5, <2>1, <2>2
  <1>11. QED BY <1>3, <1>6, <1>8, <1>9, <1>10, OneRequestMoves

\* A deletion holds no rows of its own.
LEMMA DeletingReq ==
    ASSUME NEW x, IsReq(x), Deleting(x), x.id \in pvDoomed, DOMAIN x.own = {}
    PROVE  ReqOK(x)
  BY DEF ReqOK, RenderingOK, Rendering, Deleting

LEMMA DeleteAskedInv ==
    ASSUME PreviewsInv, NEW r \in Listeners, NEW id \in DOMAIN pvRows, DeleteAsked(r, id)
    PROVE  PreviewsInv'
  <1>1. PICK x : x = [NoPreviewReq EXCEPT !.pc = "unstore", !.id = id]
    OBVIOUS
  <1>2. /\ Asks(r, x) /\ pvDoomed' = pvDoomed \union {id}
        /\ UNCHANGED <<pvRows, pvObjects, pvNext, pvGone>>
    BY <1>1 DEF DeleteAsked
  <1>3. x.pc = "unstore" /\ x.id = id /\ x.own = NoPreviewReq.own /\ IsReq(x)
    BY <1>1 DEF NoPreviewReq, IsReq
  <1>4. DOMAIN x.own = {}
    BY <1>3, IdleReq
  <1>5. id \in 1..pvNext /\ CountsOK
    BY DEF PreviewsInv, RowsOK, Shown
  <1>6. Onward /\ \A k : ObjectsKept(k)
    <2>1. pvDoomed' \subseteq 1..pvNext /\ pvGone' \subseteq pvDoomed' /\ pvDoomed \subseteq pvDoomed'
      BY <1>2, <1>5 DEF CountsOK
    <2>2. Onward
      BY <1>2, <1>5, <2>1 DEF Onward, CountsOK
    <2>3. QED BY <1>2, <2>2 DEF ObjectsKept
  <1>7. RowsOK'
    BY <1>2, <1>5, <1>6, RowsKept DEF PreviewsInv
  <1>8. ReqOK(x)'
    BY <1>2, <1>3, <1>4 DEF ReqOK, RenderingOK, Rendering, Deleting, IsReq
  <1>9. \A s \in Listeners \ {r} : \A k \in DOMAIN pvReq[s].own :
           k \notin DOMAIN pvRows' /\ k \notin pvDoomed' /\ k \notin DOMAIN x.own
    BY <1>2, <1>4 DEF PreviewsInv, ReqsOK, ReqOK, OwnRow
  <1>10. QED BY <1>2, <1>6, <1>7, <1>8, <1>9, OneRequestMoves

LEMMA RemovedFacts ==
    ASSUME NEW kind, NEW id, Removed(kind, id)
    PROVE  \A j : j # id => ObjectsKept(j)
  <1>1. PICK n : n = <<kind, id>>
    OBVIOUS
  <1>2. pvObjects' = Restrict(pvObjects, DOMAIN pvObjects \ {n})
    BY <1>1 DEF Removed
  <1>3. /\ DOMAIN pvObjects' = DOMAIN pvObjects \ {n}
        /\ \A j \in DOMAIN pvObjects : j # n => pvObjects'[j] = pvObjects[j]
    BY <1>2 DEF Restrict
  <1>4. QED BY <1>1, <1>3 DEF ObjectsKept

LEMMA DeleteObjectInv ==
    ASSUME PreviewsInv, NEW r \in Listeners, DeleteAudio(r) \/ DeleteProvenance(r)
    PROVE  PreviewsInv'
  <1>1. PICK y : y = pvReq[r]
    OBVIOUS
  <1>2. PICK x : x = [y EXCEPT !.pc = IF y.pc = "unstore" THEN "unprove" ELSE "unrow"]
    OBVIOUS
  <1>3. /\ y.pc \in {"unstore", "unprove"} /\ Asks(r, x)
        /\ Removed("audio", y.id) \/ Removed("provenance", y.id)
        /\ UNCHANGED <<pvRows, pvNext, pvDoomed, pvGone>>
    BY <1>1, <1>2 DEF DeleteAudio, DeleteProvenance
  <1>4. ReqOK(y) /\ CountsOK
    BY <1>1 DEF PreviewsInv, ReqsOK
  <1>5. y.id \in pvDoomed /\ DOMAIN y.own = {} /\ IsReq(y)
    BY <1>3, <1>4 DEF ReqOK, Deleting
  <1>6. x.id = y.id /\ x.own = y.own /\ IsReq(x) /\ Deleting(x)
    BY <1>2, <1>5 DEF IsReq, Deleting
  <1>7. Onward /\ \A k : k # y.id => ObjectsKept(k)
    <2>1. \A k : k # y.id => ObjectsKept(k)
      BY <1>3, RemovedFacts
    <2>2. Onward
      BY <1>3, <1>4 DEF Onward, CountsOK
    <2>3. QED BY <2>1, <2>2
  <1>8. RowsOK'
    BY <1>3, <1>4, <1>5, <1>7, RowsKept DEF PreviewsInv
  <1>9. ReqOK(x)'
    <2>1. ReqOK(x)
      BY <1>5, <1>6, DeletingReq
    <2>2. QED BY <1>4, <1>5, <1>6, <1>7, <2>1, ReqKept
  <1>10. \A s \in Listeners \ {r} : \A k \in DOMAIN pvReq[s].own :
           k \notin DOMAIN pvRows' /\ k \notin pvDoomed' /\ k \notin DOMAIN x.own /\ k # y.id
    BY <1>3, <1>5, <1>6 DEF PreviewsInv, ReqsOK, ReqOK, OwnRow
  <1>11. QED BY <1>3, <1>7, <1>8, <1>9, <1>10, OneRequestMoves

LEMMA DeleteRowInv ==
    ASSUME PreviewsInv, NEW r \in Listeners, DeleteRowCommit(r)
    PROVE  PreviewsInv'
  <1>1. PICK d : d = pvReq[r].id
    OBVIOUS
  <1>2. PICK x : x = NoPreviewReq
    OBVIOUS
  <1>3. /\ pvRows' = Restrict(pvRows, DOMAIN pvRows \ {d}) /\ pvGone' = pvGone \union {d} /\ Asks(r, x)
        /\ UNCHANGED <<pvObjects, pvNext, pvDoomed>>
    BY <1>1, <1>2 DEF DeleteRowCommit
  <1>4. d \in pvDoomed /\ CountsOK
    BY <1>1 DEF PreviewsInv, ReqsOK, ReqOK, Deleting, DeleteRowCommit
  <1>5. DOMAIN pvRows' = DOMAIN pvRows \ {d} /\ \A k \in DOMAIN pvRows' : pvRows'[k] = pvRows[k]
    BY <1>3 DEF Restrict
  <1>6. Onward /\ \A k : ObjectsKept(k)
    <2>1. pvGone' \subseteq pvDoomed'
      BY <1>3, <1>4 DEF CountsOK
    <2>2. Onward
      BY <1>3, <1>4, <2>1 DEF Onward, CountsOK
    <2>3. QED BY <1>3, <2>2 DEF ObjectsKept
  <1>7. RowsOK'
    <2> SUFFICES ASSUME NEW k \in DOMAIN pvRows' PROVE Shown(k)'
      BY DEF RowsOK
    <2>1. k \in DOMAIN pvRows /\ Shown(k)
      BY <1>5 DEF PreviewsInv, RowsOK
    <2>2. PICK row : row = pvRows[k] /\ row = pvRows'[k]
      BY <1>5, <2>1
    <2>3. k \notin pvDoomed' => Playable(k, row)'
      BY <1>3, <1>6, <2>1, <2>2, PlayableKept DEF Shown
    <2>4. k \notin pvDoomed' => Playable(k, pvRows[k])'
      BY <2>2, <2>3 DEF Playable, Kept
    <2>5. Len(row.batch) > 1 =>
             \E j \in DOMAIN pvRows' \union pvGone' :
                j > k /\ (j \in DOMAIN pvRows' => pvRows'[j].batch = Tail(row.batch))
      <3> SUFFICES ASSUME Len(row.batch) > 1
                   PROVE  \E j \in DOMAIN pvRows' \union pvGone' :
                             j > k /\ (j \in DOMAIN pvRows' => pvRows'[j].batch = Tail(row.batch))
        OBVIOUS
      <3>1. PICK j \in DOMAIN pvRows \union pvGone :
               j > k /\ (j \in DOMAIN pvRows => pvRows[j].batch = Tail(row.batch))
        BY <2>1, <2>2 DEF Shown
      <3>2. QED BY <1>3, <1>5, <3>1
    <2>6. k \in 1..pvNext' /\ row \in PvRow /\ row.status = "ready"
      BY <1>3, <2>1, <2>2 DEF Shown
    <2>7. QED BY <2>2, <2>4, <2>5, <2>6 DEF Shown
  <1>8. ReqOK(x)' /\ DOMAIN x.own = {}
    <2>1. ReqOK(x) /\ DOMAIN x.own = {}
      BY <1>2, IdleReq
    <2>2. QED BY <1>4, <1>6, <2>1, ReqKept
  <1>9. \A s \in Listeners \ {r} : \A k \in DOMAIN pvReq[s].own :
           k \notin DOMAIN pvRows' /\ k \notin pvDoomed' /\ k \notin DOMAIN x.own
    BY <1>3, <1>5, <1>8 DEF PreviewsInv, ReqsOK, ReqOK, OwnRow
  <1>10. QED BY <1>3, <1>6, <1>7, <1>8, <1>9, OneRequestMoves

LEMMA PreviewsInitInv ==
    ASSUME PreviewsInit
    PROVE  PreviewsInv
  <1>1. /\ pvRows = <<>> /\ pvNext = 0 /\ pvDoomed = {} /\ pvGone = {}
        /\ pvReq = [r \in Listeners |-> NoPreviewReq]
    BY DEF PreviewsInit
  <1>2. DOMAIN <<>> = {}
    OBVIOUS
  <1>3. CountsOK /\ RowsOK
    BY <1>1, <1>2 DEF CountsOK, RowsOK
  <1>4. \A s \in Listeners : pvReq[s] = NoPreviewReq
    BY <1>1
  <1>5. ReqsOK /\ OwnApart
    BY <1>1, <1>4, IdleReq DEF ReqsOK, OwnApart
  <1>6. QED BY <1>3, <1>5 DEF PreviewsInv

LEMMA PreviewsQuiet ==
    ASSUME PreviewsInv, UNCHANGED previewVars
    PROVE  PreviewsInv'
  <1>1. CountsOK' /\ OwnApart'
    BY DEF PreviewsInv, CountsOK, OwnApart, previewVars
  <1>2. ReqsOK'
    BY DEF PreviewsInv, ReqsOK, ReqOK, IsReq, OwnRow, Followed, RenderingOK, Rendering, Deleting,
           Playable, Kept, previewVars
  <1>3. RowsOK'
    BY DEF PreviewsInv, RowsOK, Shown, Playable, Kept, previewVars
  <1>4. QED BY <1>1, <1>2, <1>3 DEF PreviewsInv

LEMMA PreviewsStep ==
    ASSUME PreviewsInv, [PreviewsNext]_previewVars
    PROVE  PreviewsInv'
  <1>1. CASE PreviewsNext
    <2>1. PICK r \in Listeners :
            \/ \E a \in Auditions : AskPreviews(r, a)
            \/ RenderRefused(r) \/ RenderBegins(r) \/ SynthesizeClip(r)
            \/ PutAudio(r) \/ PutProvenance(r) \/ RenderReady(r) \/ RenderFails(r)
            \/ CommitPreviews(r)
            \/ \E id \in DOMAIN pvRows : DeleteAsked(r, id)
            \/ DeleteAudio(r) \/ DeleteProvenance(r) \/ DeleteRowCommit(r)
            \/ RequestDies(r)
      BY <1>1 DEF PreviewsNext
    <2>2. CASE \E a \in Auditions : AskPreviews(r, a)
      BY <2>2, AskPreviewsInv
    <2>3. CASE RenderRefused(r) \/ RenderFails(r) \/ RequestDies(r)
      <3>1. Asks(r, NoPreviewReq) /\ UNCHANGED <<pvRows, pvObjects, pvNext, pvDoomed, pvGone>>
        BY <2>3 DEF RenderRefused, RenderFails, RequestDies, RollBackPreviews
      <3>2. QED BY <3>1, RequestEnds
    <2>4. CASE RenderBegins(r) \/ SynthesizeClip(r) \/ RenderReady(r)
      BY <2>4, RenderBeginsInv, SynthesizeInv, RenderReadyInv
    <2>5. CASE PutAudio(r) \/ PutProvenance(r) \/ CommitPreviews(r)
      BY <2>5, PutAudioInv, PutProvenanceInv, CommitPreviewsInv
    <2>6. CASE \E id \in DOMAIN pvRows : DeleteAsked(r, id)
      BY <2>6, DeleteAskedInv
    <2>7. CASE DeleteAudio(r) \/ DeleteProvenance(r) \/ DeleteRowCommit(r)
      BY <2>7, DeleteObjectInv, DeleteRowInv
    <2>8. QED BY <2>1, <2>2, <2>3, <2>4, <2>5, <2>6, <2>7
  <1>2. CASE UNCHANGED previewVars
    BY <1>2, PreviewsQuiet
  <1>3. QED BY <1>1, <1>2

\* However requests interleave, fail and die, each has rows and objects of its
\* own until it commits, and deletion only ever takes away what is doomed.
THEOREM PreviewsInvariant == PreviewsSpec => []PreviewsInv
  <1>1. PreviewsInit => PreviewsInv
    BY PreviewsInitInv
  <1>2. PreviewsInv /\ [PreviewsNext]_previewVars => PreviewsInv'
    BY PreviewsStep
  <1>3. QED BY <1>1, <1>2, PTL DEF PreviewsSpec

\* A listed preview is ready, has both its objects until its own deletion is
\* begun, and came with the rest of its comparison (create_preview,
\* compare_auditions, delete_preview).
THEOREM PreviewsArePlayable == PreviewsSpec => []PreviewsPlayable
  <1>1. PreviewsInv => PreviewsPlayable
    <2> SUFFICES ASSUME PreviewsInv, NEW id \in DOMAIN pvRows
                 PROVE  /\ pvRows[id].status = "ready"
                        /\ id \notin pvDoomed =>
                             \A kind \in {"audio", "provenance"} :
                               <<kind, id>> \in DOMAIN pvObjects /\ pvObjects[<<kind, id>>] = pvRows[id].clip
                        /\ Len(pvRows[id].batch) > 1 =>
                             \E k \in DOMAIN pvRows \union pvGone :
                               k > id /\ (k \in DOMAIN pvRows => pvRows[k].batch = Tail(pvRows[id].batch))
      BY DEF PreviewsPlayable
    <2>1. Shown(id)
      BY DEF PreviewsInv, RowsOK
    <2>2. QED BY <2>1 DEF Shown, Playable, Kept, PvKinds
  <1>2. QED BY <1>1, PreviewsInvariant, PTL

==============================================================================
