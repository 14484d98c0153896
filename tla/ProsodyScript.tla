--------------------------- MODULE ProsodyScript ---------------------------
(* Tagged text on its way to a voice: the parser of Agent 4's tags             *)
(* (pipeline/prosody_parser.py) and the GPU router that parses, speaks and     *)
(* splices a chapter (services/gpu_synthesis.py).  A script is a sequence of   *)
(* tokens; the loops advance one token at a time.                              *)
EXTENDS Naturals, Sequences, FiniteSets, SequencesExt

CONSTANTS Scripts,     \* tagged texts: sequences of tokens
          ScriptCast   \* characters with an entry in the voice map

Emotions == {"sad", "whisper"}
Rates == {"slow", "fast"}
SpeakerTags == {"SPEAKER:narrator", "SPEAKER:Ann", "SPEAKER:Bob"}
\* "pause?" is a pause whose value is no number; "other" a tag of no vocabulary.
Tokens == {"word", "other", "pause", "pause?", "break", "emphasis"} \cup Emotions \cup Rates
          \cup SpeakerTags
NameIn(token) == CASE token = "SPEAKER:Ann" -> "Ann" [] token = "SPEAKER:Bob" -> "Bob"
                   [] OTHER -> "narrator"
ASSUME ScriptAssumption == Scripts \subseteq Seq(Tokens)

VARIABLES reader,   \* "tagged": parse_tagged_text; "gpu": synthesize_chapter
          script,   \* the tokens
          at,       \* the next token; Len + 1 before the last flush, Len + 2 at the end
          open,     \* indices of the words not yet flushed
          mood,     \* [speaker, emotion, rate, emphasis]: the tags in force
          segs,     \* segments so far
          outcome   \* "none", "ok", "unknown_character" or "synthesis_error"

scriptVars == <<reader, script, at, open, mood, segs, outcome>>

Calm(speaker) == [speaker |-> speaker, emotion |-> "none", rate |-> "normal", emphasis |-> FALSE]
ScriptInit == /\ reader \in {"tagged", "gpu"} /\ script \in Scripts
              /\ at = 1 /\ open = <<>> /\ mood = Calm("narrator") /\ segs = <<>> /\ outcome = "none"

Seg(type, words) == [type |-> type, words |-> words, mood |-> mood]
Token == script[at]
Reading(r) == reader = r /\ at <= Len(script) /\ outcome = "none"
FlushText == IF open = <<>> THEN segs ELSE Append(segs, Seg("text", open))
SetMood(m) == mood' = m /\ UNCHANGED <<reader, script, outcome>>
----------------------------------------------------------------------------
\* parse_tagged_text, one token.  A tag outside the vocabulary is spoken.
ReadWord == /\ Reading("tagged") /\ Token \in {"word", "other"}
            /\ open' = Append(open, at) /\ at' = at + 1 /\ UNCHANGED segs /\ SetMood(mood)
ReadSpeaker == /\ Reading("tagged") /\ Token \in SpeakerTags
               /\ LET name == NameIn(Token) IN
                  /\ segs' = Append(FlushText, [type |-> "speaker_change", words |-> <<>>, mood |-> Calm(name)])
                  /\ SetMood([Calm(name) EXCEPT !.emphasis = mood.emphasis])
               /\ open' = <<>> /\ at' = at + 1
\* A pause without a number flushes and leaves no segment.
ReadPause == /\ Reading("tagged") /\ Token \in {"pause", "pause?", "break"}
             /\ segs' = IF Token = "pause?" THEN FlushText ELSE Append(FlushText, Seg(Token, <<>>))
             /\ open' = <<>> /\ at' = at + 1 /\ SetMood(mood)
\* Slip: the words before the tag take its mood.
Colour(m) == UNCHANGED <<segs, open>> /\ SetMood(m)
FlushThen(m) == segs' = FlushText /\ open' = <<>> /\ SetMood(m)
ReadMood == /\ Reading("tagged") /\ Token \in Emotions \cup Rates /\ at' = at + 1
            /\ FlushThen(IF Token \in Emotions THEN [mood EXCEPT !.emotion = Token]
                         ELSE [mood EXCEPT !.rate = Token])
\* Neither flushed before nor reset after.
ReadEmphasis == /\ Reading("tagged") /\ Token = "emphasis" /\ at' = at + 1
                /\ SetMood([mood EXCEPT !.emphasis = TRUE]) /\ UNCHANGED <<open, segs>>

\* The last flush, then consecutive texts in one mood are joined.
\* Slip: the rate is not compared.
AlikeButRate(a, b) == /\ a.type = "text" /\ b.type = "text" /\ a.mood.speaker = b.mood.speaker
                      /\ a.mood.emotion = b.mood.emotion /\ ~a.mood.emphasis /\ ~b.mood.emphasis
Alike(a, b) == /\ a.type = "text" /\ b.type = "text" /\ a.mood = b.mood
               /\ ~a.mood.emphasis
MergeSeg(ss, s) == IF ss # <<>> /\ Alike(Last(ss), s)
                   THEN [ss EXCEPT ![Len(ss)].words = @ \o s.words] ELSE Append(ss, s)
MergedSegs(ss) == LET after[n \in 0..Len(ss)] ==
                    IF n = 0 THEN <<>> ELSE MergeSeg(after[n - 1], ss[n])
              IN  after[Len(ss)]
EndRead == /\ reader = "tagged" /\ at = Len(script) + 1 /\ outcome = "none"
           /\ segs' = MergedSegs(FlushText)
           /\ open' = <<>> /\ at' = at + 1 /\ outcome' = "ok" /\ UNCHANGED <<reader, script, mood>>
----------------------------------------------------------------------------
\* The router: a chapter is cut into segments by its speakers; a silence goes
\* between two of them, twice as long when the speaker changes.  Kokoro parses
\* the tags of a segment: text is posted, pauses become silence, and the
\* markers of rate and emphasis are segments without text, which it skips.
Speaks == "gpu"
Gap(name) == IF segs = <<>> THEN <<>>
             ELSE <<[type |-> IF name = mood.speaker THEN "gap" ELSE "double_gap",
                     words |-> <<>>, mood |-> mood]>>
TurnTo == /\ Reading(Speaks) /\ Token \in SpeakerTags
          /\ LET name == NameIn(Token) IN
             IF name \notin ScriptCast
             THEN outcome' = "unknown_character" /\ UNCHANGED <<at, open, mood, segs>>
             ELSE /\ segs' = segs \o Gap(name) /\ mood' = Calm(name) /\ at' = at + 1
                  /\ UNCHANGED <<open, outcome>>
          /\ UNCHANGED <<reader, script>>
\* _post answers, or a refused connection, a timeout or an HTTP error ends the
\* whole chapter.
PostText == /\ Reading(Speaks) /\ Token \in {"word", "other"}
            /\ segs' = Append(segs, Seg("text", <<at>>))
            /\ at' = at + 1 /\ UNCHANGED open /\ SetMood(mood)
PostFails == /\ Reading(Speaks) /\ Token \in {"word", "other"}
             /\ outcome' = "synthesis_error" /\ UNCHANGED <<reader, script, at, open, mood, segs>>
Silence == /\ Reading(Speaks) /\ Token = "pause" /\ segs' = Append(segs, Seg("pause", <<>>))
           /\ at' = at + 1 /\ UNCHANGED open /\ SetMood(mood)
SkipMarker == /\ Reading(Speaks) /\ Token \in Rates \cup {"emphasis"}
              /\ at' = at + 1 /\ UNCHANGED <<open, segs>> /\ SetMood(mood)
\* Only [pause:N], [rate:..] and [emphasis] are tags here: the others are text.
PostForeignTag == /\ Reading(Speaks) /\ Token \in Emotions \cup {"pause?", "break"}
                  /\ segs' = Append(segs, Seg("text", <<at>>))
                  /\ at' = at + 1 /\ UNCHANGED open /\ SetMood(mood)
EndChapter == /\ reader = Speaks /\ at = Len(script) + 1 /\ outcome = "none"
              /\ outcome' = "ok" /\ at' = at + 1 /\ UNCHANGED <<reader, script, open, mood, segs>>

ScriptNext == \/ ReadWord \/ ReadSpeaker \/ ReadPause \/ ReadMood \/ ReadEmphasis \/ EndRead
              \/ TurnTo \/ PostText \/ PostFails \/ Silence \/ SkipMarker \/ PostForeignTag \/ EndChapter
----------------------------------------------------------------------------
ScriptTypeOK == /\ at \in 1..(Len(script) + 2)
                /\ \A s \in Range(segs) : s.words \in Seq(1..Len(script))
                /\ outcome \in {"none", "ok", "unknown_character", "synthesis_error"}

\* What the tags before a word ask for, read off the script itself.
LastBefore(k, T) == LET found == {i \in 1..(k - 1) : script[i] \in T}
                    IN IF found = {} THEN 0 ELSE CHOOSE i \in found : \A j \in found : j <= i
SpeakerAt(k) == LET i == LastBefore(k, SpeakerTags)
                IN IF i = 0 THEN "narrator" ELSE NameIn(script[i])
MoodAt(k, T, default) == LET i == LastBefore(k, T)
                         IN IF i = 0 \/ i < LastBefore(k, SpeakerTags) THEN default ELSE script[i]
SpokenTokens == IF reader = "tagged" THEN {"word", "other"}
          ELSE {"word", "other", "pause?", "break"} \cup Emotions
Silent == IF reader = "tagged" THEN {"pause", "break"} ELSE {"pause"}
\* The silences up to a token of the script, and up to a segment.
PausesBefore(k) == Cardinality({j \in 1..k : script[j] \in Silent})
PausesIn(i) == Cardinality({j \in 1..i : segs[j].type \in {"pause", "break"}})
WordsSaid == FlattenSeq([i \in DOMAIN segs |-> segs[i].words])

\* "Ordered list of Segment objects for the synthesis engine": once a script is
\* read, every word is in one segment, in the order of the script and on the
\* right side of every pause; its segment has the speaker, and for the tagged
\* reader the emotion and rate, of the last such tag before it; joining
\* segments never crosses a change of mood.
SpokenAsWritten ==
    outcome = "ok" =>
        /\ Range(WordsSaid) = {k \in DOMAIN script : script[k] \in SpokenTokens}
        /\ \A a, b \in DOMAIN WordsSaid : a < b => WordsSaid[a] < WordsSaid[b]
        /\ \A i \in DOMAIN segs : \A k \in Range(segs[i].words) :
              /\ segs[i].mood.speaker = SpeakerAt(k)
              /\ reader = "tagged" => /\ segs[i].mood.emotion = MoodAt(k, Emotions, "none")
                                      /\ segs[i].mood.rate = MoodAt(k, Rates, "normal")
              /\ PausesIn(i) = PausesBefore(k)

\* "word stress applied to next word" (prosody_planner.py, prosody_parser.py):
\* a segment is stressed only when an emphasis tag stands right before it.
StressOnNextWord ==
    reader = "tagged" /\ outcome = "ok" =>
        \A s \in Range(segs) : s.type = "text" /\ s.mood.emphasis =>
            \E k \in Range(s.words) : k > 1 /\ script[k - 1] = "emphasis"

\* "Rate applies to the next word(s)" (gpu_synthesis.py).
RateApplied ==
    reader = "gpu" /\ outcome = "ok" =>
        \A s \in Range(segs) : \A k \in Range(s.words) :
            k > 1 /\ script[k - 1] \in Rates => s.mood.rate = script[k - 1]

ScriptSpec == ScriptInit /\ [][ScriptNext]_scriptVars
=============================================================================
