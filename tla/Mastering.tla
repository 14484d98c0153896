----------------------------- MODULE Mastering ------------------------------
(***************************************************************************)
(* A narrated book is padded with room tone (gpu_synthesis.py), checked    *)
(* against the ACX limits (acx_compliance.py) and assembled into one M4B   *)
(* file (m4b_assembly.py), whose every step runs ffmpeg and may fail.      *)
(*                                                                         *)
(* Time is in tenths of a second and levels in tenths of a decibel.  The   *)
(* sound of a chapter is a sequence of lengths, quiet and loud in turn,    *)
(* quiet first and last, so of odd length; silence alone is of length one. *)
(***************************************************************************)
EXTENDS Integers, Sequences, FiniteSets, SequencesExt, Totals

CONSTANTS Narrations \* books: sequences of [sound, lufs, peak, noise, readable]
Levels == [sound : Seq(Nat), lufs : Int, peak : Int, noise : Int, readable : BOOLEAN]
ASSUME MasteringAssumption ==
    /\ Narrations \subseteq Seq(Levels)
    /\ \A book \in Narrations : \A i \in DOMAIN book : Len(book[i].sound) % 2 = 1

VARIABLES maBook,    \* the chapters
          maPc,      \* what the assembly does next
          maTemp,    \* temporary files there are
          maAtoms,   \* chapter markers: [index, start, end]
          maReport   \* the compliance report
masteringVars == <<maBook, maPc, maTemp, maAtoms, maReport>>

NoReport == [passed |-> FALSE, chapters |-> <<>>]
MasteringInit == /\ maBook = <<>> /\ maPc = "idle" /\ maTemp = {}
                 /\ maAtoms = <<>> /\ maReport = NoReport

Duration(ch) == Sum(ch.sound)

RoomToneMin == 5
RoomToneMax == 10
\* Silence on either side, at -60 dB: below what the check calls silence.
AddRoomTone(sound) ==
    LET opened == [sound EXCEPT ![1] = @ + RoomToneMin]
    IN  [opened EXCEPT ![Len(sound)] = @ + RoomToneMin]

-----------------------------------------------------------------------------
(* Compliance.  A warning does not fail a check.                           *)

Check(name, passed, severity) == [name |-> name, passed |-> passed, severity |-> severity]
Blocked(name) == Check(name, FALSE, "block")
Graded(name, value, limit, block) ==
    IF value <= limit THEN Check(name, TRUE, "none")
    ELSE IF value <= block THEN Check(name, TRUE, "warning")
    ELSE Blocked(name)

CheckLoudness(ch) ==
    LET deviation == IF ch.lufs < -230 THEN -230 - ch.lufs ELSE ch.lufs + 230
    IN  IF Len(ch.sound) = 1 THEN Blocked("loudness") ELSE Graded("loudness", deviation, 10, 30)
CheckPeak(ch) == Graded("peak", ch.peak, -30, -10)
CheckNoiseFloor(ch) == Graded("noise_floor", ch.noise, -600, -550)

\* What ffmpeg's silencedetect reports: the quiet stretches, by their place.
SilencePeriods(sound) ==
    [i \in {k \in DOMAIN sound : k % 2 = 1 /\ sound[k] > 0} |->
        [start |-> Sum(SubSeq(sound, 1, i - 1)), end |-> Sum(SubSeq(sound, 1, i))]]
\* Slip: any quiet will do.
SomeTone(periods, near) == near # {}
ToneOk(periods, near) ==
    \E i \in near : (periods[i].end - periods[i].start) \in RoomToneMin..RoomToneMax
CheckRoomTone(ch) ==
    LET periods == SilencePeriods(ch.sound)
        head == {i \in DOMAIN periods : /\ periods[i].start <= 1
                                       /\ \A k \in DOMAIN periods : i <= k}
        tail == {i \in DOMAIN periods : /\ periods[i].end >= Duration(ch) - 1
                                       /\ \A k \in DOMAIN periods : k <= i}
    IN  IF Duration(ch) < RoomToneMin THEN Blocked("room_tone")
        ELSE IF ToneOk(periods, head) /\ ToneOk(periods, tail)
             THEN Check("room_tone", TRUE, "none") ELSE Blocked("room_tone")

\* A file that cannot be read or measured fails every check.
CheckChapter(ch) ==
    LET checks == <<CheckLoudness(ch), CheckPeak(ch), CheckNoiseFloor(ch), CheckRoomTone(ch)>>
    IN  IF ch.readable THEN checks ELSE [k \in DOMAIN checks |-> Blocked(checks[k].name)]
Passes(checks) == \A k \in DOMAIN checks : checks[k].passed
CheckFullBook(book) ==
    [passed |-> \A i \in DOMAIN book : Passes(CheckChapter(book[i])),
     chapters |-> [i \in DOMAIN book |-> Passes(CheckChapter(book[i]))]]

-----------------------------------------------------------------------------

Narrate(book) ==
    /\ maPc = "idle" /\ maBook = <<>> /\ maBook' = book /\ maPc' = "narrated"
    /\ UNCHANGED <<maTemp, maAtoms, maReport>>
\* apply_room_tone may be off.
PostProcess(pad) ==
    /\ maPc = "narrated" /\ maPc' = IF pad THEN "padded" ELSE "plain"
    /\ maBook' = IF pad THEN [i \in DOMAIN maBook |-> [maBook[i] EXCEPT !.sound = AddRoomTone(@)]]
                 ELSE maBook
    /\ UNCHANGED <<maTemp, maAtoms, maReport>>
CheckBook ==
    /\ maPc \in {"padded", "plain"} /\ maReport = NoReport
    /\ maReport' = CheckFullBook(maBook)
    /\ UNCHANGED <<maBook, maPc, maTemp, maAtoms>>

\* A failing step raises, through the clean-up of those around it.
Goes(ok, next, temp) ==
    /\ maPc' = IF ok THEN next ELSE IF temp = {} THEN "failed" ELSE "raise"
    /\ maTemp' = temp
    /\ UNCHANGED <<maBook, maReport>>

\* assemble_m4b refuses an empty book and a list of titles of another length.
AssembleM4b(titles) ==
    /\ maPc \in {"padded", "plain"} /\ maReport # NoReport
    /\ Goes(maBook # <<>> /\ titles = Len(maBook), "probe", {})
    /\ UNCHANGED maAtoms

\* Slip: each chapter is placed by its own length.
PlacedByLength(atoms, ch) ==
    LET from == IF atoms = <<>> THEN 0 ELSE Last(atoms).end - Last(atoms).start
    IN  Append(atoms, [index |-> Len(atoms), start |-> from, end |-> from + Duration(ch)])
Placed(atoms, ch) ==
    LET from == IF atoms = <<>> THEN 0 ELSE Last(atoms).end
    IN  Append(atoms, [index |-> Len(atoms), start |-> from, end |-> from + Duration(ch)])
ProbeChapter(ok) ==
    /\ maPc = "probe" /\ Len(maAtoms) < Len(maBook)
    /\ maAtoms' = IF ok THEN Placed(maAtoms, maBook[Len(maAtoms) + 1]) ELSE maAtoms
    /\ Goes(ok, "probe", {})
ListChapters ==
    /\ maPc = "probe" /\ Len(maAtoms) = Len(maBook)
    /\ Goes(TRUE, "transcode", {"list", "aac"})
    /\ UNCHANGED maAtoms
Transcode(ok) == maPc = "transcode" /\ Goes(ok, "markers", maTemp) /\ UNCHANGED maAtoms
\* The metadata file goes as soon as ffmpeg returns.
EmbedChapterMarkers(ok) ==
    maPc = "markers" /\ Goes(ok, "metadata", maTemp \union {"chapters"}) /\ UNCHANGED maAtoms
EmbedMetadata(ok) == maPc = "metadata" /\ Goes(ok, "done", maTemp) /\ UNCHANGED maAtoms
\* The two finally clauses, the inner one first.
CleanUp ==
    /\ maPc \in {"done", "raise"} /\ maTemp # {}
    /\ maTemp' = IF "chapters" \in maTemp THEN maTemp \ {"chapters"} ELSE {}
    /\ maPc' = IF maPc = "raise" /\ maTemp' = {} THEN "failed" ELSE maPc
    /\ UNCHANGED <<maBook, maAtoms, maReport>>

MasteringNext ==
    \/ \E book \in Narrations : Narrate(book)
    \/ \E pad \in BOOLEAN : PostProcess(pad)
    \/ CheckBook \/ ListChapters \/ CleanUp
    \/ \E titles \in 0..3 : AssembleM4b(titles)
    \/ \E ok \in BOOLEAN : ProbeChapter(ok) \/ Transcode(ok)
                           \/ EmbedChapterMarkers(ok) \/ EmbedMetadata(ok)

MasteringSpec == MasteringInit /\ [][MasteringNext]_masteringVars
-----------------------------------------------------------------------------

MasteringTypeOK ==
    /\ maTemp \subseteq {"list", "aac", "chapters"}
    /\ maPc \in {"idle", "narrated", "padded", "plain", "probe", "transcode", "markers",
                 "metadata", "done", "raise", "failed"}

\* Padding makes the room tone of a spoken chapter pass exactly when the
\* narration itself opens and closes with at most half a second of quiet:
\* add_room_tone adds to what is there, and check_room_tone blocks above a
\* second.
PaddedToneJudged ==
    (maPc = "padded" /\ maReport # NoReport) =>
      \A i \in DOMAIN maBook :
        LET s == maBook[i].sound IN
        Len(s) > 1 => (CheckRoomTone(maBook[i]).passed
                       <=> /\ s[1] - RoomToneMin <= RoomToneMax - RoomToneMin
                           /\ s[Len(s)] - RoomToneMin <= RoomToneMax - RoomToneMin)

\* A book that is done has a marker for every chapter, in order, each
\* starting where the one before ends and as long as its chapter, and no
\* assembly, done or failed, leaves a temporary file (assemble_m4b).
AssemblyWhole ==
    /\ maPc = "failed" => maTemp = {}
    /\ maPc \in {"transcode", "markers", "metadata", "done"} =>
         /\ Len(maAtoms) = Len(maBook)
         /\ \A i \in DOMAIN maAtoms :
              /\ maAtoms[i].start = Sum([j \in 1..(i - 1) |-> Duration(maBook[j])])
              /\ maAtoms[i].end - maAtoms[i].start = Duration(maBook[i])
         /\ Last(maAtoms).end = Sum([j \in DOMAIN maBook |-> Duration(maBook[j])])

MasteredWhole == PaddedToneJudged /\ AssemblyWhole
=============================================================================
