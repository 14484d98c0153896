----------------------------- MODULE Manuscript -----------------------------
(***************************************************************************)
(* A manuscript on its way in: a book split into chapters and a chapter    *)
(* into chunks a provider takes (text_processor.py), an SSML script        *)
(* imported and exported (ssml_converter.py).  Each runs from start to end *)
(* in one call; what is checked is that the author's text survives it.     *)
(***************************************************************************)
EXTENDS Naturals, Sequences, FiniteSets, SequencesExt, Totals

CONSTANTS RawBooks,   \* sequences of lines
          Texts,      \* chapters: paragraphs of sentences of characters
          MaxChunk,   \* the provider's limit, in bytes
          Imports,    \* SSML scripts: sequences of tokens
          NameMaps    \* sequences of <<voice, character>>

VARIABLES msInput,    \* what came in
          msResult    \* what the call returned
manuscriptVars == <<msInput, msResult>>

-----------------------------------------------------------------------------
(* Chapters.  A line is [kind, size, id]; kind is "marker" for a heading   *)
(* the ingester found, "heading" for a line that looks like one.           *)

MinChapterBody == 500
LineRec == [kind : {"marker", "heading", "prose"}, size : Nat, id : Nat]
ASSUME BookAssumption == RawBooks \subseteq Seq(LineRec)
Size(lines) == Sum([i \in DOMAIN lines |-> lines[i].size])
Chapter(title, lines) == [title |-> title, lines |-> lines]

\* What is read so far: the chapters, then the title and lines of the open one.
Unread == [out |-> <<>>, title |-> 0, buf |-> <<>>]
Take(s, l) == [s EXCEPT !.buf = Append(@, l)]
Closed(s) == Append(s.out, Chapter(s.title, s.buf))
Opened(chapters, l) == [out |-> chapters, title |-> l.id, buf |-> <<>>]
MarkerSeen(s, l) == Opened(IF s.buf = <<>> THEN s.out ELSE Closed(s), l)
\* Slip: the text of a chapter stays in the buffer of the next.
HeadingSeenTwice(s, l) ==
    IF Size(s.buf) > MinChapterBody THEN [Opened(Closed(s), l) EXCEPT !.buf = s.buf]
    ELSE IF s.out = <<>> /\ s.buf = <<>> THEN [s EXCEPT !.title = l.id]
    ELSE Take(s, l)
\* Too short a body makes the heading a line of it.
HeadingSeen(s, l) ==
    IF Size(s.buf) > MinChapterBody THEN Opened(Closed(s), l)
    ELSE IF s.out = <<>> /\ s.buf = <<>> THEN [s EXCEPT !.title = l.id]
    ELSE Take(s, l)
ReadLine(marked, s, l) == IF marked /\ l.kind = "marker" THEN MarkerSeen(s, l)
                          ELSE IF ~marked /\ l.kind = "heading" THEN HeadingSeen(s, l)
                          ELSE Take(s, l)
ReadBook(marked, book) ==
    LET after[n \in 0..Len(book)] ==
          IF n = 0 THEN Unread ELSE ReadLine(marked, after[n - 1], book[n])
    IN  after[Len(book)]

SplitByMarker(book) ==
    LET end == ReadBook(TRUE, book)
        out == IF end.buf = <<>> THEN end.out ELSE Closed(end)
    IN  IF out = <<>> THEN <<Chapter(0, book)>> ELSE out
SplitByHeuristics(book) ==
    LET end == ReadBook(FALSE, book) IN
    IF Size(end.buf) > MinChapterBody THEN Closed(end)
    ELSE IF end.out = <<>> THEN <<Chapter(end.title, IF end.buf = <<>> THEN book ELSE end.buf)>>
    ELSE end.out
SplitByChapters(book) ==
    IF \E i \in DOMAIN book : book[i].kind = "marker" THEN SplitByMarker(book)
    ELSE SplitByHeuristics(book)

-----------------------------------------------------------------------------
(* Chunks.  A character is a number whose last digit is its width in       *)
(* bytes; 0 is white space.                                                *)

Width(c) == IF c = 0 THEN 1 ELSE c % 10
\* Slip: count characters.
LengthInCharacters(s) == Len(s)
EncodedLen(s) == Sum([i \in DOMAIN s |-> Width(s[i])])
BytesOf(s) == FlattenSeq([i \in DOMAIN s |-> [k \in 1..Width(s[i]) |-> <<i, s[i], k>>]])
\* Decoding drops a character some byte of which is missing; strictly, it fails.
WholeIn(bytes, b) == Cardinality({j \in DOMAIN bytes : bytes[j][1] = b[1]}) = Width(b[2])
Decoded(bytes) ==
    LET last == SelectSeq(bytes, LAMBDA b : b[3] = Width(b[2]) /\ WholeIn(bytes, b))
    IN  [i \in DOMAIN last |-> last[i][2]]
Stripped(s) ==
    LET ink == {i \in DOMAIN s : s[i] # 0} IN
    IF ink = {} THEN <<>> ELSE SubSeq(s, Min(ink), Max(ink))
Chunk(s) == IF s = <<>> THEN <<>> ELSE <<s>>
FlushChunk(c) == [c EXCEPT !.chunks = @ \o Chunk(Stripped(c.cur)), !.cur = <<>>]

\* A sentence that is too long is cut every MaxChunk bytes.
HardSplit(c, sent) ==
    LET bytes == BytesOf(sent)
        cuts == IF Len(bytes) > MaxChunk THEN (Len(bytes) - 1) \div MaxChunk ELSE 0
        piece(i) == Stripped(Decoded(SubSeq(bytes, (i - 1) * MaxChunk + 1, i * MaxChunk)))
        rest == SubSeq(bytes, cuts * MaxChunk + 1, Len(bytes))
    IN  [c EXCEPT !.chunks = @ \o SelectSeq([i \in 1..cuts |-> piece(i)], LAMBDA p : p # <<>>),
                  !.cur = Append(Decoded(rest), 0),
                  !.failed = @ \/ \E j \in DOMAIN rest : ~WholeIn(rest, rest[j])]
TakeSentence(c, sent) ==
    IF EncodedLen(c.cur) + EncodedLen(sent) + 1 <= MaxChunk
    THEN [c EXCEPT !.cur = Append(@ \o sent, 0)]
    ELSE HardSplit(FlushChunk(c), sent)

JoinWith(seqs, gap) == FoldLeft(LAMBDA s, t : IF s = <<>> THEN t ELSE s \o gap \o t, <<>>, seqs)
TakeParagraph(c, para) ==
    LET text == JoinWith(para, <<0>>) IN
    IF EncodedLen(c.cur) + EncodedLen(text) + 2 <= MaxChunk
    THEN [c EXCEPT !.cur = @ \o text \o <<0, 0>>]
    ELSE IF EncodedLen(text) <= MaxChunk
    THEN [FlushChunk(c) EXCEPT !.cur = text \o <<0, 0>>]
    ELSE FoldLeft(TakeSentence, FlushChunk(c), para)

FullText(text) == JoinWith([i \in DOMAIN text |-> JoinWith(text[i], <<0>>)], <<0, 0>>)
ChunkForProvider(text) ==
    LET none == [chunks |-> <<>>, cur |-> <<>>, failed |-> FALSE]
        end == FlushChunk(FoldLeft(TakeParagraph, none, text))
        all == Stripped(FullText(text))
    IN  IF EncodedLen(FullText(text)) <= MaxChunk THEN [none EXCEPT !.chunks = Chunk(all)]
        ELSE IF end.chunks = <<>>
        THEN [end EXCEPT !.chunks = Chunk(SubSeq(all, 1, IF Len(all) < MaxChunk THEN Len(all) ELSE MaxChunk))]
        ELSE end

-----------------------------------------------------------------------------
(* SSML.  A token is [t, v]: "word" and its text, "open" and "close" of an *)
(* element, with what the element says; tags of the other notation alike.  *)

Tok(t, v) == [t |-> t, v |-> v]
Tag(token) == token.v[1]
Opens(k, tag) == k.t = "open" /\ Tag(k) = tag
Ends(k, tag) == k.t = "close" /\ Tag(k) = tag
\* A word, and an element that says something, hold it in v.
TokenRec == [t : {"word", "open", "close", "tag"}, v : Seq(STRING) \ {<<>>}]
Telling == {"voice", "lang", "rate", "sub"}
ASSUME ImportAssumption ==
    /\ Imports \subseteq Seq(TokenRec) /\ NameMaps \subseteq Seq(STRING \X STRING)
    /\ \A s \in Imports : \A i \in DOMAIN s :
          s[i].t # "tag" /\ (s[i].t = "open" /\ Tag(s[i]) \in Telling => Len(s[i].v) = 2)

\* Every <voice name=...> of the map's first entry is renamed, then of the next.
Renaming(map, voice) ==
    LET name[n \in 0..Len(map)] ==
          IF n = 0 THEN voice ELSE IF name[n - 1] = map[n][1] THEN map[n][2] ELSE name[n - 1]
    IN  name[Len(map)]
Renamed(script, map) ==
    [i \in DOMAIN script |-> IF Opens(script[i], "voice")
                             THEN Tok("open", <<"voice", Renaming(map, script[i].v[2])>>)
                             ELSE script[i]]
\* The list of characters, each once, follows the map by itself.
NewVoice(script, i) == Opens(script[i], "voice") /\ \A j \in 1..(i - 1) : script[j] # script[i]
Voices(script) ==
    FlattenSeq([i \in DOMAIN script |-> IF NewVoice(script, i) THEN <<script[i].v[2]>> ELSE <<>>])
FirstAt(list, v) == CHOOSE i \in DOMAIN list : list[i] = v /\ \A j \in 1..(i - 1) : list[j] # v
Relabel(list, pair) == IF pair[1] \in Range(list)
                       THEN [list EXCEPT ![FirstAt(list, pair[1])] = pair[2]] ELSE list
Characters(script, map) ==
    LET list[n \in 0..Len(map)] == IF n = 0 THEN Voices(script) ELSE Relabel(list[n - 1], map[n])
    IN  list[Len(map)]

\* An element with no end in the other notation colours all that follows it.
AcxOf(k) ==
    CASE k.t = "word" -> <<k>>
      [] k.t = "open" /\ Tag(k) = "emphasis" -> <<Tok("tag", <<"emphasis">>)>>
      [] k.t = "close" /\ Tag(k) = "emphasis" -> <<Tok("tag", <<"/emphasis">>)>>
      [] k.t = "open" /\ Tag(k) = "lang" -> <<Tok("tag", <<"lang", k.v[2]>>)>>
      [] k.t = "close" /\ Tag(k) = "lang" -> <<Tok("tag", <<"/lang">>)>>
      [] k.t = "open" /\ Tag(k) = "break" -> <<Tok("tag", <<"pause">>)>>
      [] k.t = "open" /\ Tag(k) = "rate" -> <<Tok("tag", <<"rate", k.v[2]>>)>>
      [] k.t = "open" /\ Tag(k) = "voice" -> <<Tok("tag", <<"speaker", k.v[2]>>)>>
      [] k.t = "open" /\ Tag(k) = "sub" -> <<Tok("word", <<k.v[2]>>)>>
      [] OTHER -> <<>>
\* What <sub alias> holds is not read.
Muted(script, i) == Cardinality({j \in 1..(i - 1) : Opens(script[j], "sub")})
                    > Cardinality({j \in 1..(i - 1) : Ends(script[j], "sub")})
ConvertToAcx(script) ==
    FlattenSeq([i \in DOMAIN script |-> IF Muted(script, i) THEN <<>> ELSE AcxOf(script[i])])

\* [emphasis] and [lang] collect words up to their end.  In them every other
\* tag is dropped, but a pause in [emphasis].
Collecting(in, k) == IF in # "none" THEN IF k = Tok("tag", <<in>>) THEN "none" ELSE in
                     ELSE IF k.t = "tag" /\ Tag(k) = "emphasis" THEN "/emphasis"
                     ELSE IF k.t = "tag" /\ Tag(k) = "lang" THEN "/lang" ELSE "none"
SsmlOf(in, k) ==
    IF k.t = "word" THEN <<k>>
    ELSE IF Tag(k) = "pause" THEN IF in = "/lang" THEN <<>> ELSE <<Tok("open", <<"break">>)>>
    ELSE IF in # "none" THEN <<>>
    ELSE IF Tag(k) = "speaker" THEN <<Tok("open", <<"voice", k.v[2]>>)>>
    ELSE IF Tag(k) \in {"emphasis", "lang", "rate"} THEN <<Tok("open", k.v)>> ELSE <<>>
ConvertToSsml(acx) ==
    LET in[n \in 0..Len(acx)] == IF n = 0 THEN "none" ELSE Collecting(in[n - 1], acx[n])
    IN  FlattenSeq([i \in DOMAIN acx |-> SsmlOf(in[i - 1], acx[i])])

-----------------------------------------------------------------------------

ManuscriptInit == msInput = <<"none">> /\ msResult = <<>>
SplitBook(book) == msInput' = <<"book", book>> /\ msResult' = SplitByChapters(book)
ChunkChapter(text) == msInput' = <<"text", text>> /\ msResult' = ChunkForProvider(text)
ImportScript(script, map) ==
    /\ msInput' = <<"script", script, map>>
    /\ LET acx == ConvertToAcx(Renamed(script, map)) IN
       msResult' = [acx |-> acx, characters |-> Characters(script, map), back |-> ConvertToSsml(acx)]
ManuscriptNext ==
    /\ msInput = <<"none">>
    /\ \/ \E b \in RawBooks : SplitBook(b)
       \/ \E t \in Texts : ChunkChapter(t)
       \/ \E s \in Imports, m \in NameMaps : ImportScript(s, m)

\* What the author wrote in the lines of a book, and in a script.
Prose(lines) ==
    FlattenSeq([i \in DOMAIN lines |-> IF lines[i].kind = "prose" THEN <<lines[i]>> ELSE <<>>])
WordTokens(tokens) ==
    FlattenSeq([i \in DOMAIN tokens |-> IF tokens[i].t = "word" THEN <<tokens[i]>> ELSE <<>>])

\* Every line of prose is in one chapter, in the book's order; only a last
\* section of at most 500 characters may be missing, and only from a book
\* without markers that has a longer one (_split_by_marker, _split_by_heuristics).
ChaptersKeepText ==
    msInput[1] = "book" =>
      LET kept == Prose(FlattenSeq([i \in DOMAIN msResult |-> msResult[i].lines]))
          all == Prose(msInput[2])
          lost == SubSeq(all, Len(kept) + 1, Len(all))
      IN  /\ IsPrefix(kept, all)
          /\ lost = <<>> \/ ( /\ Size(lost) <= MinChapterBody /\ msResult # <<>>
                              /\ \A i \in DOMAIN msInput[2] : msInput[2][i].kind # "marker")

\* Chunks never exceed the provider's limit in bytes, and together are the
\* chapter's characters in order, as long as each sentence that must be cut
\* is of single bytes (chunk_for_provider).
ChunksKeepText ==
    msInput[1] = "text" =>
      LET Ink(s) == SelectSeq(s, LAMBDA c : c # 0)
          cut == {sent \in UNION {Range(p) : p \in Range(msInput[2])} : EncodedLen(sent) > MaxChunk}
      IN  /\ \A i \in DOMAIN msResult.chunks : Len(BytesOf(msResult.chunks[i])) <= MaxChunk
          /\ (\A sent \in cut : Len(sent) = EncodedLen(sent))
             => /\ ~msResult.failed
                /\ Ink(FlattenSeq(msResult.chunks)) = Ink(FullText(msInput[2]))

\* Import keeps every word in order, an alias for what it stands for, and
\* so does the way back; the characters it lists are those who speak, when
\* no voice is renamed to one that is renamed too, nor speaks inside an alias
\* (import_audible_script).
ImportKeepsWords ==
    msInput[1] = "script" =>
      LET script == msInput[2]
          map == msInput[3]
          acx == msResult.acx
      IN  /\ WordTokens(msResult.back) = WordTokens(acx)
          /\ (\A i \in DOMAIN script : ~Opens(script[i], "sub")) => WordTokens(acx) = WordTokens(script)
          /\ /\ \A p, q \in Range(map) : p[2] # q[1]
             /\ \A i \in DOMAIN script : Opens(script[i], "voice") => ~Muted(script, i)
             => Range(msResult.characters)
                = {k.v[2] : k \in {x \in Range(acx) : x.t = "tag" /\ Tag(x) = "speaker"}}

\* What a book and a script lose on their way in.
ManuscriptKept == ChaptersKeepText /\ ImportKeepsWords
ManuscriptSpec == ManuscriptInit /\ [][ManuscriptNext]_manuscriptVars
=============================================================================
