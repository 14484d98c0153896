----------------------------- MODULE Texts_proofs ---------------------------
(* What a text is read from: the five agents hand synthesis the chapter they   *)
(* were given (AgentPipeline), a tagged script is spoken as it is written      *)
(* (ProsodyScript), and a book and an imported script keep their words on the  *)
(* way in (Manuscript).                                                        *)
EXTENDS AgentPipeline, ProsodyScript, Manuscript, Contents_proofs

(* Sequences of sequences strung together, step by step and element by element. *)

StrungUp(g, ss) == /\ g[0] = <<>> /\ FlattenSeq(ss) = g[Len(ss)]
                   /\ \A n \in 1..Len(ss) : g[n] = g[n - 1] \o ss[n]

LEMMA Flattened ==
    ASSUME NEW X, NEW ss \in Seq(Seq(X))
    PROVE  \E g \in [0..Len(ss) -> Seq(X)] : StrungUp(g, ss)
  <1>1. PICK N \in Nat : N = Len(ss) /\ \A n \in 1..N : ss[n] \in Seq(X)
    OBVIOUS
  <1>2. PICK step : step = [a \in (1..N) \X Seq(X) |-> a[2] \o ss[a[1]]]
    OBVIOUS
  <1>3. ASSUME NEW n \in 1..N, NEW s \in Seq(X)
        PROVE  step[<<n, s>>] = s \o ss[n] /\ step[<<n, s>>] \in Seq(X)
    <2>1. step[<<n, s>>] = s \o ss[n] /\ ss[n] \in Seq(X)
      BY <1>1, <1>2
    <2>2. QED BY <2>1, ConcatProperties
  <1>4. step \in [(1..N) \X Seq(X) -> Seq(X)]
    <2>1. \A a \in (1..N) \X Seq(X) : step[a] \in Seq(X)
      <3> SUFFICES ASSUME NEW a \in (1..N) \X Seq(X) PROVE step[a] \in Seq(X)
        OBVIOUS
      <3>1. PICK n \in 1..N, s \in Seq(X) : a = <<n, s>>
        OBVIOUS
      <3>2. QED BY <1>3, <3>1
    <2>2. QED BY <1>2, <2>1
  <1>5. PICK g \in [0..N -> Seq(X)] : Iterates(g, N, <<>>, step)
    <2>1. <<>> \in Seq(X)
      OBVIOUS
    <2>2. QED BY <1>4, <2>1, Iterated
  <1>6. g[0] = <<>>
    BY <1>5 DEF Iterates
  <1>7. ASSUME NEW n \in 1..N PROVE g[n] = g[n - 1] \o ss[n]
    <2>1. n \in 0..N /\ n # 0 /\ g[n - 1] \in Seq(X)
      BY <1>5
    <2>2. g[n] = step[<<n, g[n - 1]>>]
      BY <1>5, <2>1 DEF Iterates
    <2>3. QED BY <1>3, <2>1, <2>2
  <1>8. FlattenSeq(ss) = g[N]
    <2>1. CASE N = 0
      <3>1. ss = <<>>
        BY <1>1, <2>1, EmptySeq
      <3>2. QED BY <1>6, <2>1, <3>1, StrungNone
    <2>2. CASE N # 0
      <3>1. PICK f : Strung(f, ss) /\ FlattenSeq(ss) = f[N]
        BY <1>1, <2>2, StrungIs
      <3>2. \A n \in 1..N : f[n] = IF n = 1 THEN ss[n] ELSE f[n - 1] \o ss[n]
        BY <1>1, <3>1 DEF Strung
      <3> DEFINE S == {n \in 0..N : n # 0 => f[n] = g[n]}
      <3>3. 0 \in S
        OBVIOUS
      <3>4. ASSUME NEW n \in 1..N, n - 1 \in S PROVE n \in S
        <4>1. g[n] = g[n - 1] \o ss[n] /\ ss[n] \in Seq(X)
          BY <1>1, <1>7
        <4>2. CASE n = 1
          <5>1. f[n] = ss[n]
            BY <3>2, <4>2
          <5>2. g[n - 1] = <<>>
            BY <1>6, <4>2
          <5>3. g[n] = ss[n]
            BY <4>1, <5>2, ConcatEmptySeq
          <5>4. QED BY <5>1, <5>3
        <4>3. CASE n # 1
          <5>1. f[n] = f[n - 1] \o ss[n]
            BY <3>2, <4>3
          <5>2. f[n - 1] = g[n - 1]
            BY <3>4, <4>3
          <5>3. f[n] = g[n] /\ n \in 0..N
            BY <4>1, <5>1, <5>2
          <5>4. QED BY <5>3
        <4>4. QED BY <4>2, <4>3
      <3>5. N \in S
        <4> HIDE DEF S
        <4>1. \A n \in 0..N : n \in S
          BY <3>3, <3>4, UpTo, Zenon
        <4>2. QED BY <4>1
      <3>6. QED BY <2>2, <3>1, <3>5
    <2>3. QED BY <2>1, <2>2
  <1>9. QED BY <1>1, <1>5, <1>6, <1>7, <1>8 DEF StrungUp

\* f of every element of a sequence.
Maps(f, X, Y) == f \in [X -> Y]
MapOf(f, q) == [p \in DOMAIN q |-> f[q[p]]]

LEMMA Mapped ==
    ASSUME NEW X, NEW Y, NEW f, Maps(f, X, Y), NEW q \in Seq(X)
    PROVE  /\ MapOf(f, q) \in Seq(Y) /\ Len(MapOf(f, q)) = Len(q)
           /\ \A p \in 1..Len(q) : MapOf(f, q)[p] = f[q[p]]
  BY DEF MapOf, Maps

LEMMA MapConcat ==
    ASSUME NEW X, NEW Y, NEW f, Maps(f, X, Y), NEW q \in Seq(X), NEW r \in Seq(X)
    PROVE  MapOf(f, q \o r) = MapOf(f, q) \o MapOf(f, r)
  <1>1. PICK a \in Seq(Y) : a = MapOf(f, q) /\ Len(a) = Len(q) /\ \A p \in 1..Len(q) : a[p] = f[q[p]]
    BY Mapped
  <1>2. PICK b \in Seq(Y) : b = MapOf(f, r) /\ Len(b) = Len(r) /\ \A p \in 1..Len(r) : b[p] = f[r[p]]
    BY Mapped
  <1>3. PICK s \in Seq(X) : s = q \o r
    BY ConcatProperties
  <1>4. PICK c \in Seq(Y) : c = MapOf(f, s) /\ Len(c) = Len(s) /\ \A p \in 1..Len(s) : c[p] = f[s[p]]
    BY Mapped
  <1>5. Len(s) = Len(q) + Len(r) /\ Len(a \o b) = Len(a) + Len(b) /\ a \o b \in Seq(Y)
    BY <1>3, ConcatProperties
  <1>6. ASSUME NEW p \in 1..Len(s) PROVE c[p] = (a \o b)[p]
    <2>1. CASE p <= Len(q)
      <3>1. s[p] = q[p] /\ (a \o b)[p] = a[p] /\ p \in 1..Len(q)
        BY <1>1, <1>3, <1>5, <2>1, ConcatProperties
      <3>2. QED BY <1>1, <1>4, <3>1
    <2>2. CASE ~(p <= Len(q))
      <3>1. PICK k : k = p - Len(q)
        OBVIOUS
      <3>2. s[p] = r[k] /\ (a \o b)[p] = b[k] /\ k \in 1..Len(r)
        BY <1>1, <1>2, <1>3, <1>5, <2>2, <3>1, ConcatProperties
      <3>3. QED BY <1>2, <1>4, <3>2
    <2>3. QED BY <2>1, <2>2
  <1>7. c = a \o b
    BY <1>1, <1>2, <1>4, <1>5, <1>6, SeqEqual
  <1>8. QED BY <1>1, <1>2, <1>3, <1>4, <1>7

MapsOf(f, ss) == [s \in DOMAIN ss |-> MapOf(f, ss[s])]

LEMMA MapsType ==
    ASSUME NEW X, NEW Y, NEW f, Maps(f, X, Y), NEW ss \in Seq(Seq(X))
    PROVE  /\ MapsOf(f, ss) \in Seq(Seq(Y)) /\ Len(MapsOf(f, ss)) = Len(ss)
           /\ \A s \in 1..Len(ss) : MapsOf(f, ss)[s] = MapOf(f, ss[s])
  <1>1. Len(ss) \in Nat /\ DOMAIN ss = 1..Len(ss) /\ \A s \in 1..Len(ss) : ss[s] \in Seq(X)
    OBVIOUS
  <1>2. \A s \in 1..Len(ss) : MapOf(f, ss[s]) \in Seq(Y)
    BY <1>1, Mapped
  <1>3. MapsOf(f, ss) = [s \in 1..Len(ss) |-> MapOf(f, ss[s])]
    BY <1>1 DEF MapsOf
  <1>4. QED BY <1>1, <1>2, <1>3

LEMMA FlattenMaps ==
    ASSUME NEW X, NEW Y, NEW f, Maps(f, X, Y), NEW ss \in Seq(Seq(X))
    PROVE  FlattenSeq(MapsOf(f, ss)) = MapOf(f, FlattenSeq(ss))
  <1>1. PICK N \in Nat : N = Len(ss)
    OBVIOUS
  <1>2. \A s \in 1..N : ss[s] \in Seq(X)
    BY <1>1
  <1>3. PICK g \in [0..N -> Seq(X)] : StrungUp(g, ss)
    BY <1>1, Flattened
  <1>4. PICK ts : ts = MapsOf(f, ss)
    OBVIOUS
  <1>5. ts \in Seq(Seq(Y)) /\ Len(ts) = N /\ \A s \in 1..N : ts[s] = MapOf(f, ss[s])
    BY <1>1, <1>4, MapsType
  <1>6. PICK h \in [0..N -> Seq(Y)] : StrungUp(h, ts)
    BY <1>5, Flattened
  <1>7. \A n \in 1..N : g[n] = g[n - 1] \o ss[n] /\ h[n] = h[n - 1] \o ts[n]
    BY <1>1, <1>3, <1>5, <1>6 DEF StrungUp
  <1>8. FlattenSeq(ss) = g[N] /\ FlattenSeq(ts) = h[N] /\ g[0] = <<>> /\ h[0] = <<>>
    BY <1>1, <1>3, <1>5, <1>6 DEF StrungUp
  <1> DEFINE S == {n \in 0..N : h[n] = MapOf(f, g[n])}
  <1>9. 0 \in S
    <2>1. MapOf(f, <<>>) = <<>>
      BY DEF MapOf
    <2>2. QED BY <1>8, <2>1
  <1>10. ASSUME NEW n \in 1..N, n - 1 \in S PROVE n \in S
    <2>1. PICK q : q = g[n - 1]
      OBVIOUS
    <2>2. q \in Seq(X)
      BY <1>3, <2>1
    <2>3. PICK r : r = ss[n]
      OBVIOUS
    <2>4. r \in Seq(X)
      BY <1>2, <2>3
    <2>5. MapOf(f, q \o r) = MapOf(f, q) \o MapOf(f, r)
      BY <2>2, <2>4, MapConcat
    <2>6. h[n - 1] = MapOf(f, q) /\ ts[n] = MapOf(f, r)
      BY <1>5, <1>10, <2>1, <2>3
    <2>7. h[n] = MapOf(f, g[n])
      BY <1>7, <2>1, <2>3, <2>5, <2>6
    <2>8. QED BY <2>7
  <1>11. N \in S
    <2> HIDE DEF S
    <2>1. \A n \in 0..N : n \in S
      BY <1>9, <1>10, UpTo, Zenon
    <2>2. QED BY <2>1
  <1>12. QED BY <1>4, <1>8, <1>11

-----------------------------------------------------------------------------
(* Paragraphs: the lines each was made of, in the order of the book.           *)

ParaRec == [of : Seq(Nat), index : Nat, speaker : {"unset", "Name", "Unknown", "Narrator"},
            cut : BOOLEAN, tags : {"none", "rules", "model"}]
LinesOf == [p \in ParaRec |-> Range(p.of)]
TextsOf(ss) == MapsOf(LinesOf, ss)
TextOf(ss) == FlattenSeq(TextsOf(ss))
Below(S, T) == \A i \in S, k \in T : i < k
Covers(texts, S) == /\ UNION Range(texts) = S
                    /\ \A p, q \in DOMAIN texts : p < q => Below(texts[p], texts[q])

LEMMA LinesAt == \A p \in ParaRec : LinesOf[p] = Range(p.of)
  BY DEF LinesOf

LEMMA LinesMap == Maps(LinesOf, ParaRec, SUBSET Nat)
  <1>1. \A q \in Seq(Nat) : Range(q) \in SUBSET Nat
    BY DEF Range
  <1>2. \A p \in ParaRec : p.of \in Seq(Nat)
    BY DEF ParaRec
  <1>3. QED BY <1>1, <1>2 DEF LinesOf, Maps

LEMMA TextsType ==
    ASSUME NEW ss \in Seq(Seq(ParaRec))
    PROVE  /\ TextsOf(ss) \in Seq(Seq(SUBSET Nat)) /\ Len(TextsOf(ss)) = Len(ss)
           /\ \A s \in 1..Len(ss) : TextsOf(ss)[s] = MapOf(LinesOf, ss[s])
  BY MapsType, LinesMap DEF TextsOf

LEMMA CoversNone == Covers(<<>>, {})
  BY DEF Covers, Range

LEMMA CoversOne ==
    ASSUME NEW S
    PROVE  Covers(<<S>>, S)
  <1>1. PICK one : one = <<S>>
    OBVIOUS
  <1>2. DOMAIN one = {1} /\ one[1] = S
    BY <1>1
  <1>3. \A p, q \in {1} : ~(p < q)
    OBVIOUS
  <1>4. UNION Range(one) = S
    BY <1>2 DEF Range
  <1>5. QED BY <1>1, <1>2, <1>3, <1>4 DEF Covers

LEMMA CoversConcat ==
    ASSUME NEW a \in Seq(SUBSET Nat), NEW b \in Seq(SUBSET Nat), NEW S, NEW T,
           Covers(a, S), Covers(b, T), Below(S, T)
    PROVE  Covers(a \o b, S \cup T)
  <1>1. PICK M \in Nat, N \in Nat : M = Len(a) /\ N = Len(b) /\ DOMAIN a = 1..M /\ DOMAIN b = 1..N
    OBVIOUS
  <1>2. PICK c \in Seq(SUBSET Nat) : c = a \o b
    BY ConcatProperties
  <1>3. DOMAIN c = 1..(M + N)
    BY <1>1, <1>2, ConcatProperties
  <1>4. \A p \in 1..M : c[p] = a[p]
    BY <1>1, <1>2, ConcatProperties
  <1>5. \A p \in 1..N : c[p + M] = b[p]
    BY <1>1, <1>2, ConcatProperties
  <1>6. \A p \in 1..(M + N) : p \in 1..M \/ \E k \in 1..N : p = k + M
    <2> SUFFICES ASSUME NEW p \in 1..(M + N), p \notin 1..M PROVE \E k \in 1..N : p = k + M
      OBVIOUS
    <2>1. p - M \in 1..N /\ p = (p - M) + M
      OBVIOUS
    <2>2. QED BY <2>1
  <1>7. \A p \in 1..M : a[p] \subseteq S
    BY <1>1 DEF Covers, Range
  <1>8. \A p \in 1..N : b[p] \subseteq T
    BY <1>1 DEF Covers, Range
  <1>9. UNION Range(c) = S \cup T
    <2>1. ASSUME NEW x \in UNION Range(c) PROVE x \in S \cup T
      <3>1. PICK p \in 1..(M + N) : x \in c[p]
        BY <1>3 DEF Range
      <3>2. QED BY <1>4, <1>5, <1>6, <1>7, <1>8, <3>1
    <2>2. ASSUME NEW x \in S PROVE x \in UNION Range(c)
      <3>1. PICK p \in 1..M : x \in a[p]
        BY <1>1 DEF Covers, Range
      <3>2. p \in 1..(M + N) /\ x \in c[p]
        BY <1>4, <3>1
      <3>3. QED BY <1>3, <3>2 DEF Range
    <2>3. ASSUME NEW x \in T PROVE x \in UNION Range(c)
      <3>1. PICK p \in 1..N : x \in b[p]
        BY <1>1 DEF Covers, Range
      <3>2. p + M \in 1..(M + N) /\ x \in c[p + M]
        BY <1>5, <3>1
      <3>3. QED BY <1>3, <3>2 DEF Range
    <2>4. QED BY <2>1, <2>2, <2>3
  <1>10. ASSUME NEW p \in 1..(M + N), NEW q \in 1..(M + N), p < q PROVE Below(c[p], c[q])
    <2>1. CASE q \in 1..M
      <3>1. p \in 1..M
        BY <1>10, <2>1
      <3>2. QED BY <1>1, <1>4, <1>10, <2>1, <3>1 DEF Covers
    <2>2. CASE p \notin 1..M
      <3>1. PICK i \in 1..N, k \in 1..N : p = i + M /\ q = k + M /\ i < k
        <4>1. p - M \in 1..N /\ q - M \in 1..N /\ p = (p - M) + M /\ q = (q - M) + M /\ p - M < q - M
          BY <1>10, <2>2
        <4>2. QED BY <4>1
      <3>2. QED BY <1>1, <1>5, <3>1 DEF Covers
    <2>3. CASE p \in 1..M /\ q \notin 1..M
      <3>1. PICK k \in 1..N : q = k + M
        BY <1>6, <2>3
      <3>2. c[p] \subseteq S /\ c[q] \subseteq T
        BY <1>4, <1>5, <1>7, <1>8, <2>3, <3>1
      <3>3. QED BY <3>2 DEF Below
    <2>4. QED BY <2>1, <2>2, <2>3
  <1>11. QED BY <1>2, <1>3, <1>9, <1>10 DEF Covers

-----------------------------------------------------------------------------
(* Agent 1, line by line.                                                      *)

ParseRec == [done : Seq(Seq(ParaRec)), scene : Seq(ParaRec), para : Seq(Nat), front : BOOLEAN]
\* The paragraphs of the scenes, of the open scene and the open one have the
\* lines of W among them, in this order.
Parts(st, S, R, T, W) ==
    /\ Covers(TextOf(st.done), S) /\ Covers(MapOf(LinesOf, st.scene), R) /\ Range(st.para) = T
    /\ Below(S, R) /\ Below(S, T) /\ Below(R, T) /\ S \cup R \cup T = W
Reads(st, W) == \E S, R, T : Parts(st, S, R, T, W)

LEMMA ParaOf ==
    ASSUME NEW ls \in Seq(Nat), NEW index \in Nat
    PROVE  Para(ls, index) \in ParaRec /\ Para(ls, index).of = ls
  BY DEF Para, ParaRec

LEMMA ParseFields ==
    ASSUME NEW st \in ParseRec
    PROVE  st.done \in Seq(Seq(ParaRec)) /\ st.scene \in Seq(ParaRec) /\ st.para \in Seq(Nat) /\ st.front \in BOOLEAN
  BY DEF ParseRec

Parse(d, s, p, f) == [done |-> d, scene |-> s, para |-> p, front |-> f]

Has(st, d, s, p, f) == st.done = d /\ st.scene = s /\ st.para = p /\ st.front = f
ParseOK(d, s, p, f) == d \in Seq(Seq(ParaRec)) /\ s \in Seq(ParaRec) /\ p \in Seq(Nat) /\ f \in BOOLEAN

LEMMA ParseHas ==
    ASSUME NEW d, NEW s, NEW p, NEW f
    PROVE  Has(Parse(d, s, p, f), d, s, p, f)
  BY DEF Parse, Has

LEMMA ParseType ==
    ASSUME NEW d, NEW s, NEW p, NEW f, ParseOK(d, s, p, f)
    PROVE  Parse(d, s, p, f) \in ParseRec
  BY DEF Parse, ParseRec, ParseOK

LEMMA ParseAgain ==
    ASSUME NEW st \in ParseRec, NEW a, NEW b
    PROVE  /\ [st EXCEPT !.scene = a, !.para = b] = Parse(st.done, a, b, st.front)
           /\ [st EXCEPT !.done = a, !.scene = b] = Parse(a, b, st.para, st.front)
           /\ [st EXCEPT !.para = a] = Parse(st.done, st.scene, a, st.front)
  <1>1. PICK d, s, p, f : st = [done |-> d, scene |-> s, para |-> p, front |-> f]
    <2>1. st = [done |-> st.done, scene |-> st.scene, para |-> st.para, front |-> st.front]
      BY DEF ParseRec
    <2>2. QED BY <2>1
  <1>2. /\ [st EXCEPT !.para = a] = [done |-> d, scene |-> s, para |-> a, front |-> f]
        /\ st.done = d /\ st.scene = s /\ st.para = p /\ st.front = f
    BY <1>1
  <1>3. [st EXCEPT !.scene = a, !.para = b] = [done |-> d, scene |-> a, para |-> b, front |-> f]
    <2>1. PICK mid : mid = [st EXCEPT !.scene = a]
      OBVIOUS
    <2>2. mid = [done |-> d, scene |-> a, para |-> p, front |-> f]
      BY <1>1, <2>1
    <2>3. [mid EXCEPT !.para = b] = [done |-> d, scene |-> a, para |-> b, front |-> f]
      BY <2>2
    <2>4. QED BY <2>1, <2>3, Zenon
  <1>4. [st EXCEPT !.done = a, !.scene = b] = [done |-> a, scene |-> b, para |-> p, front |-> f]
    <2>1. PICK mid : mid = [st EXCEPT !.done = a]
      OBVIOUS
    <2>2. mid = [done |-> a, scene |-> s, para |-> p, front |-> f]
      BY <1>1, <2>1
    <2>3. [mid EXCEPT !.scene = b] = [done |-> a, scene |-> b, para |-> p, front |-> f]
      BY <2>2
    <2>4. QED BY <2>1, <2>3, Zenon
  <1>5. QED BY <1>2, <1>3, <1>4, Zenon DEF Parse

LEMMA LinesConcat ==
    ASSUME NEW q \in Seq(ParaRec), NEW r \in Seq(ParaRec)
    PROVE  MapOf(LinesOf, q \o r) = MapOf(LinesOf, q) \o MapOf(LinesOf, r)
  BY MapConcat, LinesMap

LEMMA LinesType ==
    ASSUME NEW q \in Seq(ParaRec)
    PROVE  /\ MapOf(LinesOf, q) \in Seq(SUBSET Nat) /\ Len(MapOf(LinesOf, q)) = Len(q)
           /\ \A p \in 1..Len(q) : MapOf(LinesOf, q)[p] = Range(q[p].of)
  <1>1. \A p \in 1..Len(q) : q[p] \in ParaRec
    OBVIOUS
  <1>2. /\ MapOf(LinesOf, q) \in Seq(SUBSET Nat) /\ Len(MapOf(LinesOf, q)) = Len(q)
        /\ \A p \in 1..Len(q) : MapOf(LinesOf, q)[p] = LinesOf[q[p]]
    BY Mapped, LinesMap
  <1>3. QED BY <1>1, <1>2, LinesAt

LEMMA Flushes ==
    ASSUME NEW st \in ParseRec, NEW W, Reads(st, W)
    PROVE  /\ FlushParagraph(st) \in ParseRec /\ Reads(FlushParagraph(st), W)
           /\ FlushParagraph(st).para = <<>> /\ FlushParagraph(st).front = st.front
  <1>1. CASE st.para = <<>>
    BY <1>1 DEF FlushParagraph
  <1>2. CASE st.para # <<>>
    <2>1. PICK p : p = Para(st.para, Len(st.scene))
      OBVIOUS
    <2>2. p \in ParaRec /\ p.of = st.para
      <3>1. st.para \in Seq(Nat) /\ Len(st.scene) \in Nat
        BY ParseFields
      <3>2. QED BY <2>1, <3>1, ParaOf
    <2>3. PICK next : next = Append(st.scene, p)
      OBVIOUS
    <2>4. next \in Seq(ParaRec)
      BY <2>2, <2>3, ParseFields, AppendProperties
    <2>5. PICK new : new = FlushParagraph(st)
      OBVIOUS
    <2>6. new = Parse(st.done, next, <<>>, st.front)
      <3>1. new = [st EXCEPT !.scene = next, !.para = <<>>]
        BY <1>2, <2>1, <2>3, <2>5 DEF FlushParagraph
      <3>2. QED BY <3>1, ParseAgain, Zenon
    <2>7. /\ new \in ParseRec /\ new.para = <<>> /\ new.front = st.front
          /\ new.done = st.done /\ new.scene = next
      <3>1. <<>> \in Seq(Nat)
        OBVIOUS
      <3>2. Has(new, st.done, next, <<>>, st.front)
        BY <2>6, ParseHas
      <3>3. ParseOK(st.done, next, <<>>, st.front)
        BY <2>4, <3>1, ParseFields DEF ParseOK
      <3>4. QED BY <2>6, <3>2, <3>3, ParseType DEF Has
    <2>8. PICK S, R, T : Parts(st, S, R, T, W)
      BY DEF Reads
    <2>9. MapOf(LinesOf, next) = MapOf(LinesOf, st.scene) \o <<T>>
      <3> PICK old \in Seq(ParaRec) : old = st.scene
        BY ParseFields
      <3> PICK one : one = <<p>>
        OBVIOUS
      <3>5. one \in Seq(ParaRec)
        BY <2>2
      <3>1. next = old \o one
        BY <2>2, <2>3, AppendIsConcat, Zenon
      <3>2. MapOf(LinesOf, next) = MapOf(LinesOf, old) \o MapOf(LinesOf, one)
        BY <3>1, <3>5, LinesConcat, Zenon
      <3>3. LinesOf[p] = T
        BY <2>2, <2>8, LinesAt DEF Parts
      <3>4. MapOf(LinesOf, one) = <<T>>
        BY <3>3 DEF MapOf
      <3>6. QED BY <3>2, <3>4
    <2>10. T \in SUBSET Nat
      <3>1. st.para \in Seq(Nat)
        BY ParseFields
      <3>2. QED BY <2>8, <3>1 DEF Parts, Range
    <2>11. Covers(MapOf(LinesOf, next), R \cup T)
      <3>1. MapOf(LinesOf, st.scene) \in Seq(SUBSET Nat)
        BY LinesType, ParseFields
      <3>2. <<T>> \in Seq(SUBSET Nat)
        BY <2>10
      <3>3. Covers(MapOf(LinesOf, st.scene), R) /\ Covers(<<T>>, T) /\ Below(R, T)
        BY <2>8, CoversOne DEF Parts
      <3>4. QED BY <2>9, <3>1, <3>2, <3>3, CoversConcat
    <2>12. Parts(new, S, R \cup T, {}, W)
      <3>1. Below(S, R \cup T) /\ Below(S, {}) /\ Below(R \cup T, {}) /\ S \cup (R \cup T) \cup {} = W
        BY <2>8 DEF Parts, Below
      <3>2. Range(new.para) = {} /\ Covers(TextOf(new.done), S)
        BY <2>7, <2>8 DEF Parts, Range
      <3>3. QED BY <2>7, <2>11, <3>1, <3>2 DEF Parts
    <2>13. QED BY <2>5, <2>7, <2>12 DEF Reads
  <1>3. QED BY <1>1, <1>2

LEMMA Closes ==
    ASSUME NEW st \in ParseRec, st.para = <<>>, NEW W, Reads(st, W)
    PROVE  /\ CloseScene(st) \in ParseRec /\ Reads(CloseScene(st), W) /\ Covers(TextOf(CloseScene(st).done), W)
           /\ CloseScene(st).para = <<>> /\ CloseScene(st).scene = <<>> /\ CloseScene(st).front = st.front
  <1>1. PICK scene \in Seq(ParaRec), done \in Seq(Seq(ParaRec)) : scene = st.scene /\ done = st.done
    BY ParseFields
  <1>2. PICK next : next = Append(done, scene)
    OBVIOUS
  <1>3. next \in Seq(Seq(ParaRec)) /\ Len(next) = Len(done) + 1 /\ next[Len(next)] = scene
        /\ \A i \in 1..Len(done) : next[i] = done[i]
    BY <1>2, AppendProperties
  <1>4. PICK new : new = CloseScene(st)
    OBVIOUS
  <1>5. new = Parse(next, <<>>, <<>>, st.front)
    <2>1. new = [st EXCEPT !.done = next, !.scene = <<>>]
      BY <1>1, <1>2, <1>4 DEF CloseScene
    <2>2. new = Parse(next, <<>>, st.para, st.front)
      BY <2>1, ParseAgain, Zenon
    <2>3. QED BY <2>2
  <1>6. new \in ParseRec /\ new.para = <<>> /\ new.scene = <<>> /\ new.front = st.front /\ new.done = next
    <2>1. Has(new, next, <<>>, <<>>, st.front)
      BY <1>5, ParseHas
    <2>2. <<>> \in Seq(ParaRec) /\ <<>> \in Seq(Nat)
      OBVIOUS
    <2>3. ParseOK(next, <<>>, <<>>, st.front)
      BY <1>3, <2>2, ParseFields DEF ParseOK
    <2>4. QED BY <1>5, <2>1, <2>3, ParseType DEF Has
  <1>7. TextOf(next) = TextOf(done) \o MapOf(LinesOf, scene)
    <2>1. PICK a \in Seq(Seq(SUBSET Nat)) : a = TextsOf(done)
      BY MapsType, LinesMap DEF TextsOf
    <2>2. Len(a) = Len(done) /\ \A i \in 1..Len(done) : a[i] = MapOf(LinesOf, done[i])
      BY <2>1, MapsType, LinesMap DEF TextsOf
    <2>3. PICK b \in Seq(Seq(SUBSET Nat)) : b = TextsOf(next)
      BY <1>3, MapsType, LinesMap DEF TextsOf
    <2>4. Len(b) = Len(next) /\ \A i \in 1..Len(next) : b[i] = MapOf(LinesOf, next[i])
      BY <1>3, <2>3, MapsType, LinesMap DEF TextsOf
    <2>5. Len(done) \in Nat
      OBVIOUS
    <2>6. Len(b) = Len(a) + 1 /\ b[Len(b)] = MapOf(LinesOf, scene)
      BY <1>3, <2>2, <2>4, <2>5
    <2>7. \A i \in 1..Len(a) : b[i] = a[i]
      BY <1>3, <2>2, <2>4, <2>5
    <2>8. FlattenSeq(b) = FlattenSeq(a) \o b[Len(b)]
      BY <2>6, <2>7, StrungFurther
    <2>9. QED BY <2>1, <2>3, <2>6, <2>8 DEF TextOf
  <1>8. PICK S, R, T : Parts(st, S, R, T, W)
    BY DEF Reads
  <1>9. T = {}
    BY <1>8 DEF Parts, Range
  <1>10. Covers(TextOf(next), W)
    <2>1. TextOf(done) \in Seq(SUBSET Nat)
      <3>1. TextsOf(done) \in Seq(Seq(SUBSET Nat))
        BY MapsType, LinesMap DEF TextsOf
      <3>2. QED BY <3>1, StrungType DEF TextOf
    <2>2. MapOf(LinesOf, scene) \in Seq(SUBSET Nat)
      BY LinesType
    <2>3. Covers(TextOf(done), S) /\ Covers(MapOf(LinesOf, scene), R) /\ Below(S, R) /\ S \cup R = W
      BY <1>1, <1>8, <1>9 DEF Parts
    <2>4. Covers(TextOf(next), S \cup R)
      BY <1>7, <2>1, <2>2, <2>3, CoversConcat
    <2>5. QED BY <2>3, <2>4
  <1>11. Parts(new, W, {}, {}, W)
    <2>1. MapOf(LinesOf, <<>>) = <<>>
      BY DEF MapOf
    <2>2. Covers(MapOf(LinesOf, new.scene), {}) /\ Range(new.para) = {}
      BY <1>6, <2>1, CoversNone DEF Range
    <2>3. Below(W, {}) /\ Below({}, {}) /\ W \cup {} \cup {} = W
      BY DEF Below
    <2>4. QED BY <1>6, <1>10, <2>2, <2>3 DEF Parts
  <1>12. QED BY <1>4, <1>6, <1>10, <1>11 DEF Reads

LEMMA NewScene ==
    ASSUME NEW st \in ParseRec, NEW W, Reads(st, W)
    PROVE  /\ StartNewScene(st) \in ParseRec /\ Reads(StartNewScene(st), W)
           /\ Covers(TextOf(StartNewScene(st).done), W) /\ StartNewScene(st).front = st.front
  BY Flushes, Closes DEF StartNewScene

Further(st, i) == [st EXCEPT !.para = Append(@, i)]

LEMMA WordRead ==
    ASSUME NEW st \in ParseRec, NEW W, Reads(st, W), NEW i \in Nat, Below(W, {i}), NEW new, new = Further(st, i)
    PROVE  new \in ParseRec /\ Reads(new, W \cup {i}) /\ new.front = st.front
  <1>1. PICK para \in Seq(Nat) : para = st.para
    BY ParseFields
  <1>2. PICK next : next = Append(para, i)
    OBVIOUS
  <1>3. next \in Seq(Nat) /\ Range(next) = Range(para) \cup {i}
    <2>1. /\ next \in Seq(Nat) /\ Len(next) = Len(para) + 1 /\ next[Len(para) + 1] = i
          /\ \A k \in 1..Len(para) : next[k] = para[k]
      BY <1>2, AppendProperties
    <2>2. DOMAIN next = 1..(Len(para) + 1) /\ DOMAIN para = 1..Len(para) /\ Len(para) \in Nat
      BY <2>1
    <2>3. \A k \in 1..(Len(para) + 1) : k \in 1..Len(para) \/ k = Len(para) + 1
      BY <2>2
    <2>4. Range(next) = Range(para) \cup {i}
      <3>1. ASSUME NEW x \in Range(next) PROVE x \in Range(para) \cup {i}
        <4>1. PICK k \in 1..(Len(para) + 1) : x = next[k]
          BY <2>2 DEF Range
        <4>2. QED BY <2>1, <2>2, <2>3, <4>1 DEF Range
      <3>2. ASSUME NEW x \in Range(para) PROVE x \in Range(next)
        <4>1. PICK k \in 1..Len(para) : x = para[k]
          BY <2>2 DEF Range
        <4>2. k \in DOMAIN next /\ x = next[k]
          BY <2>1, <2>2, <4>1
        <4>3. QED BY <4>2 DEF Range
      <3>3. i \in Range(next)
        <4>1. Len(para) + 1 \in DOMAIN next
          BY <2>2
        <4>2. QED BY <2>1, <4>1 DEF Range
      <3>4. QED BY <3>1, <3>2, <3>3
    <2>5. QED BY <2>1, <2>4
  <1>4. new = Parse(st.done, st.scene, next, st.front)
    <2>1. new = [st EXCEPT !.para = next]
      BY <1>1, <1>2 DEF Further
    <2>2. QED BY <2>1, ParseAgain, Zenon
  <1>5. Has(new, st.done, st.scene, next, st.front)
    BY <1>4, ParseHas
  <1>6. new \in ParseRec
    <2>1. ParseOK(st.done, st.scene, next, st.front)
      BY <1>3, ParseFields DEF ParseOK
    <2>2. QED BY <1>4, <2>1, ParseType
  <1>7. PICK S, R, T : Parts(st, S, R, T, W)
    BY DEF Reads
  <1>8. Parts(new, S, R, T \cup {i}, W \cup {i})
    <2>1. Below(S, T \cup {i}) /\ Below(R, T \cup {i}) /\ S \cup R \cup (T \cup {i}) = W \cup {i}
      BY <1>7 DEF Parts, Below
    <2>2. Range(new.para) = T \cup {i} /\ new.done = st.done /\ new.scene = st.scene
      BY <1>1, <1>3, <1>5, <1>7 DEF Has, Parts
    <2>3. QED BY <1>7, <2>1, <2>2 DEF Parts
  <1>9. QED BY <1>5, <1>6, <1>8 DEF Has, Reads

\* The lines among the first n that a chapter with a heading is read from.
HeadingBy(n) == \E h \in 1..n : lines[h] = "heading"
BodyTo(n) == {i \in 1..n : lines[i] \in Words /\ HeadingBy(i - 1)}
ReadTo(st, n) == st \in ParseRec /\ Reads(st, BodyTo(n)) /\ (st.front <=> ~HeadingBy(n))

LEMMA StartReads ==
    ASSUME NEW front \in BOOLEAN, NEW st, st = Parse(<<>>, <<>>, <<>>, front)
    PROVE  st \in ParseRec /\ Reads(st, {}) /\ st.front = front
  <1>1. Has(st, <<>>, <<>>, <<>>, front)
    BY ParseHas
  <1>2. st \in ParseRec
    <2>1. <<>> \in Seq(Seq(ParaRec)) /\ <<>> \in Seq(ParaRec) /\ <<>> \in Seq(Nat)
      OBVIOUS
    <2>2. ParseOK(<<>>, <<>>, <<>>, front)
      BY <2>1 DEF ParseOK
    <2>3. QED BY <2>2, ParseType
  <1>3. MapOf(LinesOf, <<>>) = <<>> /\ TextOf(<<>>) = <<>>
    <2>1. MapOf(LinesOf, <<>>) = <<>> /\ TextsOf(<<>>) = <<>>
      BY DEF MapOf, TextsOf, MapsOf
    <2>2. QED BY <2>1, StrungNone DEF TextOf
  <1>4. Parts(st, {}, {}, {}, {})
    <2>1. Covers(TextOf(st.done), {}) /\ Covers(MapOf(LinesOf, st.scene), {})
      BY <1>1, <1>3, CoversNone DEF Has
    <2>2. Range(st.para) = {}
      BY <1>1 DEF Has, Range
    <2>3. Below({}, {}) /\ {} \cup {} \cup {} = {}
      BY DEF Below
    <2>4. QED BY <2>1, <2>2, <2>3 DEF Parts
  <1>5. QED BY <1>1, <1>2, <1>4 DEF Has, Reads

LEMMA BodyToFurther ==
    ASSUME NEW n \in Nat, NEW m \in Nat, n = m + 1
    PROVE  /\ HeadingBy(n) <=> HeadingBy(m) \/ lines[n] = "heading"
           /\ lines[n] \in Words /\ HeadingBy(m) => BodyTo(n) = BodyTo(m) \cup {n}
           /\ lines[n] \notin Words \/ ~HeadingBy(m) => BodyTo(n) = BodyTo(m)
           /\ ~HeadingBy(m) => BodyTo(m) = {}
           /\ Below(BodyTo(m), {n})
  <1>1. \A i : i \in 1..n <=> i \in 1..m \/ i = n
    OBVIOUS
  <1>2. n - 1 = m /\ n \notin 1..m
    OBVIOUS
  <1>3. HeadingBy(n) <=> HeadingBy(m) \/ lines[n] = "heading"
    BY <1>1 DEF HeadingBy
  <1>4. \A i \in 1..n : i \in BodyTo(n) <=> lines[i] \in Words /\ HeadingBy(i - 1)
    BY DEF BodyTo
  <1>5. \A i \in 1..m : i \in BodyTo(m) <=> lines[i] \in Words /\ HeadingBy(i - 1)
    BY DEF BodyTo
  <1>6. BodyTo(n) \subseteq 1..n /\ BodyTo(m) \subseteq 1..m
    BY DEF BodyTo
  <1>7. n \in BodyTo(n) <=> lines[n] \in Words /\ HeadingBy(m)
    BY <1>1, <1>2, <1>4
  <1>8. \A i \in 1..m : i \in BodyTo(n) <=> i \in BodyTo(m)
    BY <1>1, <1>4, <1>5
  <1>9. lines[n] \in Words /\ HeadingBy(m) => BodyTo(n) = BodyTo(m) \cup {n}
    BY <1>1, <1>6, <1>7, <1>8
  <1>10. lines[n] \notin Words \/ ~HeadingBy(m) => BodyTo(n) = BodyTo(m)
    BY <1>1, <1>6, <1>7, <1>8
  <1>11. ~HeadingBy(m) => BodyTo(m) = {}
    <2>1. ASSUME NEW i \in BodyTo(m) PROVE HeadingBy(m)
      <3>1. i \in 1..m /\ HeadingBy(i - 1)
        BY <2>1 DEF BodyTo
      <3>2. PICK h \in 1..(i - 1) : lines[h] = "heading"
        BY <3>1 DEF HeadingBy
      <3>3. h \in 1..m
        BY <3>1, <3>2
      <3>4. QED BY <3>2, <3>3 DEF HeadingBy
    <2>2. QED BY <2>1
  <1>12. Below(BodyTo(m), {n})
    BY <1>6 DEF Below
  <1>13. QED BY <1>3, <1>9, <1>10, <1>11, <1>12

LEMMA LineRead ==
    ASSUME NEW n \in Nat, NEW m \in Nat, n = m + 1, lines[n] \in LineKinds, NEW st, ReadTo(st, m)
    PROVE  ReadTo(ParseLine(st, n), n)
  <1>1. st \in ParseRec /\ Reads(st, BodyTo(m)) /\ (st.front <=> ~HeadingBy(m))
    BY DEF ReadTo
  <1>2. PICK new : new = ParseLine(st, n)
    OBVIOUS
  <1>3. CASE lines[n] = "heading"
    <2>1. HeadingBy(n) /\ BodyTo(n) = BodyTo(m) /\ (~HeadingBy(m) => BodyTo(m) = {})
      BY <1>3, BodyToFurther DEF Words
    <2>2. CASE st.front
      <3>1. new = ParseStart(FALSE)
        BY <1>2, <1>3, <2>2, Zenon DEF ParseLine
      <3>2. new = Parse(<<>>, <<>>, <<>>, FALSE)
        BY <3>1, Zenon DEF ParseStart, Parse
      <3>3. new \in ParseRec /\ Reads(new, {}) /\ new.front = FALSE
        BY <3>2, StartReads
      <3>4. QED BY <1>1, <1>2, <2>1, <2>2, <3>3 DEF ReadTo
    <2>3. CASE ~st.front
      <3>1. new = StartNewScene(st)
        BY <1>2, <1>3, <2>3, Zenon DEF ParseLine
      <3>2. new \in ParseRec /\ Reads(new, BodyTo(m)) /\ new.front = st.front
        BY <1>1, <3>1, NewScene
      <3>3. QED BY <1>2, <2>1, <2>3, <3>2 DEF ReadTo
    <2>4. QED BY <2>2, <2>3
  <1>4. CASE lines[n] # "heading" /\ st.front
    <2>1. ~HeadingBy(n) /\ BodyTo(n) = BodyTo(m)
      BY <1>1, <1>4, BodyToFurther
    <2>2. new = st
      BY <1>2, <1>4, Zenon DEF ParseLine
    <2>3. QED BY <1>1, <1>2, <1>4, <2>1, <2>2 DEF ReadTo
  <1>5. CASE lines[n] = "break" /\ ~st.front
    <2>1. HeadingBy(n) /\ BodyTo(n) = BodyTo(m)
      BY <1>1, <1>5, BodyToFurther DEF Words
    <2>2. new = StartNewScene(st)
      <3>1. lines[n] # "heading"
        BY <1>5
      <3>2. QED BY <1>2, <1>5, <3>1, Zenon DEF ParseLine
    <2>3. new \in ParseRec /\ Reads(new, BodyTo(m)) /\ new.front = st.front
      BY <1>1, <2>2, NewScene
    <2>4. QED BY <1>2, <1>5, <2>1, <2>3 DEF ReadTo
  <1>6. CASE lines[n] = "blank" /\ ~st.front
    <2>1. HeadingBy(n) /\ BodyTo(n) = BodyTo(m)
      BY <1>1, <1>6, BodyToFurther DEF Words
    <2>2. new = FlushParagraph(st)
      <3>1. lines[n] # "heading" /\ lines[n] # "break"
        BY <1>6
      <3>2. QED BY <1>2, <1>6, <3>1, Zenon DEF ParseLine
    <2>3. new \in ParseRec /\ Reads(new, BodyTo(m)) /\ new.front = st.front
      BY <1>1, <2>2, Flushes
    <2>4. QED BY <1>2, <1>6, <2>1, <2>3 DEF ReadTo
  <1>7. CASE lines[n] \in Words /\ ~st.front
    <2>1. HeadingBy(n) /\ BodyTo(n) = BodyTo(m) \cup {n} /\ Below(BodyTo(m), {n})
      BY <1>1, <1>7, BodyToFurther
    <2>2. new = Further(st, n)
      <3>1. lines[n] # "heading" /\ lines[n] # "break" /\ lines[n] # "blank"
        BY <1>7 DEF Words
      <3>2. QED BY <1>2, <1>7, <3>1, Zenon DEF ParseLine, Further
    <2>3. new \in ParseRec /\ Reads(new, BodyTo(m) \cup {n}) /\ new.front = st.front
      BY <1>1, <2>1, <2>2, WordRead
    <2>4. QED BY <1>2, <1>7, <2>1, <2>3 DEF ReadTo
  <1>8. QED BY <1>3, <1>4, <1>5, <1>6, <1>7 DEF LineKinds, Words

\* Functions built by steps that keep what is good.
Good(f, N, X, good) == f \in [0..N -> X] /\ \A n \in 0..N : <<n, f[n]>> \in good

LEMMA Builds ==
    ASSUME NEW N \in Nat, NEW X, NEW x \in X, NEW good, <<0, x>> \in good, NEW step,
           \A n \in 1..N, s \in X : <<n - 1, s>> \in good => step[<<n, s>>] \in X /\ <<n, step[<<n, s>>]>> \in good
    PROVE  \E f : Iterates(f, N, x, step) /\ Good(f, N, X, good)
  <1>1. PICK sure : sure = [a \in (1..N) \X X |-> IF <<a[1] - 1, a[2]>> \in good THEN step[a] ELSE x]
    OBVIOUS
  <1>2. ASSUME NEW n \in 1..N, NEW s \in X
        PROVE  /\ <<n - 1, s>> \in good => sure[<<n, s>>] = step[<<n, s>>]
               /\ sure[<<n, s>>] \in X
    <2>1. sure[<<n, s>>] = IF <<n - 1, s>> \in good THEN step[<<n, s>>] ELSE x
      BY <1>1
    <2>2. QED BY <2>1
  <1>3. sure \in [(1..N) \X X -> X]
    <2>1. \A a \in (1..N) \X X : sure[a] \in X
      <3> SUFFICES ASSUME NEW a \in (1..N) \X X PROVE sure[a] \in X
        OBVIOUS
      <3>1. PICK n \in 1..N, s \in X : a = <<n, s>>
        OBVIOUS
      <3>2. QED BY <1>2, <3>1
    <2>2. QED BY <1>1, <2>1
  <1>4. PICK f \in [0..N -> X] : Iterates(f, N, x, sure)
    BY <1>3, Iterated
  <1>5. f[0] = x /\ \A n \in 1..N : f[n] = sure[<<n, f[n - 1]>>]
    BY <1>4 DEF Iterates
  <1>6. \A n \in 1..N : n - 1 \in 0..N /\ n \in 0..N /\ f[n - 1] \in X
    BY <1>4
  <1> DEFINE S == {n \in 0..N : <<n, f[n]>> \in good}
  <1>7. ASSUME NEW n \in 1..N, n - 1 \in S PROVE n \in S
    <2>1. <<n - 1, f[n - 1]>> \in good /\ f[n - 1] \in X
      BY <1>6, <1>7
    <2>2. f[n] = step[<<n, f[n - 1]>>]
      BY <1>2, <1>5, <2>1
    <2>3. <<n, f[n]>> \in good
      BY <2>1, <2>2
    <2>4. QED BY <1>6, <2>3
  <1>8. \A n \in 0..N : n \in S
    <2>1. 0 \in S
      BY <1>5
    <2> HIDE DEF S
    <2>2. QED BY <1>7, <2>1, UpTo, Zenon
  <1>9. ASSUME NEW n \in 0..N PROVE f[n] = IF n = 0 THEN x ELSE step[<<n, f[n - 1]>>]
    <2>1. CASE n = 0
      BY <1>5, <2>1
    <2>2. CASE n # 0
      <3>1. n \in 1..N
        BY <2>2
      <3>2. <<n - 1, f[n - 1]>> \in good /\ f[n - 1] \in X
        BY <1>6, <1>8, <3>1
      <3>3. f[n] = step[<<n, f[n - 1]>>]
        BY <1>2, <1>5, <3>1, <3>2
      <3>4. QED BY <2>2, <3>3
    <2>3. QED BY <2>1, <2>2
  <1>10. DOMAIN f = 0..N
    BY <1>4
  <1>11. f = [n \in 0..N |-> IF n = 0 THEN x ELSE step[<<n, f[n - 1]>>]]
    BY <1>4, <1>9, <1>10
  <1>12. \A n \in 0..N : <<n, f[n]>> \in good
    BY <1>8
  <1>13. QED BY <1>4, <1>11, <1>12 DEF Iterates, Good

ParsedBy(f) == f = [n \in 0..Len(lines) |-> IF n = 0 THEN ParseStart(TRUE) ELSE ParseLine(f[n - 1], n)]

LEMMA StartRead == ReadTo(ParseStart(TRUE), 0)
  <1>1. PICK st : st = ParseStart(TRUE)
    BY Zenon
  <1>2. st = Parse(<<>>, <<>>, <<>>, TRUE)
    BY <1>1, Zenon DEF ParseStart, Parse
  <1>3. st \in ParseRec /\ Reads(st, {}) /\ st.front = TRUE
    BY <1>2, StartReads
  <1>4. BodyTo(0) = {} /\ ~HeadingBy(0)
    BY DEF BodyTo, HeadingBy
  <1>5. QED BY <1>1, <1>3, <1>4 DEF ReadTo

LEMMA ParsedExists ==
    ASSUME lines \in Seq(LineKinds)
    PROVE  \E f : ParsedBy(f)
  <1>1. PICK N \in Nat : N = Len(lines) /\ \A n \in 1..N : lines[n] \in LineKinds
    OBVIOUS
  <1>2. PICK step : step = [a \in (1..N) \X ParseRec |-> ParseLine(a[2], a[1])]
    OBVIOUS
  <1>3. PICK good : good = {a \in (0..N) \X ParseRec : ReadTo(a[2], a[1])}
    OBVIOUS
  <1>4. PICK x : x = ParseStart(TRUE)
    OBVIOUS
  <1>5. x \in ParseRec /\ <<0, x>> \in good
    <2>1. ReadTo(x, 0)
      BY <1>4, StartRead, Zenon
    <2>2. x \in ParseRec
      BY <2>1 DEF ReadTo
    <2>3. <<0, x>> \in (0..N) \X ParseRec
      BY <2>2
    <2>4. QED BY <1>3, <2>1, <2>2, <2>3
  <1>6. ASSUME NEW n \in 1..N, NEW s \in ParseRec PROVE step[<<n, s>>] = ParseLine(s, n)
    BY <1>2
  <1>7. ASSUME NEW n \in 1..N, NEW s \in ParseRec, <<n - 1, s>> \in good
        PROVE  step[<<n, s>>] \in ParseRec /\ <<n, step[<<n, s>>]>> \in good
    <2>1. PICK m \in Nat : m = n - 1
      OBVIOUS
    <2>2. ReadTo(s, m) /\ n = m + 1 /\ n \in Nat /\ n \in 0..N
      BY <1>3, <1>7, <2>1
    <2>3. ReadTo(ParseLine(s, n), n)
      BY <1>1, <2>2, LineRead
    <2>4. ParseLine(s, n) \in ParseRec
      BY <2>3 DEF ReadTo
    <2>5. QED BY <1>3, <1>6, <2>2, <2>3, <2>4
  <1>8. \A n \in 1..N, s \in ParseRec :
            <<n - 1, s>> \in good => step[<<n, s>>] \in ParseRec /\ <<n, step[<<n, s>>]>> \in good
    BY <1>7
  <1>9. PICK f : Iterates(f, N, x, step) /\ Good(f, N, ParseRec, good)
    BY <1>5, <1>8, Builds
  <1>10. \A n \in 0..N : f[n] \in ParseRec
    BY <1>9 DEF Good
  <1>11. ASSUME NEW n \in 0..N PROVE f[n] = IF n = 0 THEN ParseStart(TRUE) ELSE ParseLine(f[n - 1], n)
    <2>1. f[n] = IF n = 0 THEN x ELSE step[<<n, f[n - 1]>>]
      BY <1>9 DEF Iterates
    <2>2. CASE n = 0
      BY <1>4, <2>1, <2>2
    <2>3. CASE n # 0
      <3>1. n \in 1..N /\ f[n - 1] \in ParseRec
        BY <1>10, <2>3
      <3>2. step[<<n, f[n - 1]>>] = ParseLine(f[n - 1], n)
        BY <1>6, <3>1
      <3>3. QED BY <2>1, <2>3, <3>2
    <2>4. QED BY <2>2, <2>3
  <1>12. f \in [0..N -> ParseRec]
    BY <1>9 DEF Good
  <1>13. f = [n \in 0..N |-> IF n = 0 THEN ParseStart(TRUE) ELSE ParseLine(f[n - 1], n)]
    BY <1>11, <1>12
  <1>14. QED BY <1>1, <1>13, Zenon DEF ParsedBy

LEMMA ParsedReads ==
    ASSUME lines \in Seq(LineKinds)
    PROVE  ReadTo(Parsed, Len(lines))
  <1>1. PICK N \in Nat : N = Len(lines) /\ \A n \in 1..N : lines[n] \in LineKinds
    OBVIOUS
  <1>2. PICK f : f = CHOOSE g : ParsedBy(g)
    OBVIOUS
  <1>3. ParsedBy(f)
    BY <1>2, ParsedExists
  <1>4. Parsed = f[N]
    BY <1>1, <1>2, Zenon DEF Parsed, ParsedBy
  <1>5. ASSUME NEW n \in 0..N PROVE f[n] = IF n = 0 THEN ParseStart(TRUE) ELSE ParseLine(f[n - 1], n)
    BY <1>1, <1>3, Zenon DEF ParsedBy
  <1> DEFINE S == {n \in 0..N : ReadTo(f[n], n)}
  <1>6. 0 \in S
    <2>1. 0 \in 0..N
      OBVIOUS
    <2>2. f[0] = ParseStart(TRUE)
      BY <1>5, <2>1
    <2>3. QED BY <2>1, <2>2, StartRead
  <1>7. ASSUME NEW n \in 1..N, n - 1 \in S PROVE n \in S
    <2>1. n \in 0..N /\ n # 0 /\ n \in Nat
      OBVIOUS
    <2>2. PICK m \in Nat : m = n - 1
      OBVIOUS
    <2>3. f[n] = ParseLine(f[m], n)
      BY <1>5, <2>1, <2>2
    <2>4. n = m + 1 /\ ReadTo(f[m], m)
      BY <1>7, <2>2
    <2>5. ReadTo(f[n], n)
      BY <1>1, <2>1, <2>3, <2>4, LineRead
    <2>6. QED BY <2>1, <2>5
  <1>8. \A n \in 0..N : n \in S
    <2> HIDE DEF S
    <2>1. QED BY <1>6, <1>7, UpTo, Zenon
  <1>9. QED BY <1>1, <1>4, <1>8

\* A chapter without a heading: each line that is not blank, by itself.
Filled(n) == {i \in 1..n : lines[i] # "blank"}
Whole(q, n) == q \in Seq(ParaRec) /\ Covers(MapOf(LinesOf, q), Filled(n))
Alone(q, n) == IF lines[n] = "blank" THEN q ELSE Append(q, Para(<<n>>, n - 1))
WholeBy(f) == f = [n \in 0..Len(lines) |-> IF n = 0 THEN <<>> ELSE Alone(f[n - 1], n)]

LEMMA WholeStart == Whole(<<>>, 0)
  <1>1. MapOf(LinesOf, <<>>) = <<>> /\ Filled(0) = {} /\ <<>> \in Seq(ParaRec)
    BY DEF MapOf, Filled
  <1>2. QED BY <1>1, CoversNone DEF Whole

LEMMA WholeFurther ==
    ASSUME NEW n \in Nat, NEW m \in Nat, n = m + 1, NEW q, Whole(q, m)
    PROVE  Whole(Alone(q, n), n)
  <1>1. \A i : i \in 1..n <=> i \in 1..m \/ i = n
    OBVIOUS
  <1>2. CASE lines[n] = "blank"
    <2>1. Filled(n) = Filled(m)
      BY <1>1, <1>2 DEF Filled
    <2>2. Alone(q, n) = q
      BY <1>2 DEF Alone
    <2>3. QED BY <2>1, <2>2 DEF Whole
  <1>3. CASE lines[n] # "blank"
    <2>1. PICK p, old, one, D : p = Para(<<n>>, n - 1) /\ old = q /\ one = <<p>> /\ D = {n}
      OBVIOUS
    <2> old \in Seq(ParaRec) /\ D \in SUBSET Nat
      BY <2>1 DEF Whole
    <2>2. p \in ParaRec /\ p.of = <<n>>
      <3>1. <<n>> \in Seq(Nat) /\ n - 1 \in Nat
        OBVIOUS
      <3>2. QED BY <2>1, <3>1, ParaOf
    <2>3. Alone(q, n) = Append(old, p)
      BY <1>3, <2>1 DEF Alone
    <2>4. Append(old, p) = old \o one /\ Append(old, p) \in Seq(ParaRec)
      BY <2>1, <2>2, AppendIsConcat, AppendProperties
    <2>5. MapOf(LinesOf, one) = <<D>>
      <3>1. LinesOf[p] = D
        BY <2>1, <2>2, LinesAt DEF Range
      <3>2. DOMAIN one = {1} /\ one[1] = p
        BY <2>1
      <3>3. MapOf(LinesOf, one) = [k \in {1} |-> D]
        BY <3>1, <3>2 DEF MapOf
      <3>4. QED BY <3>3
    <2>6. one \in Seq(ParaRec)
      BY <2>1, <2>2
    <2>7. MapOf(LinesOf, Append(old, p)) = MapOf(LinesOf, old) \o <<D>>
      BY <2>4, <2>5, <2>6, LinesConcat
    <2>8. Filled(n) = Filled(m) \cup D /\ Below(Filled(m), D)
      <3>1. \A i \in 1..m : i < n
        OBVIOUS
      <3>2. Filled(m) \subseteq 1..m
        BY DEF Filled
      <3>3. Filled(n) = Filled(m) \cup D
        BY <1>1, <1>3, <2>1 DEF Filled
      <3>4. QED BY <2>1, <3>1, <3>2, <3>3 DEF Below
    <2>9. Covers(MapOf(LinesOf, old), Filled(m)) /\ MapOf(LinesOf, old) \in Seq(SUBSET Nat)
      BY <2>1, LinesType DEF Whole
    <2>10. Covers(<<D>>, D) /\ <<D>> \in Seq(SUBSET Nat)
      <3>1. Covers(<<D>>, D)
        BY CoversOne
      <3>2. QED BY <3>1
    <2>11. Covers(MapOf(LinesOf, Append(old, p)), Filled(n))
      <3>1. PICK a, b : a = MapOf(LinesOf, old) /\ b = <<D>>
        OBVIOUS
      <3>2. a \in Seq(SUBSET Nat) /\ b \in Seq(SUBSET Nat) /\ Covers(a, Filled(m)) /\ Covers(b, D)
        BY <2>9, <2>10, <3>1
      <3>3. Covers(a \o b, Filled(m) \cup D)
        BY <2>8, <3>2, CoversConcat
      <3>4. QED BY <2>7, <2>8, <3>1, <3>3
    <2>12. QED BY <2>3, <2>4, <2>11 DEF Whole
  <1>4. QED BY <1>2, <1>3

LEMMA WholeExists ==
    ASSUME lines \in Seq(LineKinds)
    PROVE  \E f : WholeBy(f)
  <1>1. PICK N \in Nat : N = Len(lines)
    OBVIOUS
  <1>2. PICK X : X = Seq(ParaRec)
    OBVIOUS
  <1>3. PICK step : step = [a \in (1..N) \X X |-> Alone(a[2], a[1])]
    OBVIOUS
  <1>4. ASSUME NEW n \in 1..N, NEW s \in X PROVE step[<<n, s>>] = Alone(s, n)
    BY <1>3
  <1>5. ASSUME NEW n \in 1..N, NEW s \in X PROVE Alone(s, n) \in X
    <2>1. <<n>> \in Seq(Nat) /\ n - 1 \in Nat
      OBVIOUS
    <2>2. Para(<<n>>, n - 1) \in ParaRec
      BY <2>1, ParaOf
    <2>3. QED BY <1>2, <2>2, AppendProperties DEF Alone
  <1>6. step \in [(1..N) \X X -> X]
    <2>1. \A a \in (1..N) \X X : step[a] \in X
      <3> SUFFICES ASSUME NEW a \in (1..N) \X X PROVE step[a] \in X
        OBVIOUS
      <3>1. PICK n \in 1..N, s \in X : a = <<n, s>>
        OBVIOUS
      <3>2. QED BY <1>4, <1>5, <3>1
    <2>2. QED BY <1>3, <2>1
  <1>7. <<>> \in X
    BY <1>2
  <1>8. PICK f \in [0..N -> X] : Iterates(f, N, <<>>, step)
    BY <1>6, <1>7, Iterated
  <1>9. ASSUME NEW n \in 0..N PROVE f[n] = IF n = 0 THEN <<>> ELSE Alone(f[n - 1], n)
    <2>1. f[n] = IF n = 0 THEN <<>> ELSE step[<<n, f[n - 1]>>]
      BY <1>8 DEF Iterates
    <2>2. CASE n = 0
      BY <2>1, <2>2
    <2>3. CASE n # 0
      <3>1. n \in 1..N /\ f[n - 1] \in X
        BY <1>8, <2>3
      <3>2. step[<<n, f[n - 1]>>] = Alone(f[n - 1], n)
        BY <1>4, <3>1
      <3>3. QED BY <2>1, <2>3, <3>2
    <2>4. QED BY <2>2, <2>3
  <1>10. f = [n \in 0..N |-> IF n = 0 THEN <<>> ELSE Alone(f[n - 1], n)]
    BY <1>8, <1>9
  <1>11. QED BY <1>1, <1>10, Zenon DEF WholeBy

LEMMA WholeReads ==
    ASSUME lines \in Seq(LineKinds)
    PROVE  Whole(WholeText, Len(lines))
  <1>1. PICK N \in Nat : N = Len(lines)
    OBVIOUS
  <1>2. PICK f : f = CHOOSE g : WholeBy(g)
    OBVIOUS
  <1>3. WholeBy(f)
    BY <1>2, WholeExists
  <1>4. WholeText = f[N]
    <2>1. \A g : WholeBy(g) <=>
             g = [n \in 0..Len(lines) |-> IF n = 0 THEN <<>> ELSE IF lines[n] = "blank" THEN g[n - 1]
                                          ELSE Append(g[n - 1], Para(<<n>>, n - 1))]
      BY Zenon DEF WholeBy, Alone
    <2>2. QED BY <1>1, <1>2, <2>1, Zenon DEF WholeText, WholeBy, Alone
  <1>5. ASSUME NEW n \in 0..N PROVE f[n] = IF n = 0 THEN <<>> ELSE Alone(f[n - 1], n)
    BY <1>1, <1>3, Zenon DEF WholeBy
  <1> DEFINE S == {n \in 0..N : Whole(f[n], n)}
  <1>6. 0 \in S
    <2>1. 0 \in 0..N
      OBVIOUS
    <2>2. f[0] = <<>>
      BY <1>5, <2>1
    <2>3. QED BY <2>1, <2>2, WholeStart
  <1>7. ASSUME NEW n \in 1..N, n - 1 \in S PROVE n \in S
    <2>1. n \in 0..N /\ n # 0 /\ n \in Nat
      OBVIOUS
    <2>2. PICK m \in Nat : m = n - 1
      OBVIOUS
    <2>3. f[n] = Alone(f[m], n)
      BY <1>5, <2>1, <2>2
    <2>4. n = m + 1 /\ Whole(f[m], m)
      BY <1>7, <2>2
    <2>5. Whole(f[n], n)
      BY <2>1, <2>3, <2>4, WholeFurther
    <2>6. QED BY <2>1, <2>5
  <1>8. \A n \in 0..N : n \in S
    <2> HIDE DEF S
    <2>1. QED BY <1>6, <1>7, UpTo, Zenon
  <1>9. QED BY <1>1, <1>4, <1>8

\* One scene is its own text.
LEMMA OneScene ==
    ASSUME NEW q \in Seq(ParaRec), NEW ss, ss = <<q>>
    PROVE  ss \in Seq(Seq(ParaRec)) /\ TextOf(ss) = MapOf(LinesOf, q)
  <1>1. ss \in Seq(Seq(ParaRec)) /\ Len(ss) = 1 /\ ss[1] = q
    OBVIOUS
  <1>2. PICK t : t = MapOf(LinesOf, q)
    OBVIOUS
  <1>3. t \in Seq(SUBSET Nat)
    BY <1>2, LinesType
  <1>4. PICK ts : ts = TextsOf(ss)
    OBVIOUS
  <1>5. ts \in Seq(Seq(SUBSET Nat)) /\ Len(ts) = 1 /\ ts[1] = t
    <2>1. /\ ts \in Seq(Seq(SUBSET Nat)) /\ Len(ts) = Len(ss)
          /\ \A s \in 1..Len(ss) : ts[s] = MapOf(LinesOf, ss[s])
      BY <1>1, <1>4, TextsType
    <2>2. QED BY <1>1, <1>2, <2>1
  <1>6. PICK g \in [0..Len(ts) -> Seq(SUBSET Nat)] : StrungUp(g, ts)
    BY <1>5, Flattened
  <1>7. FlattenSeq(ts) = <<>> \o t
    <2>1. /\ g[0] = <<>> /\ FlattenSeq(ts) = g[1]
          /\ \A n \in 1..1 : g[n] = g[n - 1] \o ts[n]
      BY <1>5, <1>6 DEF StrungUp
    <2>2. 1 \in 1..1 /\ 1 - 1 = 0
      OBVIOUS
    <2>3. g[1] = g[0] \o ts[1]
      BY <2>1, <2>2
    <2>4. QED BY <1>5, <2>1, <2>3
  <1>8. QED BY <1>1, <1>2, <1>3, <1>4, <1>7, ConcatEmptySeq DEF TextOf

LEMMA Structured ==
    ASSUME lines \in Seq(LineKinds)
    PROVE  StructureOf \in Seq(Seq(ParaRec)) /\ Covers(TextOf(StructureOf), Body)
  <1>1. PICK N \in Nat : N = Len(lines) /\ DOMAIN lines = 1..N /\ \A n \in 1..N : lines[n] \in LineKinds
    OBVIOUS
  <1>2. PICK st : st = Parsed
    OBVIOUS
  <1>3. st \in ParseRec /\ Reads(st, BodyTo(N)) /\ (st.front <=> ~HeadingBy(N))
    BY <1>1, <1>2, ParsedReads DEF ReadTo
  <1>4. CASE st.front
    <2>1. PICK q : q = WholeText
      OBVIOUS
    <2>2. q \in Seq(ParaRec) /\ Covers(MapOf(LinesOf, q), Filled(N))
      BY <1>1, <2>1, WholeReads DEF Whole
    <2>3. PICK ss : ss = StructureOf
      OBVIOUS
    <2>4. ss = <<q>>
      BY <1>2, <1>4, <2>1, <2>3 DEF StructureOf
    <2>5. ss \in Seq(Seq(ParaRec)) /\ TextOf(ss) = MapOf(LinesOf, q)
      BY <2>2, <2>4, OneScene
    <2>6. Body = Filled(N)
      <3>1. ~\E i \in DOMAIN lines : lines[i] = "heading"
        BY <1>1, <1>3, <1>4 DEF HeadingBy
      <3>2. QED BY <1>1, <3>1 DEF Body, Filled
    <2>7. QED BY <2>2, <2>3, <2>5, <2>6
  <1>5. CASE ~st.front
    <2>1. StructureOf = StartNewScene(st).done
      BY <1>2, <1>5 DEF StructureOf
    <2>2. StartNewScene(st) \in ParseRec /\ Covers(TextOf(StartNewScene(st).done), BodyTo(N))
      BY <1>3, NewScene
    <2>3. StructureOf \in Seq(Seq(ParaRec))
      BY <2>1, <2>2, ParseFields
    <2>4. PICK H : H = {i \in 1..N : lines[i] = "heading"}
      OBVIOUS
    <2>5. H \in SUBSET Nat /\ H # {}
      BY <1>3, <1>5, <2>4 DEF HeadingBy
    <2>6. PICK h \in H : \A i \in H : h <= i
      BY <2>5, Least
    <2>7. h \in 1..N /\ lines[h] = "heading" /\ \A k \in 1..(h - 1) : lines[k] # "heading"
      BY <2>4, <2>6
    <2>8. PICK first : first = FirstHeading
      OBVIOUS
    <2>9. first \in DOMAIN lines /\ lines[first] = "heading" /\ \A k \in 1..(first - 1) : lines[k] # "heading"
      BY <1>1, <2>7, <2>8 DEF FirstHeading
    <2>10. Body = {i \in 1..N : i > first /\ lines[i] \in Words}
      BY <1>1, <2>8, <2>9 DEF Body
    <2>11. ASSUME NEW i \in 1..N PROVE HeadingBy(i - 1) <=> i > first
      <3>1. first \in 1..N
        BY <1>1, <2>9
      <3>2. CASE i > first
        <4>1. first \in 1..(i - 1)
          BY <3>1, <3>2
        <4>2. QED BY <2>9, <3>2, <4>1 DEF HeadingBy
      <3>3. CASE ~(i > first)
        <4>1. \A k \in 1..(i - 1) : k \in 1..(first - 1)
          BY <3>1, <3>3
        <4>2. QED BY <2>9, <3>3, <4>1 DEF HeadingBy
      <3>4. QED BY <3>2, <3>3
    <2>12. BodyTo(N) = Body
      BY <2>10, <2>11 DEF BodyTo
    <2>13. QED BY <2>1, <2>2, <2>3, <2>12
  <1>6. QED BY <1>4, <1>5

-----------------------------------------------------------------------------
(* The stages after Agent 1 touch what a paragraph says about itself, never    *)
(* the lines it was made of.                                                   *)

SameLines(ts, ss) ==
    /\ ts = [s \in DOMAIN ss |-> ts[s]]
    /\ \A s \in DOMAIN ss : /\ ts[s] = [p \in DOMAIN ss[s] |-> ts[s][p]]
                            /\ \A p \in DOMAIN ss[s] : ts[s][p] \in ParaRec /\ ts[s][p].of = ss[s][p].of

LEMMA LinesKept ==
    ASSUME NEW ss \in Seq(Seq(ParaRec)), NEW ts, SameLines(ts, ss)
    PROVE  ts \in Seq(Seq(ParaRec)) /\ TextsOf(ts) = TextsOf(ss)
  <1>1. PICK N \in Nat : N = Len(ss) /\ DOMAIN ss = 1..N /\ \A s \in 1..N : ss[s] \in Seq(ParaRec)
    OBVIOUS
  <1>2. ASSUME NEW s \in 1..N PROVE ts[s] \in Seq(ParaRec) /\ MapOf(LinesOf, ts[s]) = MapOf(LinesOf, ss[s])
    <2>1. PICK q, r : q = ss[s] /\ r = ts[s]
      OBVIOUS
    <2> q \in Seq(ParaRec)
      BY <1>1, <2>1
    <2>2. r = [p \in DOMAIN q |-> r[p]] /\ \A p \in DOMAIN q : r[p] \in ParaRec /\ r[p].of = q[p].of
      BY <1>1, <2>1 DEF SameLines
    <2>3. DOMAIN q = 1..Len(q) /\ Len(q) \in Nat
      OBVIOUS
    <2>4. r \in Seq(ParaRec) /\ DOMAIN r = DOMAIN q
      BY <2>2, <2>3
    <2>5. \A p \in DOMAIN q : q[p] \in ParaRec
      BY <2>3
    <2>6. \A p \in DOMAIN q : LinesOf[r[p]] = LinesOf[q[p]]
      BY <2>2, <2>5, LinesAt
    <2>7. MapOf(LinesOf, r) = MapOf(LinesOf, q)
      BY <2>4, <2>6 DEF MapOf
    <2>8. QED BY <2>1, <2>4, <2>7
  <1>3. ts = [s \in 1..N |-> ts[s]]
    BY <1>1 DEF SameLines
  <1>4. ts \in Seq(Seq(ParaRec)) /\ Len(ts) = N
    <2>1. PICK X : X = Seq(ParaRec)
      OBVIOUS
    <2>2. ts \in [1..N -> X]
      BY <1>2, <1>3, <2>1
    <2>3. ts \in Seq(X) /\ Len(ts) = N
      BY <2>2
    <2>4. QED BY <2>1, <2>3
  <1>5. PICK a, b : a = TextsOf(ts) /\ b = TextsOf(ss)
    OBVIOUS
  <1>6. a \in Seq(Seq(SUBSET Nat)) /\ Len(a) = N /\ \A s \in 1..N : a[s] = MapOf(LinesOf, ts[s])
    BY <1>4, <1>5, TextsType
  <1>7. b \in Seq(Seq(SUBSET Nat)) /\ Len(b) = N /\ \A s \in 1..N : b[s] = MapOf(LinesOf, ss[s])
    BY <1>1, <1>5, TextsType
  <1>8. \A s \in 1..N : a[s] = b[s]
    BY <1>2, <1>6, <1>7
  <1>9. a = b
    BY <1>6, <1>7, <1>8, SeqEqual
  <1>10. QED BY <1>4, <1>5, <1>9

\* What the bridge joins is the text of the scenes.
LEMMA JoinedIs ==
    ASSUME scenes \in Seq(Seq(ParaRec))
    PROVE  Joined = TextOf(scenes)
  <1>1. PICK q : q = FlattenSeq(scenes)
    OBVIOUS
  <1>2. q \in Seq(ParaRec)
    BY <1>1, StrungType
  <1>3. TextOf(scenes) = MapOf(LinesOf, q)
    BY <1>1, FlattenMaps, LinesMap DEF TextOf, TextsOf
  <1>4. \A p \in DOMAIN q : LinesOf[q[p]] = Range(q[p].of)
    <2>1. \A p \in DOMAIN q : q[p] \in ParaRec
      BY <1>2
    <2>2. QED BY <2>1, LinesAt
  <1>5. Joined = [p \in DOMAIN q |-> Range(q[p].of)]
    BY <1>1 DEF Joined
  <1>6. QED BY <1>3, <1>4, <1>5 DEF MapOf

StageSet == {"structure_parser", "character_attribution", "text_normalizer", "prosody_planner", "qa_validator"}

LEMMA StageNumbers ==
    /\ StageNo("structure_parser") = 1 /\ StageNo("character_attribution") = 2
    /\ StageNo("text_normalizer") = 3 /\ StageNo("prosody_planner") = 4 /\ StageNo("qa_validator") = 5
  <1>1. /\ Stages[1] = "structure_parser" /\ Stages[2] = "character_attribution"
        /\ Stages[3] = "text_normalizer" /\ Stages[4] = "prosody_planner" /\ Stages[5] = "qa_validator"
    BY DEF Stages
  <1>2. \A i \in 1..5 : i = 1 \/ i = 2 \/ i = 3 \/ i = 4 \/ i = 5
    OBVIOUS
  <1>3. ASSUME NEW s, NEW k \in 1..5, Stages[k] = s, \A i \in 1..5 : Stages[i] = s => i = k
        PROVE  StageNo(s) = k
    BY <1>3 DEF StageNo
  <1>4. \A i \in 1..5 : Stages[i] = "structure_parser" => i = 1
    BY <1>1, <1>2
  <1>5. \A i \in 1..5 : Stages[i] = "character_attribution" => i = 2
    BY <1>1, <1>2
  <1>6. \A i \in 1..5 : Stages[i] = "text_normalizer" => i = 3
    BY <1>1, <1>2
  <1>7. \A i \in 1..5 : Stages[i] = "prosody_planner" => i = 4
    BY <1>1, <1>2
  <1>8. \A i \in 1..5 : Stages[i] = "qa_validator" => i = 5
    BY <1>1, <1>2
  <1>9. QED BY <1>1, <1>3, <1>4, <1>5, <1>6, <1>7, <1>8

LEMMA NextStages ==
    /\ Later("structure_parser") = "character_attribution" /\ Later("character_attribution") = "text_normalizer"
    /\ Later("text_normalizer") = "prosody_planner" /\ Later("prosody_planner") = "qa_validator"
  <1>1. /\ Stages[1] = "structure_parser" /\ Stages[2] = "character_attribution"
        /\ Stages[3] = "text_normalizer" /\ Stages[4] = "prosody_planner" /\ Stages[5] = "qa_validator"
    BY DEF Stages
  <1>2. QED BY <1>1, StageNumbers DEF Later

\* The failed stages before stage number k are listed, each once and in order.
ListedTo(list, lost, k) ==
    /\ list \in Seq(StageSet) /\ Range(list) = lost
    /\ \A i \in DOMAIN list : StageNo(list[i]) < k
    /\ \A i, m \in DOMAIN list : i < m => StageNo(list[i]) < StageNo(list[m])

LEMMA StageNatural == \A s \in StageSet : StageNo(s) \in Nat
  BY StageNumbers DEF StageSet

LEMMA OneListed ==
    ASSUME NEW list, NEW lost, NEW stage \in StageSet, NEW k \in Nat, k = StageNo(stage), ListedTo(list, lost, k)
    PROVE  ListedTo(Append(list, stage), lost \cup {stage}, k + 1) /\ Append(list, stage) # <<>>
  <1>1. PICK more, old, N : more = Append(list, stage) /\ old = list /\ N = Len(old)
    OBVIOUS
  <1> old \in Seq(StageSet) /\ N \in Nat
    BY <1>1 DEF ListedTo
  <1>2. /\ more \in Seq(StageSet) /\ more # <<>> /\ Len(more) = N + 1 /\ more[N + 1] = stage
        /\ \A i \in 1..N : more[i] = old[i]
    BY <1>1, AppendProperties
  <1>3. DOMAIN more = 1..(N + 1) /\ DOMAIN old = 1..N
    BY <1>1, <1>2
  <1>4. \A i \in 1..(N + 1) : i \in 1..N \/ i = N + 1
    OBVIOUS
  <1>5. \A i \in 1..N : StageNo(old[i]) < k
    BY <1>1, <1>3 DEF ListedTo
  <1>6. \A i \in 1..N : StageNo(old[i]) \in Nat
    BY <1>1, <1>3, StageNatural
  <1>7. Range(more) = lost \cup {stage}
    <2>1. Range(old) = lost
      BY <1>1 DEF ListedTo
    <2>2. ASSUME NEW x \in Range(more) PROVE x \in lost \cup {stage}
      BY <1>2, <1>3, <1>4, <2>1 DEF Range
    <2>3. ASSUME NEW x \in lost PROVE x \in Range(more)
      <3>1. PICK i \in 1..N : x = old[i]
        BY <1>3, <2>1 DEF Range
      <3>2. i \in DOMAIN more /\ more[i] = x
        BY <1>2, <1>3, <3>1
      <3>3. QED BY <3>2 DEF Range
    <2>4. stage \in Range(more)
      <3>1. N + 1 \in DOMAIN more
        BY <1>3
      <3>2. QED BY <1>2, <3>1 DEF Range
    <2>5. QED BY <2>2, <2>3, <2>4
  <1>8. \A i \in 1..(N + 1) : StageNo(more[i]) < k + 1
    <2>1. ASSUME NEW i \in 1..N PROVE StageNo(more[i]) < k + 1
      <3>1. StageNo(old[i]) < k /\ StageNo(old[i]) \in Nat /\ more[i] = old[i]
        BY <1>2, <1>5, <1>6
      <3>2. QED BY <3>1
    <2>2. StageNo(more[N + 1]) < k + 1
      BY <1>2
    <2>3. QED BY <1>4, <2>1, <2>2
  <1>9. \A i, m \in 1..(N + 1) : i < m => StageNo(more[i]) < StageNo(more[m])
    <2> SUFFICES ASSUME NEW i \in 1..(N + 1), NEW m \in 1..(N + 1), i < m
                 PROVE  StageNo(more[i]) < StageNo(more[m])
      OBVIOUS
    <2>1. i \in 1..N
      OBVIOUS
    <2>2. CASE m = N + 1
      BY <1>2, <1>5, <2>1, <2>2
    <2>3. CASE m # N + 1
      <3>1. m \in 1..N
        BY <2>3
      <3>2. StageNo(old[i]) < StageNo(old[m])
        BY <1>1, <1>3, <2>1, <3>1 DEF ListedTo
      <3>3. QED BY <1>2, <2>1, <3>1, <3>2
    <2>4. QED BY <2>2, <2>3
  <1>10. QED BY <1>1, <1>2, <1>3, <1>7, <1>8, <1>9 DEF ListedTo

-----------------------------------------------------------------------------
(* The pipeline: what every stage leaves.                                      *)

Later4 == {"character_attribution", "text_normalizer", "prosody_planner", "qa_validator"}
ScenesInv == /\ lines \in Seq(LineKinds) /\ parsed \in Seq(Seq(ParaRec)) /\ scenes \in Seq(Seq(ParaRec))
             /\ TextsOf(scenes) = TextsOf(parsed)
             /\ agent \in Later4 => Covers(TextOf(parsed), Body)
StageInv == /\ agent \in StageSet \cup {"done"}
            /\ agent # "done" => /\ answer = NoAnswer /\ trace = [status |-> "running", qa |-> FALSE]
                                 /\ ListedTo(degraded, failed, StageNo(agent))
Outcome == /\ agent = "done" => DegradationSurfaced
           /\ answer.from = "agents" => Covers(answer.text, Body)
AgentInv == ScenesInv /\ StageInv /\ Outcome

LEMMA AgentStarts == AgentInit => AgentInv
  <1> SUFFICES ASSUME AgentInit PROVE AgentInv
    OBVIOUS
  <1>1. agent = "structure_parser" /\ agent \in StageSet /\ agent \notin Later4 /\ agent # "done"
    BY DEF AgentInit, Stages, StageSet, Later4
  <1>2. ScenesInv
    <2>1. lines \in Seq(LineKinds)
      BY AgentAssumption DEF AgentInit
    <2>2. parsed \in Seq(Seq(ParaRec)) /\ scenes \in Seq(Seq(ParaRec)) /\ scenes = parsed
      BY DEF AgentInit
    <2>3. QED BY <1>1, <2>1, <2>2 DEF ScenesInv
  <1>3. ListedTo(degraded, failed, StageNo(agent))
    <2>1. degraded = <<>> /\ failed = {}
      BY DEF AgentInit
    <2>2. degraded \in Seq(StageSet) /\ Range(degraded) = {} /\ DOMAIN degraded = {}
      BY <2>1 DEF Range
    <2>3. QED BY <2>1, <2>2 DEF ListedTo
  <1>4. answer = NoAnswer /\ trace = [status |-> "running", qa |-> FALSE]
    BY DEF AgentInit
  <1>5. answer.from # "agents"
    BY <1>4 DEF NoAnswer
  <1>6. QED BY <1>1, <1>2, <1>3, <1>4, <1>5 DEF AgentInv, StageInv, Outcome

LEMMA SameBody == UNCHANGED lines => Body' = Body
  BY DEF Body, FirstHeading

\* A step to the next stage that keeps or lists what failed.
StageOn(stage, next) == /\ agent = stage /\ agent' = next /\ stage \in StageSet /\ next \in StageSet
                        /\ StageNo(next) = StageNo(stage) + 1 /\ next # "done" /\ stage # "done"
                        /\ UNCHANGED <<answer, trace>>
                        /\ \/ UNCHANGED <<failed, degraded>>
                           \/ Degrade(stage)

LEMMA StageOnInv ==
    ASSUME StageInv, NEW stage, NEW next, StageOn(stage, next)
    PROVE  StageInv' /\ answer'.from # "agents" /\ agent' # "done"
  <1>1. PICK k \in Nat : k = StageNo(stage)
    BY StageNatural DEF StageOn
  <1>2. agent = stage /\ stage # "done" /\ ListedTo(degraded, failed, k) /\ answer' = NoAnswer
        /\ trace' = [status |-> "running", qa |-> FALSE]
    BY <1>1 DEF StageInv, StageOn
  <1>3. ListedTo(degraded', failed', k + 1)
    <2>1. CASE UNCHANGED <<failed, degraded>>
      <3>1. \A i \in DOMAIN degraded : StageNo(degraded[i]) < k + 1
        <4> SUFFICES ASSUME NEW i \in DOMAIN degraded PROVE StageNo(degraded[i]) < k + 1
          OBVIOUS
        <4>1. degraded[i] \in StageSet /\ StageNo(degraded[i]) < k
          BY <1>2 DEF ListedTo
        <4>2. StageNo(degraded[i]) \in Nat
          BY <4>1, StageNatural
        <4>3. QED BY <4>1, <4>2
      <3>2. QED BY <1>2, <2>1, <3>1 DEF ListedTo
    <2>2. CASE Degrade(stage)
      <3>1. degraded' = Append(degraded, stage) /\ failed' = failed \cup {stage} /\ stage \in StageSet
        BY <2>2 DEF Degrade, StageOn
      <3>2. QED BY <1>1, <1>2, <3>1, OneListed
    <2>3. QED BY <2>1, <2>2 DEF StageOn
  <1>4. agent' = next /\ next \in StageSet /\ next # "done" /\ StageNo(next) = k + 1
    BY <1>1 DEF StageOn
  <1>5. answer'.from # "agents"
    BY <1>2 DEF NoAnswer
  <1>6. QED BY <1>2, <1>3, <1>4, <1>5 DEF StageInv

\* The last step: from the basic preprocessing, or from the agents.
Basic == /\ agent' = "done" /\ answer'.from = "basic" /\ trace'.status = "failed" /\ trace'.qa = FALSE

LEMMA DoneBasic ==
    ASSUME StageInv, agent # "done", Basic,
           UNCHANGED <<failed, degraded>> \/ Degrade(agent)
    PROVE  StageInv' /\ Outcome'
  <1>1. PICK k \in Nat : k = StageNo(agent)
    BY StageNatural DEF StageInv
  <1>2. agent \in StageSet /\ ListedTo(degraded, failed, k)
    BY <1>1 DEF StageInv
  <1>3. ListedTo(degraded', failed', k) \/ ListedTo(degraded', failed', k + 1)
    <2>1. CASE UNCHANGED <<failed, degraded>>
      BY <1>2, <2>1
    <2>2. CASE Degrade(agent)
      <3>1. degraded' = Append(degraded, agent) /\ failed' = failed \cup {agent}
        BY <2>2 DEF Degrade
      <3>2. QED BY <1>1, <1>2, <3>1, OneListed
    <2>3. QED BY <2>1, <2>2
  <1>4. Range(degraded') = failed'
        /\ \A i, m \in DOMAIN degraded' : i < m => StageNo(degraded'[i]) < StageNo(degraded'[m])
    BY <1>3 DEF ListedTo
  <1>5. QED BY <1>4 DEF Basic, StageInv, Outcome, DegradationSurfaced

\* Scenes that a later stage leaves with the lines they had.
LEMMA ScenesOnward ==
    ASSUME ScenesInv, agent \in Later4, UNCHANGED <<lines, parsed>>,
           scenes' = scenes \/ scenes' = parsed \/ SameLines(scenes', scenes)
    PROVE  ScenesInv'
  <1>1. scenes' \in Seq(Seq(ParaRec)) /\ TextsOf(scenes') = TextsOf(parsed)
    <2>1. CASE scenes' = scenes \/ scenes' = parsed
      BY <2>1 DEF ScenesInv
    <2>2. CASE SameLines(scenes', scenes)
      BY <2>2, LinesKept DEF ScenesInv
    <2>3. QED BY <2>1, <2>2
  <1>2. Covers(TextOf(parsed'), Body')
    <2>1. Body' = Body
      BY SameBody
    <2>2. Covers(TextOf(parsed), Body) /\ parsed' = parsed
      BY DEF ScenesInv
    <2>3. QED BY <2>1, <2>2
  <1>3. QED BY <1>1, <1>2 DEF ScenesInv

LEMMA DoneAgents ==
    ASSUME ScenesInv, StageInv, agent = "qa_validator", NEW qa \in BOOLEAN, NEW list,
           Finish(qa, list), list = degraded', qa => checked',
           UNCHANGED <<failed, degraded>> \/ Degrade(agent)
    PROVE  StageInv' /\ Outcome'
  <1>1. agent \in StageSet /\ agent # "done" /\ agent \in Later4 /\ StageNo(agent) = 5
    BY StageNumbers DEF StageSet, Later4
  <1>2. ListedTo(degraded, failed, 5)
    BY <1>1 DEF StageInv
  <1>3. ListedTo(degraded', failed', 5) \/ ListedTo(degraded', failed', 5 + 1)
    <2>1. CASE UNCHANGED <<failed, degraded>>
      BY <1>2, <2>1
    <2>2. CASE Degrade(agent)
      <3>1. degraded' = Append(degraded, agent) /\ failed' = failed \cup {agent}
        BY <2>2 DEF Degrade
      <3>2. QED BY <1>1, <1>2, <3>1, OneListed
    <2>3. QED BY <2>1, <2>2
  <1>4. Range(degraded') = failed'
        /\ \A i, m \in DOMAIN degraded' : i < m => StageNo(degraded'[i]) < StageNo(degraded'[m])
    BY <1>3 DEF ListedTo
  <1>5. /\ agent' = "done" /\ answer'.from = "agents" /\ answer'.text = Joined /\ trace'.qa = qa
        /\ trace'.status \in {"completed", "completed_degraded"}
        /\ trace'.status = "completed" => list = <<>>
    BY DEF Finish
  <1>6. trace'.status = "completed" => failed' = {}
    <2>1. ASSUME list = <<>> PROVE failed' = {}
      <3>1. degraded' = <<>>
        BY <2>1
      <3>2. QED BY <1>4, <3>1 DEF Range
    <2>2. QED BY <1>5, <2>1
  <1>7. Covers(answer'.text, Body')
    <2>1. Joined = TextOf(parsed)
      BY JoinedIs DEF ScenesInv, TextOf
    <2>2. Body' = Body
      BY SameBody DEF Finish
    <2>3. Covers(TextOf(parsed), Body)
      BY <1>1 DEF ScenesInv
    <2>4. QED BY <1>5, <2>1, <2>2, <2>3
  <1>8. QED BY <1>4, <1>5, <1>6, <1>7 DEF StageInv, Outcome, DegradationSurfaced

LEMMA FallsBack ==
    ASSUME AgentInv, agent # "done", BasicFallback(agent)
    PROVE  AgentInv'
  <1>1. answer' = [from |-> "basic", text |-> [i \in 1..Len(lines) |-> {i}]]
        /\ trace' = [trace EXCEPT !.status = "failed"] /\ trace = [status |-> "running", qa |-> FALSE]
    BY DEF AgentInv, StageInv, BasicFallback
  <1>2. Basic
    BY <1>1 DEF BasicFallback, Basic
  <1>3. Degrade(agent)
    BY DEF BasicFallback, Degrade
  <1>4. StageInv' /\ Outcome'
    BY <1>2, <1>3, DoneBasic DEF AgentInv
  <1>5. ScenesInv'
    BY DEF AgentInv, ScenesInv, BasicFallback, Later4
  <1>6. QED BY <1>4, <1>5 DEF AgentInv

LEMMA AgentStep == AgentInv /\ [AgentNext]_agentVars => AgentInv'
  <1> SUFFICES ASSUME AgentInv, [AgentNext]_agentVars PROVE AgentInv'
    OBVIOUS
  <1>1. CASE ParserFails
    <2>1. agent # "done" /\ BasicFallback(agent)
      BY <1>1 DEF ParserFails
    <2>2. QED BY <2>1, FallsBack
  <1>2. CASE NormalizerFails
    <2>1. agent # "done" /\ BasicFallback(agent)
      BY <1>2 DEF NormalizerFails
    <2>2. QED BY <2>1, FallsBack
  <1>3. CASE ParserRuns
    <2>1. StageOn("structure_parser", "character_attribution")
      BY <1>3, NextStages, StageNumbers DEF ParserRuns, StageOn, StageSet
    <2>2. StageInv' /\ answer'.from # "agents" /\ agent' # "done"
      BY <2>1, StageOnInv DEF AgentInv
    <2>3. ScenesInv'
      <3>1. StructureOf \in Seq(Seq(ParaRec)) /\ Covers(TextOf(StructureOf), Body) /\ Body' = Body
        BY <1>3, Structured, SameBody DEF AgentInv, ScenesInv, ParserRuns
      <3>2. parsed' = StructureOf /\ scenes' = StructureOf /\ lines' = lines
        BY <1>3 DEF ParserRuns
      <3>3. QED BY <3>1, <3>2 DEF AgentInv, ScenesInv
    <2>4. QED BY <2>2, <2>3 DEF AgentInv, Outcome
  <1>4. CASE Attribution
    <2>1. StageOn("character_attribution", "text_normalizer")
      BY <1>4, NextStages, StageNumbers DEF Attribution, Keep, StageOn, StageSet
    <2>2. SameLines(scenes', scenes)
      <3>1. \E named \in SUBSET (0..Len(lines)) : scenes' = OnParas(LAMBDA p : [p EXCEPT !.speaker =
                                      IF p.index \in named THEN "Name" ELSE Hint(p)])
        BY <1>4, Zenon DEF Attribution
      <3>2. PICK named \in SUBSET (0..Len(lines)) : scenes' = [s \in DOMAIN scenes |-> [p \in DOMAIN scenes[s] |->
                         [scenes[s][p] EXCEPT !.speaker =
                             IF scenes[s][p].index \in named THEN "Name" ELSE Hint(scenes[s][p])]]]
        BY <3>1, Zenon DEF OnParas
      <3>3. ASSUME NEW s \in DOMAIN scenes, NEW p \in DOMAIN scenes[s]
            PROVE  scenes'[s][p] \in ParaRec /\ scenes'[s][p].of = scenes[s][p].of
        <4>1. PICK old : old = scenes[s][p]
          OBVIOUS
        <4>2. old \in ParaRec
          BY <3>3, <4>1 DEF AgentInv, ScenesInv
        <4>3. PICK who \in {"Name", "Unknown", "Narrator"} : scenes'[s][p] = [old EXCEPT !.speaker = who]
          BY <3>2, <3>3, <4>1 DEF Hint
        <4>4. QED BY <4>1, <4>2, <4>3 DEF ParaRec
      <3>4. scenes' = [s \in DOMAIN scenes |-> scenes'[s]]
            /\ \A s \in DOMAIN scenes : scenes'[s] = [p \in DOMAIN scenes[s] |-> scenes'[s][p]]
        BY <3>2
      <3>5. QED BY <3>3, <3>4 DEF SameLines
    <2>3. ScenesInv'
      BY <1>4, <2>2, ScenesOnward DEF AgentInv, Attribution, Keep, Later4
    <2>4. QED BY <2>1, <2>3, StageOnInv DEF AgentInv, Outcome
  <1>5. CASE AttributionFails
    <2>1. StageOn("character_attribution", "text_normalizer")
      BY <1>5, NextStages, StageNumbers DEF AttributionFails, Keep, StageOn, StageSet
    <2>2. ScenesInv'
      BY <1>5, ScenesOnward DEF AgentInv, AttributionFails, Keep, Later4
    <2>3. QED BY <2>1, <2>2, StageOnInv DEF AgentInv, Outcome
  <1>6. CASE NormalizeText
    <2>1. StageOn("text_normalizer", "prosody_planner")
      BY <1>6, NextStages, StageNumbers DEF NormalizeText, Keep, StageOn, StageSet
    <2>2. ScenesInv'
      BY <1>6, ScenesOnward DEF AgentInv, NormalizeText, Keep, Later4
    <2>3. QED BY <2>1, <2>2, StageOnInv DEF AgentInv, Outcome
  <1>7. CASE PlanProsody
    <2>0. /\ agent = "prosody_planner" /\ agent' = Later(agent)
          /\ UNCHANGED <<lines, parsed, trace, answer, failed, degraded>>
      <3>1. agent = "prosody_planner" /\ agent' = Later(agent) /\ UNCHANGED <<failed, degraded>> /\ Keep
        BY <1>7, Zenon DEF PlanProsody
      <3>2. QED BY <3>1 DEF Keep
    <2>1. StageOn("prosody_planner", "qa_validator")
      BY <2>0, NextStages, StageNumbers DEF StageOn, StageSet
    <2>2. SameLines(scenes', scenes)
      <3>1. PICK silent \in SUBSET UNION {{<<s, b>> : b \in Batches(s)} : s \in DOMAIN scenes},
                 skipped \in SUBSET {p.index : p \in UNION {Range(scenes[s]) : s \in DOMAIN scenes}} :
               scenes' = [s \in DOMAIN scenes |-> [p \in DOMAIN scenes[s] |->
                  IF <<s, (p - 1) \div Batch>> \in silent \/ scenes[s][p].index \in skipped
                  THEN [scenes[s][p] EXCEPT !.tags = "rules"]
                  ELSE [scenes[s][p] EXCEPT !.tags = "model", !.cut = Long(scenes[s][p])]]]
        BY <1>7, Zenon DEF PlanProsody
      <3>2. ASSUME NEW s \in DOMAIN scenes, NEW p \in DOMAIN scenes[s]
            PROVE  scenes'[s][p] \in ParaRec /\ scenes'[s][p].of = scenes[s][p].of
        <4>1. PICK old : old = scenes[s][p]
          OBVIOUS
        <4>2. old \in ParaRec
          BY <3>2, <4>1 DEF AgentInv, ScenesInv
        <4>3. scenes'[s][p] = [old EXCEPT !.tags = "rules"]
              \/ scenes'[s][p] = [old EXCEPT !.tags = "model", !.cut = Long(old)]
          BY <3>1, <3>2, <4>1, Zenon
        <4>4. Long(old) \in BOOLEAN
          BY DEF Long
        <4>5. QED BY <4>1, <4>2, <4>3, <4>4 DEF ParaRec
      <3>3. scenes' = [s \in DOMAIN scenes |-> scenes'[s]]
            /\ \A s \in DOMAIN scenes : scenes'[s] = [p \in DOMAIN scenes[s] |-> scenes'[s][p]]
        BY <3>1, Zenon
      <3>4. QED BY <3>2, <3>3 DEF SameLines
    <2>3. ScenesInv'
      BY <2>0, <2>2, ScenesOnward DEF AgentInv, Later4
    <2>4. QED BY <2>1, <2>3, StageOnInv DEF AgentInv, Outcome
  <1>8. CASE ProsodyFails
    <2>1. StageOn("prosody_planner", "qa_validator")
      BY <1>8, NextStages, StageNumbers DEF ProsodyFails, Keep, StageOn, StageSet
    <2>2. ScenesInv'
      BY <1>8, ScenesOnward DEF AgentInv, ProsodyFails, Keep, Later4
    <2>3. QED BY <2>1, <2>2, StageOnInv DEF AgentInv, Outcome
  <1>9. CASE Validate
    <2>1. agent = "qa_validator" /\ UNCHANGED <<failed, degraded>>
      BY <1>9 DEF Validate
    <2>2. \E ok \in BOOLEAN : checked' = ok /\ Finish(ok, degraded)
      BY <1>9, Zenon DEF Validate
    <2>3. PICK ok \in BOOLEAN : checked' = ok /\ Finish(ok, degraded)
      BY <2>2
    <2>4. StageInv' /\ Outcome'
      BY <2>1, <2>3, DoneAgents DEF AgentInv
    <2>5. ScenesInv'
      BY <2>3 DEF AgentInv, ScenesInv, Finish, Later4
    <2>6. QED BY <2>4, <2>5 DEF AgentInv
  <1>10. CASE ValidatorFails
    <2>1. agent = "qa_validator" /\ Degrade(agent) /\ Finish(FALSE, Append(degraded, agent))
      BY <1>10, Zenon DEF ValidatorFails
    <2>2. StageInv' /\ Outcome'
      <3>1. Append(degraded, agent) = degraded'
        BY <2>1 DEF Degrade
      <3>2. QED BY <2>1, <3>1, DoneAgents DEF AgentInv
    <2>3. ScenesInv'
      BY <2>1 DEF AgentInv, ScenesInv, Finish, Later4
    <2>4. QED BY <2>2, <2>3 DEF AgentInv
  <1>11. CASE Unexpected
    <2>1. /\ agent # "done" /\ agent' = "done" /\ UNCHANGED <<lines, parsed, scenes, failed, degraded>>
          /\ trace' = [trace EXCEPT !.status = "failed"]
          /\ answer' = [from |-> "basic", text |-> [i \in 1..Len(lines) |-> {i}]]
      BY <1>11 DEF Unexpected
    <2>2. trace = [status |-> "running", qa |-> FALSE]
      BY <2>1 DEF AgentInv, StageInv
    <2>3. Basic
      BY <2>1, <2>2 DEF Basic
    <2>4. StageInv' /\ Outcome'
      BY <2>1, <2>3, DoneBasic DEF AgentInv
    <2>5. ScenesInv'
      BY <2>1 DEF AgentInv, ScenesInv, Later4
    <2>6. QED BY <2>4, <2>5 DEF AgentInv
  <1>12. CASE UNCHANGED agentVars
    <2>1. UNCHANGED <<lines, agent, parsed, scenes, failed, degraded, trace, checked, answer>>
      BY <1>12 DEF agentVars
    <2>2. Body' = Body
      BY <2>1, SameBody
    <2>3. QED BY <2>1, <2>2 DEF AgentInv, ScenesInv, StageInv, Outcome, DegradationSurfaced
  <1>13. QED BY <1>1, <1>2, <1>3, <1>4, <1>5, <1>6, <1>7, <1>8, <1>9, <1>10, <1>11, <1>12 DEF AgentNext

\* Whatever the stages do: every line of the body is read once and in order,
\* and the trace says which stages failed and what was checked
\* (integration.py, structure_parser.py, prosody_planner.py).
THEOREM ReadingIsHonest == AgentSpec => []ReadingHonest
  <1>1. AgentInv => ReadingHonest
    <2> SUFFICES ASSUME AgentInv PROVE ReadingHonest
      OBVIOUS
    <2>1. DegradationSurfaced
      BY DEF AgentInv, Outcome, DegradationSurfaced
    <2>2. BodyKept
      BY DEF AgentInv, Outcome, BodyKept, Covers, Below
    <2>3. QED BY <2>1, <2>2 DEF ReadingHonest
  <1>2. QED BY <1>1, AgentStarts, AgentStep, PTL DEF AgentSpec

-----------------------------------------------------------------------------
(* Scripts.  What the tags of a text t ask for at its kth token, and what a    *)
(* reader r speaks.                                                            *)

LastTag(t, k, T) == LET found == {i \in 1..(k - 1) : t[i] \in T}
                    IN IF found = {} THEN 0 ELSE CHOOSE i \in found : \A j \in found : j <= i
SpeakerIn(t, k) == LET i == LastTag(t, k, SpeakerTags) IN IF i = 0 THEN "narrator" ELSE NameIn(t[i])
MoodIn(t, k, T, default) == LET i == LastTag(t, k, T)
                            IN IF i = 0 \/ i < LastTag(t, k, SpeakerTags) THEN default ELSE t[i]
SpokenBy(r) == IF r = "tagged" THEN {"word", "other"} ELSE {"word", "other", "pause?", "break"} \cup Emotions
SilentTo(r) == IF r = "tagged" THEN {"pause", "break"} ELSE {"pause"}
PausesTo(t, r, k) == Cardinality({j \in 1..k : t[j] \in SilentTo(r)})
PausesOf(ss, i) == Cardinality({j \in 1..i : ss[j].type \in {"pause", "break"}})
WordsOf(ss) == FlattenSeq([i \in DOMAIN ss |-> ss[i].words])

LEMMA AsWritten ==
    /\ \A k : SpeakerAt(k) = SpeakerIn(script, k)
    /\ \A k, T, d : MoodAt(k, T, d) = MoodIn(script, k, T, d)
    /\ SpokenTokens = SpokenBy(reader) /\ \A k : PausesBefore(k) = PausesTo(script, reader, k)
    /\ \A i : PausesIn(i) = PausesOf(segs, i)
    /\ WordsSaid = WordsOf(segs)
  <1>1. \A k : SpeakerAt(k) = SpeakerIn(script, k)
    BY Zenon DEF SpeakerAt, SpeakerIn, LastBefore, LastTag
  <1>2. \A k, T, d : MoodAt(k, T, d) = MoodIn(script, k, T, d)
    BY Zenon DEF MoodAt, MoodIn, LastBefore, LastTag
  <1>3. SpokenTokens = SpokenBy(reader)
    BY DEF SpokenTokens, SpokenBy
  <1>4. \A k : PausesBefore(k) = PausesTo(script, reader, k)
    BY Zenon DEF PausesBefore, PausesTo, Silent, SilentTo
  <1>5. \A i : PausesIn(i) = PausesOf(segs, i)
    BY Zenon DEF PausesIn, PausesOf
  <1>6. WordsSaid = WordsOf(segs)
    BY Zenon DEF WordsSaid, WordsOf
  <1>7. QED BY <1>1, <1>2, <1>3, <1>4, <1>5, <1>6

LEMMA LastTagIs ==
    ASSUME NEW t, NEW k \in Nat \ {0}, NEW T
    PROVE  /\ LastTag(t, k, T) \in 0..(k - 1)
           /\ LastTag(t, k, T) # 0 => t[LastTag(t, k, T)] \in T
           /\ \A i \in 1..(k - 1) : t[i] \in T => i <= LastTag(t, k, T)
  <1>1. PICK F : F = {i \in 1..(k - 1) : t[i] \in T}
    OBVIOUS
  <1>2. PICK last : last = LastTag(t, k, T)
    OBVIOUS
  <1>3. CASE F = {}
    <2>1. last = 0
      BY <1>1, <1>2, <1>3, Zenon DEF LastTag
    <2>2. QED BY <1>1, <1>2, <1>3, <2>1
  <1>4. CASE F # {}
    <2>1. last = CHOOSE i \in F : \A j \in F : j <= i
      BY <1>1, <1>2, <1>4, Zenon DEF LastTag
    <2>2. PICK M : M = {m \in Nat : \A j \in F : j <= m}
      OBVIOUS
    <2>3. k \in M /\ M \in SUBSET Nat
      BY <1>1, <2>2
    <2>4. PICK m \in M : \A n \in M : m <= n
      BY <2>3, Least
    <2>5. m \in F
      <3>1. PICK j \in F : TRUE
        BY <1>4
      <3>2. m \in Nat /\ j <= m /\ j \in Nat \ {0} /\ \A i \in F : i <= m
        BY <1>1, <2>2, <3>1
      <3>3. CASE m \notin F
        <4>1. m - 1 \in Nat
          BY <3>2
        <4>2. \A i \in F : i <= m - 1
          BY <1>1, <3>2, <3>3
        <4>3. m - 1 \in M
          BY <2>2, <4>1, <4>2
        <4>4. QED BY <2>4, <3>2, <4>3
      <3>4. QED BY <3>3
    <2>6. \A j \in F : j <= m
      BY <2>2
    <2>7. last \in F /\ \A j \in F : j <= last
      BY <2>1, <2>5, <2>6
    <2>8. QED BY <1>1, <1>2, <2>7
  <1>5. QED BY <1>3, <1>4

\* One token on.
LEMMA LastTagFurther ==
    ASSUME NEW t, NEW k \in Nat \ {0}, NEW T
    PROVE  LastTag(t, k + 1, T) = IF t[k] \in T THEN k ELSE LastTag(t, k, T)
  <1>1. PICK a, b : a = LastTag(t, k, T) /\ b = LastTag(t, k + 1, T)
    OBVIOUS
  <1>2. a \in 0..(k - 1) /\ (a # 0 => t[a] \in T) /\ \A i \in 1..(k - 1) : t[i] \in T => i <= a
    BY <1>1, LastTagIs
  <1>3. b \in 0..k /\ (b # 0 => t[b] \in T) /\ \A i \in 1..k : t[i] \in T => i <= b
    <2>1. PICK n \in Nat \ {0} : n = k + 1
      OBVIOUS
    <2>2. b \in 0..(n - 1) /\ (b # 0 => t[b] \in T) /\ \A i \in 1..(n - 1) : t[i] \in T => i <= b
      BY <1>1, <2>1, LastTagIs
    <2>3. QED BY <2>1, <2>2
  <1>4. CASE t[k] \in T
    <2>1. k <= b
      BY <1>3, <1>4
    <2>2. b = k
      BY <1>3, <2>1
    <2>3. QED BY <1>1, <1>4, <2>2
  <1>5. CASE t[k] \notin T
    <2>1. b # k /\ b \in 0..(k - 1)
      BY <1>3, <1>5
    <2>2. b <= a
      BY <1>2, <1>3, <2>1
    <2>3. a <= b
      BY <1>2, <1>3
    <2>4. QED BY <1>1, <1>2, <1>5, <2>1, <2>2, <2>3
  <1>6. QED BY <1>4, <1>5

LEMMA Starting ==
    ASSUME NEW t
    PROVE  /\ SpeakerIn(t, 1) = "narrator"
           /\ MoodIn(t, 1, Emotions, "none") = "none" /\ MoodIn(t, 1, Rates, "normal") = "normal"
  <1>1. \A T : LastTag(t, 1, T) = 0
    <2> SUFFICES ASSUME NEW T PROVE LastTag(t, 1, T) = 0
      OBVIOUS
    <2>1. LastTag(t, 1, T) \in 0..(1 - 1)
      BY LastTagIs
    <2>2. QED BY <2>1
  <1>2. QED BY <1>1 DEF SpeakerIn, MoodIn

LEMMA SpeakerFurther ==
    ASSUME NEW t, NEW k \in Nat \ {0}
    PROVE  SpeakerIn(t, k + 1) = IF t[k] \in SpeakerTags THEN NameIn(t[k]) ELSE SpeakerIn(t, k)
  <1>1. LastTag(t, k + 1, SpeakerTags) = IF t[k] \in SpeakerTags THEN k ELSE LastTag(t, k, SpeakerTags)
    BY LastTagFurther
  <1>2. CASE t[k] \in SpeakerTags
    BY <1>1, <1>2 DEF SpeakerIn
  <1>3. CASE t[k] \notin SpeakerTags
    BY <1>1, <1>3 DEF SpeakerIn
  <1>4. QED BY <1>2, <1>3

LEMMA MoodFurther ==
    ASSUME NEW t, NEW k \in Nat \ {0}, NEW T, NEW d
    PROVE  /\ t[k] \in SpeakerTags /\ t[k] \notin T => MoodIn(t, k + 1, T, d) = d
           /\ t[k] \in T /\ t[k] \notin SpeakerTags => MoodIn(t, k + 1, T, d) = t[k]
           /\ t[k] \notin T /\ t[k] \notin SpeakerTags => MoodIn(t, k + 1, T, d) = MoodIn(t, k, T, d)
  <1>1. PICK a, b, c, e : /\ a = LastTag(t, k, T) /\ b = LastTag(t, k + 1, T)
                          /\ c = LastTag(t, k, SpeakerTags) /\ e = LastTag(t, k + 1, SpeakerTags)
    OBVIOUS
  <1>2. b = IF t[k] \in T THEN k ELSE a
    BY <1>1, LastTagFurther
  <1>3. e = IF t[k] \in SpeakerTags THEN k ELSE c
    BY <1>1, LastTagFurther
  <1>4. a \in 0..(k - 1) /\ c \in 0..(k - 1)
    BY <1>1, LastTagIs
  <1>5. MoodIn(t, k + 1, T, d) = IF b = 0 \/ b < e THEN d ELSE t[b]
    BY <1>1 DEF MoodIn
  <1>6. MoodIn(t, k, T, d) = IF a = 0 \/ a < c THEN d ELSE t[a]
    BY <1>1 DEF MoodIn
  <1>7. ASSUME t[k] \in SpeakerTags, t[k] \notin T PROVE MoodIn(t, k + 1, T, d) = d
    BY <1>2, <1>3, <1>4, <1>5, <1>7
  <1>8. ASSUME t[k] \in T, t[k] \notin SpeakerTags PROVE MoodIn(t, k + 1, T, d) = t[k]
    BY <1>2, <1>3, <1>4, <1>5, <1>8
  <1>9. ASSUME t[k] \notin T, t[k] \notin SpeakerTags PROVE MoodIn(t, k + 1, T, d) = MoodIn(t, k, T, d)
    BY <1>2, <1>3, <1>5, <1>6, <1>9
  <1>10. QED BY <1>7, <1>8, <1>9

\* Counting one further.
LEMMA CountedFurther ==
    ASSUME NEW n \in Nat, NEW A, NEW B, A \subseteq 1..n
    PROVE  /\ Cardinality(A) \in Nat
           /\ B = A \cup {n + 1} => Cardinality(B) = Cardinality(A) + 1
  <1>1. IsFiniteSet(A)
    <2>1. IsFiniteSet(1..n)
      BY FS_Interval
    <2>2. QED BY <2>1, FS_Subset
  <1>2. Cardinality(A) \in Nat
    BY <1>1, FS_CardinalityType
  <1>3. n + 1 \notin A
    OBVIOUS
  <1>4. QED BY <1>1, <1>2, <1>3, FS_AddElement

LEMMA PausesFurther ==
    ASSUME NEW t, NEW r, NEW n \in Nat
    PROVE  /\ PausesTo(t, r, n) \in Nat
           /\ PausesTo(t, r, n + 1) = IF t[n + 1] \in SilentTo(r) THEN PausesTo(t, r, n) + 1 ELSE PausesTo(t, r, n)
  <1>1. PICK A, B : A = {j \in 1..n : t[j] \in SilentTo(r)} /\ B = {j \in 1..(n + 1) : t[j] \in SilentTo(r)}
    OBVIOUS
  <1>2. PausesTo(t, r, n) = Cardinality(A) /\ PausesTo(t, r, n + 1) = Cardinality(B) /\ A \subseteq 1..n
    BY <1>1 DEF PausesTo
  <1>3. B = IF t[n + 1] \in SilentTo(r) THEN A \cup {n + 1} ELSE A
    BY <1>1
  <1>4. QED BY <1>2, <1>3, CountedFurther

\* ... and the same of segments, with the ones before the last alike.
LEMMA SilencesFurther ==
    ASSUME NEW ss, NEW ts, NEW n \in Nat, \A j \in 1..n : ts[j].type = ss[j].type
    PROVE  /\ PausesOf(ss, n) \in Nat /\ PausesOf(ts, n) = PausesOf(ss, n)
           /\ PausesOf(ts, n + 1) = IF ts[n + 1].type \in {"pause", "break"} THEN PausesOf(ss, n) + 1 ELSE PausesOf(ss, n)
  <1>1. PICK A, B, C : /\ A = {j \in 1..n : ss[j].type \in {"pause", "break"}}
                       /\ B = {j \in 1..(n + 1) : ts[j].type \in {"pause", "break"}}
                       /\ C = {j \in 1..n : ts[j].type \in {"pause", "break"}}
    OBVIOUS
  <1>2. /\ PausesOf(ss, n) = Cardinality(A) /\ PausesOf(ts, n + 1) = Cardinality(B)
        /\ PausesOf(ts, n) = Cardinality(C) /\ A \subseteq 1..n
    BY <1>1 DEF PausesOf
  <1>3. C = A
    BY <1>1
  <1>4. B = IF ts[n + 1].type \in {"pause", "break"} THEN A \cup {n + 1} ELSE A
    BY <1>1
  <1>5. QED BY <1>2, <1>3, <1>4, CountedFurther

MoodRec == [speaker : {"narrator", "Ann", "Bob"}, emotion : Emotions \cup {"none"},
            rate : Rates \cup {"normal"}, emphasis : BOOLEAN]
SpanTypes == {"text", "speaker_change", "pause", "break", "gap", "double_gap"}
SpanRec == [type : SpanTypes, words : Seq(Nat), mood : MoodRec]
Wordings(ss) == [i \in DOMAIN ss |-> ss[i].words]

LEMMA SegFields ==
    ASSUME NEW s \in SpanRec
    PROVE  s.words \in Seq(Nat) /\ s.mood \in MoodRec
  BY DEF SpanRec

Longer(s, q) == [s EXCEPT !.words = @ \o q]

LEMMA LongerIs ==
    ASSUME NEW s \in SpanRec, NEW q \in Seq(Nat)
    PROVE  /\ Longer(s, q) \in SpanRec /\ Longer(s, q).words = s.words \o q
           /\ Longer(s, q).mood = s.mood /\ Longer(s, q).type = s.type
  <1>1. PICK w : w = s.words
    OBVIOUS
  <1>2. w \in Seq(Nat)
    BY <1>1, SegFields
  <1>3. PICK v : v = w \o q
    OBVIOUS
  <1>4. v \in Seq(Nat)
    BY <1>2, <1>3, ConcatProperties
  <1>5. Longer(s, q) = [s EXCEPT !.words = v]
    BY <1>1, <1>3 DEF Longer
  <1>6. QED BY <1>1, <1>3, <1>4, <1>5 DEF SpanRec

LEMMA WordingsAre ==
    ASSUME NEW ss \in Seq(SpanRec)
    PROVE  /\ Wordings(ss) \in Seq(Seq(Nat)) /\ Len(Wordings(ss)) = Len(ss)
           /\ \A i \in 1..Len(ss) : Wordings(ss)[i] = ss[i].words
           /\ WordsOf(ss) = FlattenSeq(Wordings(ss)) /\ WordsOf(ss) \in Seq(Nat)
  <1>1. PICK N \in Nat : N = Len(ss) /\ DOMAIN ss = 1..N /\ \A i \in 1..N : ss[i] \in SpanRec
    OBVIOUS
  <1>2. \A i \in 1..N : ss[i].words \in Seq(Nat)
    BY <1>1, SegFields
  <1>3. PICK ws : ws = Wordings(ss)
    OBVIOUS
  <1>4. ws = [i \in 1..N |-> ss[i].words]
    BY <1>1, <1>3 DEF Wordings
  <1>5. ws \in Seq(Seq(Nat)) /\ Len(ws) = N
    BY <1>2, <1>4
  <1>6. FlattenSeq(ws) \in Seq(Nat)
    BY <1>5, StrungType
  <1>7. WordsOf(ss) = FlattenSeq(ws)
    BY <1>3, Zenon DEF WordsOf, Wordings
  <1>8. QED BY <1>1, <1>3, <1>4, <1>5, <1>6, <1>7

LEMMA NoWords == WordsOf(<<>>) = <<>>
  <1>1. Wordings(<<>>) = <<>>
    BY DEF Wordings
  <1>2. WordsOf(<<>>) = FlattenSeq(Wordings(<<>>))
    BY Zenon DEF WordsOf, Wordings
  <1>3. QED BY <1>1, <1>2, StrungNone

LEMMA SegAppended ==
    ASSUME NEW ss \in Seq(SpanRec), NEW s \in SpanRec
    PROVE  /\ Append(ss, s) \in Seq(SpanRec) /\ Len(Append(ss, s)) = Len(ss) + 1
           /\ \A i \in 1..Len(ss) : Append(ss, s)[i] = ss[i]
           /\ Append(ss, s)[Len(ss) + 1] = s
           /\ WordsOf(Append(ss, s)) = WordsOf(ss) \o s.words
  <1>1. PICK N \in Nat : N = Len(ss)
    OBVIOUS
  <1>2. PICK ts : ts = Append(ss, s)
    OBVIOUS
  <1>3. ts \in Seq(SpanRec) /\ Len(ts) = N + 1 /\ (\A i \in 1..N : ts[i] = ss[i]) /\ ts[N + 1] = s
    BY <1>1, <1>2, AppendProperties
  <1>4. PICK ws, vs : ws = Wordings(ss) /\ vs = Wordings(ts)
    OBVIOUS
  <1>5. Len(ws) = N /\ \A i \in 1..N : ws[i] = ss[i].words
    BY <1>1, <1>4, WordingsAre
  <1>6. Len(vs) = N + 1 /\ \A i \in 1..(N + 1) : vs[i] = ts[i].words
    BY <1>3, <1>4, WordingsAre
  <1>7. \A i \in 1..N : vs[i] = ws[i]
    BY <1>3, <1>5, <1>6
  <1>8. vs[N + 1] = s.words
    BY <1>3, <1>6
  <1>9. ws \in Seq(Seq(Nat)) /\ WordsOf(ss) = FlattenSeq(ws)
    BY <1>4, WordingsAre
  <1>10. vs \in Seq(Seq(Nat)) /\ WordsOf(ts) = FlattenSeq(vs)
    BY <1>3, <1>4, WordingsAre
  <1>11. FlattenSeq(vs) = FlattenSeq(ws) \o vs[Len(vs)]
    <2>1. Len(vs) = Len(ws) + 1 /\ \A i \in 1..Len(ws) : vs[i] = ws[i]
      BY <1>5, <1>6, <1>7
    <2>2. ws \in Seq(Seq(Nat)) /\ vs \in Seq(Seq(Nat))
      BY <1>9, <1>10
    <2>3. QED BY <2>1, <2>2, StrungFurther
  <1>12. vs[Len(vs)] = s.words
    BY <1>6, <1>8
  <1>13. WordsOf(ts) = WordsOf(ss) \o s.words
    BY <1>9, <1>10, <1>11, <1>12
  <1>14. QED BY <1>1, <1>2, <1>3, <1>13

\* Words joined to the last segment.
Widened(ss, q) == [ss EXCEPT ![Len(ss)].words = @ \o q]

LEMMA WidenedIs ==
    ASSUME NEW ss \in Seq(SpanRec), ss # <<>>, NEW q \in Seq(Nat)
    PROVE  /\ Widened(ss, q) \in Seq(SpanRec) /\ Len(Widened(ss, q)) = Len(ss) /\ Len(ss) \in Nat \ {0}
           /\ \A i \in 1..Len(ss) : i # Len(ss) => Widened(ss, q)[i] = ss[i]
           /\ Widened(ss, q)[Len(ss)].words = ss[Len(ss)].words \o q
           /\ Widened(ss, q)[Len(ss)].mood = ss[Len(ss)].mood
           /\ Widened(ss, q)[Len(ss)].type = ss[Len(ss)].type
  <1>1. PICK N \in Nat \ {0} : N = Len(ss) /\ DOMAIN ss = 1..N
    BY EmptySeq
  <1>2. PICK s \in SpanRec : s = ss[N]
    BY <1>1
  <1>4. PICK u : u = Longer(s, q)
    OBVIOUS
  <1>5. u \in SpanRec /\ u.words = s.words \o q /\ u.mood = s.mood /\ u.type = s.type
    BY <1>4, LongerIs
  <1>6. PICK ts : ts = Widened(ss, q)
    OBVIOUS
  <1>7. ts = [ss EXCEPT ![N] = u]
    <2>1. ts = [ss EXCEPT ![N].words = @ \o q]
      BY <1>1, <1>6, Zenon DEF Widened
    <2>2. u = [s EXCEPT !.words = @ \o q]
      BY <1>4 DEF Longer
    <2>3. QED BY <1>1, <1>2, <2>1, <2>2
  <1>8. ts \in Seq(SpanRec) /\ Len(ts) = N /\ ts[N] = u /\ \A i \in 1..N : i # N => ts[i] = ss[i]
    BY <1>1, <1>5, <1>7
  <1>9. QED BY <1>1, <1>2, <1>5, <1>6, <1>8

LEMMA Associative ==
    ASSUME NEW a \in Seq(Nat), NEW b \in Seq(Nat), NEW c \in Seq(Nat)
    PROVE  a \o (b \o c) = (a \o b) \o c
  <1>1. PICK x, y, z, v : x = a \o b /\ y = b \o c /\ z = x \o c /\ v = a \o y
    OBVIOUS
  <1>2. /\ x \in Seq(Nat) /\ Len(x) = Len(a) + Len(b)
        /\ \A i \in 1..(Len(a) + Len(b)) : x[i] = IF i <= Len(a) THEN a[i] ELSE b[i - Len(a)]
    BY <1>1, ConcatAt
  <1>3. /\ y \in Seq(Nat) /\ Len(y) = Len(b) + Len(c)
        /\ \A i \in 1..(Len(b) + Len(c)) : y[i] = IF i <= Len(b) THEN b[i] ELSE c[i - Len(b)]
    BY <1>1, ConcatAt
  <1>4. /\ z \in Seq(Nat) /\ Len(z) = Len(x) + Len(c)
        /\ \A i \in 1..(Len(x) + Len(c)) : z[i] = IF i <= Len(x) THEN x[i] ELSE c[i - Len(x)]
    BY <1>1, <1>2, ConcatAt
  <1>5. /\ v \in Seq(Nat) /\ Len(v) = Len(a) + Len(y)
        /\ \A i \in 1..(Len(a) + Len(y)) : v[i] = IF i <= Len(a) THEN a[i] ELSE y[i - Len(a)]
    BY <1>1, <1>3, ConcatAt
  <1>6. PICK k, m, n \in Nat : k = Len(a) /\ m = Len(b) /\ n = Len(c)
    OBVIOUS
  <1>7. Len(v) = k + m + n /\ Len(z) = k + m + n
    BY <1>2, <1>3, <1>4, <1>5, <1>6
  <1>8. ASSUME NEW i \in 1..(k + m + n) PROVE v[i] = z[i]
    <2>1. CASE i <= k
      <3>1. v[i] = a[i] /\ z[i] = x[i] /\ x[i] = a[i]
        BY <1>2, <1>3, <1>4, <1>5, <1>6, <2>1
      <3>2. QED BY <3>1
    <2>2. CASE ~(i <= k)
      <3>1. PICK j \in 1..(m + n) : j = i - k
        BY <2>2
      <3>2. v[i] = y[j] /\ y[j] = IF j <= m THEN b[j] ELSE c[j - m]
        <4>1. i \in 1..(Len(a) + Len(y)) /\ ~(i <= Len(a)) /\ i - Len(a) = j
          BY <1>3, <1>6, <2>2, <3>1
        <4>2. v[i] = y[j]
          BY <1>5, <4>1
        <4>3. j \in 1..(Len(b) + Len(c)) /\ Len(b) = m
          BY <1>6, <3>1
        <4>4. y[j] = IF j <= m THEN b[j] ELSE c[j - m]
          BY <1>3, <4>3
        <4>5. QED BY <4>2, <4>4
      <3>3. j - m = i - (k + m) /\ (j <= m <=> i <= k + m)
        BY <3>1
      <3>4. z[i] = IF i <= k + m THEN x[i] ELSE c[i - (k + m)]
        BY <1>2, <1>4, <1>6
      <3>5. ASSUME i <= k + m PROVE x[i] = b[j]
        <4>1. i \in 1..(Len(a) + Len(b)) /\ ~(i <= Len(a)) /\ i - Len(a) = j
          BY <1>6, <2>2, <3>1, <3>5
        <4>2. QED BY <1>2, <4>1
      <3>6. QED BY <3>2, <3>3, <3>4, <3>5
    <2>3. QED BY <2>1, <2>2
  <1>9. v = z
    BY <1>4, <1>5, <1>7, <1>8, SeqEqual
  <1>10. QED BY <1>1, <1>9

LEMMA WidenedWords ==
    ASSUME NEW ss \in Seq(SpanRec), ss # <<>>, NEW q \in Seq(Nat)
    PROVE  WordsOf(Widened(ss, q)) = WordsOf(ss) \o q
  <1>1. PICK N \in Nat \ {0} : N = Len(ss)
    BY EmptySeq
  <1>2. PICK ts \in Seq(SpanRec) : /\ ts = Widened(ss, q) /\ Len(ts) = N /\ ts[N].words = ss[N].words \o q
                                   /\ \A i \in 1..N : i # N => ts[i] = ss[i]
    BY <1>1, WidenedIs
  <1>3. PICK ws, vs : ws = Wordings(ss) /\ vs = Wordings(ts)
    OBVIOUS
  <1>4. Len(ws) = N /\ (\A i \in 1..N : ws[i] = ss[i].words) /\ WordsOf(ss) = FlattenSeq(ws)
    BY <1>1, <1>3, WordingsAre
  <1>5. Len(vs) = N /\ (\A i \in 1..N : vs[i] = ts[i].words) /\ WordsOf(ts) = FlattenSeq(vs)
    BY <1>2, <1>3, WordingsAre
  <1>6. ws \in Seq(Seq(Nat)) /\ vs \in Seq(Seq(Nat))
    BY <1>2, <1>3, WordingsAre
  <1>7. PICK g \in [0..N -> Seq(Nat)] : g[0] = <<>> /\ FlattenSeq(ws) = g[N]
                                        /\ \A n \in 1..N : g[n] = g[n - 1] \o ws[n]
    <2>1. \E g \in [0..Len(ws) -> Seq(Nat)] : StrungUp(g, ws)
      BY <1>6, Flattened
    <2>2. QED BY <1>4, <2>1 DEF StrungUp
  <1>8. PICK h \in [0..N -> Seq(Nat)] : h[0] = <<>> /\ FlattenSeq(vs) = h[N]
                                        /\ \A n \in 1..N : h[n] = h[n - 1] \o vs[n]
    <2>1. \E h \in [0..Len(vs) -> Seq(Nat)] : StrungUp(h, vs)
      BY <1>6, Flattened
    <2>2. QED BY <1>5, <2>1 DEF StrungUp
  <1> DEFINE S == {n \in 0..N : n # N => h[n] = g[n]}
  <1>9. 0 \in S
    BY <1>7, <1>8
  <1>10. ASSUME NEW n \in 1..N, n - 1 \in S PROVE n \in S
    <2>1. CASE n # N
      <3>1. vs[n] = ws[n]
        BY <1>2, <1>4, <1>5, <2>1
      <3>2. h[n - 1] = g[n - 1]
        BY <1>10
      <3>3. h[n] = h[n - 1] \o vs[n] /\ g[n] = g[n - 1] \o ws[n]
        BY <1>7, <1>8
      <3>4. h[n] = g[n] /\ n \in 0..N
        BY <3>1, <3>2, <3>3
      <3>5. QED BY <3>4
    <2>2. QED BY <2>1
  <1>11. h[N - 1] = g[N - 1]
    <2>1. N - 1 \in 0..N /\ N - 1 # N
      OBVIOUS
    <2> HIDE DEF S
    <2>2. N - 1 \in S
      BY <1>9, <1>10, <2>1, UpTo, Zenon
    <2>3. QED BY <2>1, <2>2 DEF S
  <1>12. N \in 1..N /\ vs[N] = ws[N] \o q /\ ws[N] \in Seq(Nat) /\ g[N - 1] \in Seq(Nat)
    <2>1. N \in 1..N /\ N - 1 \in 0..N
      OBVIOUS
    <2>2. ws[N] = ss[N].words /\ vs[N] = ss[N].words \o q
      BY <1>2, <1>4, <1>5, <2>1
    <2>3. ss[N] \in SpanRec
      BY <1>1
    <2>4. QED BY <2>1, <2>2, <2>3, SegFields
  <1>13. g[N] = g[N - 1] \o ws[N] /\ h[N] = h[N - 1] \o vs[N]
    BY <1>7, <1>8, <1>12
  <1>14. h[N] = g[N] \o q
    <2>1. PICK a, b : a = g[N - 1] /\ b = ws[N]
      OBVIOUS
    <2>2. a \in Seq(Nat) /\ b \in Seq(Nat)
      BY <1>12, <2>1
    <2>3. a \o (b \o q) = (a \o b) \o q
      BY <2>2, Associative
    <2>4. QED BY <1>11, <1>12, <1>13, <2>1, <2>3
  <1>15. QED BY <1>2, <1>4, <1>5, <1>7, <1>8, <1>14

\* The numbers in S, ascending.
Enum(q, S) == q \in Seq(Nat) /\ Range(q) = S /\ \A i, j \in DOMAIN q : i < j => q[i] < q[j]
Said(t, r, n) == {k \in DOMAIN t : k < n /\ t[k] \in SpokenBy(r)}
Matches(t, r, m, k) == /\ m.speaker = SpeakerIn(t, k)
                       /\ r = "tagged" => /\ m.emotion = MoodIn(t, k, Emotions, "none")
                                          /\ m.rate = MoodIn(t, k, Rates, "normal")
Fits(t, r, q, m, c) == \A k \in Range(q) : Matches(t, r, m, k) /\ PausesTo(t, r, k) = c
Right(t, r, ss) == \A i \in DOMAIN ss : Fits(t, r, ss[i].words, ss[i].mood, PausesOf(ss, i))
\* ss are the segments of the tokens before n; the words op wait for mood m.
Core(t, r, ss, op, m, n) == /\ Enum(WordsOf(ss) \o op, Said(t, r, n)) /\ Right(t, r, ss)
                            /\ Fits(t, r, op, m, PausesOf(ss, Len(ss)))
Ahead(t, r, ss, m, n) == Matches(t, r, m, n) /\ PausesOf(ss, Len(ss)) = PausesTo(t, r, n - 1)

LEMMA FitsNone == \A t, r, m, c : Fits(t, r, <<>>, m, c)
  BY DEF Fits, Range

LEMMA RangeAppended ==
    ASSUME NEW q \in Seq(Nat), NEW n \in Nat
    PROVE  Range(Append(q, n)) = Range(q) \cup {n}
  <1>1. PICK N \in Nat : N = Len(q) /\ DOMAIN q = 1..N
    OBVIOUS
  <1>2. PICK p : p = Append(q, n)
    OBVIOUS
  <1>3. DOMAIN p = 1..(N + 1) /\ p[N + 1] = n /\ \A i \in 1..N : p[i] = q[i]
    BY <1>1, <1>2, AppendProperties
  <1>4. \A i \in 1..(N + 1) : p[i] \in Range(q) \cup {n}
    BY <1>1, <1>3 DEF Range
  <1>5. \A k \in Range(q) : \E i \in 1..(N + 1) : p[i] = k
    <2> SUFFICES ASSUME NEW k \in Range(q) PROVE \E i \in 1..(N + 1) : p[i] = k
      OBVIOUS
    <2>1. PICK i \in 1..N : q[i] = k
      BY <1>1 DEF Range
    <2>2. p[i] = k /\ i \in 1..(N + 1)
      BY <1>3, <2>1
    <2>3. QED BY <2>2
  <1>6. N + 1 \in 1..(N + 1)
    OBVIOUS
  <1>7. QED BY <1>2, <1>3, <1>4, <1>5, <1>6 DEF Range

LEMMA EnumFurther ==
    ASSUME NEW S, NEW q, Enum(q, S), NEW n \in Nat, \A k \in S : k < n
    PROVE  Enum(Append(q, n), S \cup {n})
  <1>1. PICK N \in Nat : N = Len(q) /\ DOMAIN q = 1..N
    BY DEF Enum
  <1>2. q \in Seq(Nat) /\ \A i \in 1..N : q[i] \in S
    BY <1>1 DEF Enum, Range
  <1>3. PICK p : p = Append(q, n)
    OBVIOUS
  <1>4. p \in Seq(Nat) /\ Len(p) = N + 1 /\ DOMAIN p = 1..(N + 1) /\ p[N + 1] = n /\ \A i \in 1..N : p[i] = q[i]
    BY <1>1, <1>2, <1>3, AppendProperties
  <1>5. Range(p) = S \cup {n}
    <2>1. q \in Seq(Nat) /\ Range(q) = S
      BY DEF Enum
    <2>2. QED BY <1>3, <2>1, RangeAppended
  <1>6. ASSUME NEW i \in 1..(N + 1), NEW j \in 1..(N + 1), i < j PROVE p[i] < p[j]
    <2>1. i \in 1..N /\ p[i] = q[i] /\ q[i] \in S
      BY <1>2, <1>4, <1>6
    <2>2. CASE j \in 1..N
      <3>1. p[j] = q[j]
        BY <1>4, <2>2
      <3>2. q[i] < q[j]
        BY <1>1, <1>6, <2>1, <2>2 DEF Enum
      <3>3. QED BY <2>1, <3>1, <3>2
    <2>3. CASE j = N + 1
      BY <1>4, <2>1, <2>3
    <2>4. QED BY <2>2, <2>3
  <1>7. QED BY <1>3, <1>4, <1>5, <1>6 DEF Enum

LEMMA SaidFurther ==
    ASSUME NEW t \in Seq(Tokens), NEW r, NEW n \in DOMAIN t
    PROVE  /\ Said(t, r, n + 1) = IF t[n] \in SpokenBy(r) THEN Said(t, r, n) \cup {n} ELSE Said(t, r, n)
           /\ n \in Nat \ {0} /\ \A k \in Said(t, r, n) : k < n
  <1>1. DOMAIN t \subseteq Nat \ {0}
    OBVIOUS
  <1>2. QED BY <1>1 DEF Said

LEMMA RightFurther ==
    ASSUME NEW t, NEW r, NEW ss \in Seq(SpanRec), NEW s \in SpanRec, Right(t, r, ss), NEW c,
           c = IF s.type \in {"pause", "break"} THEN PausesOf(ss, Len(ss)) + 1 ELSE PausesOf(ss, Len(ss)),
           Fits(t, r, s.words, s.mood, c)
    PROVE  Right(t, r, Append(ss, s)) /\ PausesOf(Append(ss, s), Len(Append(ss, s))) = c
  <1>1. PICK N \in Nat : N = Len(ss) /\ DOMAIN ss = 1..N
    OBVIOUS
  <1>2. PICK ts : ts = Append(ss, s)
    OBVIOUS
  <1>3. ts \in Seq(SpanRec) /\ Len(ts) = N + 1 /\ DOMAIN ts = 1..(N + 1) /\ ts[N + 1] = s
        /\ \A i \in 1..N : ts[i] = ss[i]
    BY <1>1, <1>2, SegAppended
  <1>4. ASSUME NEW n \in 0..N PROVE PausesOf(ts, n) = PausesOf(ss, n)
    <2>1. n \in Nat /\ \A j \in 1..n : ts[j].type = ss[j].type
      BY <1>3
    <2>2. QED BY <2>1, SilencesFurther
  <1>5. PausesOf(ts, N + 1) = c
    <2>1. \A j \in 1..N : ts[j].type = ss[j].type
      BY <1>3
    <2>2. PausesOf(ts, N + 1) = IF ts[N + 1].type \in {"pause", "break"} THEN PausesOf(ss, N) + 1 ELSE PausesOf(ss, N)
      BY <2>1, SilencesFurther
    <2>3. QED BY <1>1, <1>3, <2>2
  <1>6. ASSUME NEW i \in 1..(N + 1) PROVE Fits(t, r, ts[i].words, ts[i].mood, PausesOf(ts, i))
    <2>1. CASE i \in 1..N
      <3>1. ts[i] = ss[i] /\ PausesOf(ts, i) = PausesOf(ss, i)
        BY <1>3, <1>4, <2>1
      <3>2. Fits(t, r, ss[i].words, ss[i].mood, PausesOf(ss, i))
        BY <1>1, <2>1 DEF Right
      <3>3. QED BY <3>1, <3>2
    <2>2. CASE i = N + 1
      BY <1>3, <1>5, <2>2
    <2>3. QED BY <2>1, <2>2
  <1>7. QED BY <1>2, <1>3, <1>5, <1>6 DEF Right

Segment(ty, q, m) == [type |-> ty, words |-> q, mood |-> m]

LEMMA SegmentOf ==
    ASSUME NEW ty \in SpanTypes, NEW q \in Seq(Nat), NEW m \in MoodRec
    PROVE  /\ Segment(ty, q, m) \in SpanRec /\ Segment(ty, q, m).type = ty
           /\ Segment(ty, q, m).words = q /\ Segment(ty, q, m).mood = m
  BY DEF Segment, SpanRec

Flushed(ss, op, m) == IF op = <<>> THEN ss ELSE Append(ss, Segment("text", op, m))

\* Segments of the tokens before n, with c silences, and nothing waiting.
Marks(t, r, ts, n, c) == /\ ts \in Seq(SpanRec) /\ PausesOf(ts, Len(ts)) = c
                         /\ \A k : Core(t, r, ts, <<>>, k, n)

LEMMA MarksAre ==
    ASSUME NEW t, NEW r, NEW ts \in Seq(SpanRec), NEW n, NEW c, PausesOf(ts, Len(ts)) = c,
           Right(t, r, ts), Enum(WordsOf(ts), Said(t, r, n))
    PROVE  Marks(t, r, ts, n, c)
  <1>1. WordsOf(ts) \o <<>> = WordsOf(ts)
    <2>1. WordsOf(ts) \in Seq(Nat)
      BY WordingsAre
    <2>2. QED BY <2>1, ConcatEmptySeq
  <1>2. \A k : Fits(t, r, <<>>, k, PausesOf(ts, Len(ts)))
    BY FitsNone
  <1>3. QED BY <1>1, <1>2 DEF Marks, Core

LEMMA MarksHave ==
    ASSUME NEW t, NEW r, NEW ts, NEW n, NEW c, Marks(t, r, ts, n, c)
    PROVE  /\ ts \in Seq(SpanRec) /\ PausesOf(ts, Len(ts)) = c /\ Right(t, r, ts)
           /\ WordsOf(ts) \in Seq(Nat) /\ Enum(WordsOf(ts), Said(t, r, n))
  <1>1. ts \in Seq(SpanRec) /\ PausesOf(ts, Len(ts)) = c
    BY DEF Marks
  <1>2. Right(t, r, ts) /\ Enum(WordsOf(ts) \o <<>>, Said(t, r, n))
    BY DEF Marks, Core
  <1>3. WordsOf(ts) \in Seq(Nat)
    BY <1>1, WordingsAre
  <1>4. WordsOf(ts) \o <<>> = WordsOf(ts)
    BY <1>3, ConcatEmptySeq
  <1>5. QED BY <1>1, <1>2, <1>3, <1>4

LEMMA FlushMarks ==
    ASSUME NEW t, NEW r, NEW ss \in Seq(SpanRec), NEW op \in Seq(Nat), NEW m \in MoodRec, NEW n,
           Core(t, r, ss, op, m, n)
    PROVE  Marks(t, r, Flushed(ss, op, m), n, PausesOf(ss, Len(ss)))
  <1>1. PICK ts, c : ts = Flushed(ss, op, m) /\ c = PausesOf(ss, Len(ss))
    OBVIOUS
  <1>2. Right(t, r, ss) /\ Fits(t, r, op, m, c) /\ Enum(WordsOf(ss) \o op, Said(t, r, n))
    BY <1>1 DEF Core
  <1>3. CASE op = <<>>
    <2>1. ts = ss
      BY <1>1, <1>3 DEF Flushed
    <2>2. WordsOf(ss) \o op = WordsOf(ss)
      <3>1. WordsOf(ss) \in Seq(Nat)
        BY WordingsAre
      <3>2. QED BY <1>3, <3>1, ConcatEmptySeq
    <2>3. QED BY <1>1, <1>2, <2>1, <2>2, MarksAre
  <1>4. CASE op # <<>>
    <2>1. PICK s : s = Segment("text", op, m)
      OBVIOUS
    <2>2. s \in SpanRec /\ s.words = op /\ s.mood = m /\ s.type = "text"
      <3>1. "text" \in SpanTypes
        BY DEF SpanTypes
      <3>2. QED BY <2>1, <3>1, SegmentOf
    <2>3. ts = Append(ss, s)
      BY <1>1, <1>4, <2>1 DEF Flushed
    <2>4. c = IF s.type \in {"pause", "break"} THEN PausesOf(ss, Len(ss)) + 1 ELSE PausesOf(ss, Len(ss))
      BY <1>1, <2>2
    <2>5. Fits(t, r, s.words, s.mood, c)
      BY <1>2, <2>2
    <2>6. Right(t, r, ts) /\ PausesOf(ts, Len(ts)) = c
      BY <1>2, <2>2, <2>3, <2>4, <2>5, RightFurther
    <2>7. ts \in Seq(SpanRec) /\ WordsOf(ts) = WordsOf(ss) \o op
      BY <2>2, <2>3, SegAppended
    <2>8. Enum(WordsOf(ts), Said(t, r, n))
      BY <1>2, <2>7
    <2>9. Marks(t, r, ts, n, c)
      BY <2>6, <2>7, <2>8, MarksAre
    <2>10. QED BY <1>1, <2>9
  <1>5. QED BY <1>3, <1>4

\* A segment without words.
LEMMA WordlessMarks ==
    ASSUME NEW t, NEW r, NEW ss, NEW n, NEW c, Marks(t, r, ss, n, c), NEW s \in SpanRec, s.words = <<>>,
           NEW d, d = IF s.type \in {"pause", "break"} THEN c + 1 ELSE c
    PROVE  Marks(t, r, Append(ss, s), n, d)
  <1>1. /\ ss \in Seq(SpanRec) /\ PausesOf(ss, Len(ss)) = c /\ Right(t, r, ss)
        /\ WordsOf(ss) \in Seq(Nat) /\ Enum(WordsOf(ss), Said(t, r, n))
    BY MarksHave
  <1>2. PICK ts : ts = Append(ss, s)
    OBVIOUS
  <1>3. Fits(t, r, s.words, s.mood, d)
    BY FitsNone
  <1>4. Right(t, r, ts) /\ PausesOf(ts, Len(ts)) = d
    BY <1>1, <1>2, <1>3, RightFurther
  <1>5. ts \in Seq(SpanRec) /\ WordsOf(ts) = WordsOf(ss) \o s.words
    BY <1>1, <1>2, SegAppended
  <1>6. WordsOf(ss) \o s.words = WordsOf(ss)
    BY <1>1, ConcatEmptySeq
  <1>7. Marks(t, r, ts, n, d)
    BY <1>1, <1>4, <1>5, <1>6, MarksAre
  <1>8. QED BY <1>2, <1>7

LEMMA PauseMarks ==
    ASSUME NEW t, NEW r, NEW ss, NEW n, NEW c, Marks(t, r, ss, n, c),
           NEW s \in SpanRec, s.words = <<>>, s.type \in {"pause", "break"}
    PROVE  Marks(t, r, Append(ss, s), n, c + 1)
  BY WordlessMarks

LEMMA QuietMarks ==
    ASSUME NEW t, NEW r, NEW ss, NEW n, NEW c, Marks(t, r, ss, n, c),
           NEW s \in SpanRec, s.words = <<>>, s.type \notin {"pause", "break"}
    PROVE  Marks(t, r, Append(ss, s), n, c)
  BY WordlessMarks

LEMMA SkipCore ==
    ASSUME NEW t \in Seq(Tokens), NEW r, NEW n \in DOMAIN t, t[n] \notin SpokenBy(r),
           NEW ss, NEW op, NEW m, Core(t, r, ss, op, m, n)
    PROVE  Core(t, r, ss, op, m, n + 1)
  <1>1. Said(t, r, n + 1) = Said(t, r, n)
    BY SaidFurther
  <1>2. QED BY <1>1 DEF Core

LEMMA SkipMarks ==
    ASSUME NEW t \in Seq(Tokens), NEW r, NEW n \in DOMAIN t, t[n] \notin SpokenBy(r),
           NEW ss, NEW c, Marks(t, r, ss, n, c)
    PROVE  Marks(t, r, ss, n + 1, c)
  <1>1. ASSUME NEW k PROVE Core(t, r, ss, <<>>, k, n + 1)
    <2>1. Core(t, r, ss, <<>>, k, n)
      BY DEF Marks
    <2>2. QED BY <2>1, SkipCore
  <1>2. QED BY <1>1 DEF Marks

LEMMA WordCore ==
    ASSUME NEW t \in Seq(Tokens), NEW r, NEW n \in DOMAIN t, t[n] \in SpokenBy(r), t[n] \notin SilentTo(r),
           NEW ss \in Seq(SpanRec), NEW op \in Seq(Nat), NEW m, Core(t, r, ss, op, m, n), Ahead(t, r, ss, m, n)
    PROVE  Core(t, r, ss, Append(op, n), m, n + 1)
  <1>1. n \in Nat \ {0} /\ Said(t, r, n + 1) = Said(t, r, n) \cup {n} /\ \A k \in Said(t, r, n) : k < n
    BY SaidFurther
  <1>2. PICK q, w, p : q = WordsOf(ss) /\ w = q \o op /\ p = Append(op, n)
    OBVIOUS
  <1>3. q \in Seq(Nat)
    BY <1>2, WordingsAre
  <1>4. q \o p = Append(w, n)
    <2>1. <<n>> \in Seq(Nat)
      BY <1>1
    <2>2. PICK v \in Seq(Nat) : v = <<n>>
      BY <2>1
    <2>3. q \o (op \o v) = (q \o op) \o v
      BY <1>3, <2>2, Associative
    <2>4. w \in Seq(Nat)
      BY <1>2, <1>3, ConcatProperties
    <2>5. p = op \o v /\ Append(w, n) = w \o v
      BY <1>1, <1>2, <2>2, <2>4, AppendIsConcat
    <2>6. QED BY <1>2, <2>3, <2>5
  <1>5. Enum(Append(w, n), Said(t, r, n) \cup {n})
    <2>1. Enum(w, Said(t, r, n))
      BY <1>2 DEF Core
    <2>2. QED BY <1>1, <2>1, EnumFurther
  <1>6. PausesTo(t, r, n) = PausesTo(t, r, n - 1)
    <2>1. PICK k \in Nat : k + 1 = n /\ k = n - 1
      BY <1>1
    <2>2. PausesTo(t, r, k + 1) = PausesTo(t, r, k)
      BY <2>1, PausesFurther
    <2>3. QED BY <2>1, <2>2
  <1>7. Fits(t, r, p, m, PausesOf(ss, Len(ss)))
    <2>1. Range(p) = Range(op) \cup {n}
      BY <1>1, <1>2, RangeAppended
    <2>2. Fits(t, r, op, m, PausesOf(ss, Len(ss)))
      BY DEF Core
    <2>3. Matches(t, r, m, n) /\ PausesOf(ss, Len(ss)) = PausesTo(t, r, n)
      BY <1>6 DEF Ahead
    <2>4. QED BY <2>1, <2>2, <2>3 DEF Fits
  <1>8. Right(t, r, ss)
    BY DEF Core
  <1>9. QED BY <1>1, <1>2, <1>4, <1>5, <1>7, <1>8 DEF Core

LEMMA NamesIn == \A token : NameIn(token) \in {"narrator", "Ann", "Bob"}
  BY DEF NameIn

LEMMA MatchesSpeaker ==
    ASSUME NEW t, NEW r, NEW n \in Nat \ {0}, t[n] \in SpeakerTags, NEW m, m.speaker = NameIn(t[n]),
           m.emotion = "none", m.rate = "normal"
    PROVE  Matches(t, r, m, n + 1)
  <1>1. t[n] \notin Emotions /\ t[n] \notin Rates
    BY DEF SpeakerTags, Emotions, Rates
  <1>2. SpeakerIn(t, n + 1) = NameIn(t[n])
    BY SpeakerFurther
  <1>3. MoodIn(t, n + 1, Emotions, "none") = "none" /\ MoodIn(t, n + 1, Rates, "normal") = "normal"
    BY <1>1, MoodFurther
  <1>4. QED BY <1>2, <1>3 DEF Matches

\* The mood after a token that is no speaker's.
Turned(r, m, k, token) ==
    /\ k.speaker = m.speaker
    /\ r = "tagged" => /\ k.emotion = IF token \in Emotions THEN token ELSE m.emotion
                       /\ k.rate = IF token \in Rates THEN token ELSE m.rate

LEMMA MatchesFurther ==
    ASSUME NEW t, NEW r, NEW n \in Nat \ {0}, t[n] \notin SpeakerTags, NEW m, NEW k,
           Matches(t, r, m, n), Turned(r, m, k, t[n])
    PROVE  Matches(t, r, k, n + 1)
  <1>1. SpeakerIn(t, n + 1) = SpeakerIn(t, n)
    BY SpeakerFurther
  <1>2. ASSUME NEW T, NEW d
        PROVE  MoodIn(t, n + 1, T, d) = IF t[n] \in T THEN t[n] ELSE MoodIn(t, n, T, d)
    BY MoodFurther
  <1>3. MoodIn(t, n + 1, Emotions, "none") = IF t[n] \in Emotions THEN t[n] ELSE MoodIn(t, n, Emotions, "none")
    BY <1>2
  <1>4. MoodIn(t, n + 1, Rates, "normal") = IF t[n] \in Rates THEN t[n] ELSE MoodIn(t, n, Rates, "normal")
    BY <1>2
  <1>5. QED BY <1>1, <1>3, <1>4 DEF Matches, Turned

LEMMA FrontFurther ==
    ASSUME NEW t, NEW r, NEW n \in Nat \ {0}, NEW ss, NEW m, Ahead(t, r, ss, m, n), NEW ts, NEW k,
           Matches(t, r, k, n + 1),
           PausesOf(ts, Len(ts)) = IF t[n] \in SilentTo(r) THEN PausesOf(ss, Len(ss)) + 1 ELSE PausesOf(ss, Len(ss))
    PROVE  Ahead(t, r, ts, k, n + 1)
  <1>1. PICK p \in Nat : p + 1 = n /\ p = n - 1
    OBVIOUS
  <1>2. PausesTo(t, r, p + 1) = IF t[p + 1] \in SilentTo(r) THEN PausesTo(t, r, p) + 1 ELSE PausesTo(t, r, p)
    BY <1>1, PausesFurther
  <1>3. PausesTo(t, r, n) = IF t[n] \in SilentTo(r) THEN PausesTo(t, r, n - 1) + 1 ELSE PausesTo(t, r, n - 1)
    BY <1>1, <1>2
  <1>4. PausesOf(ts, Len(ts)) = PausesTo(t, r, n)
    BY <1>3 DEF Ahead
  <1>5. (n + 1) - 1 = n
    OBVIOUS
  <1>6. QED BY <1>4, <1>5 DEF Ahead

LEMMA CoreNone ==
    ASSUME NEW t \in Seq(Tokens), NEW r, NEW m
    PROVE  Core(t, r, <<>>, <<>>, m, 1) /\ PausesOf(<<>>, 0) = PausesTo(t, r, 0)
  <1>1. Said(t, r, 1) = {}
    BY DEF Said
  <1>2. WordsOf(<<>>) \o <<>> = <<>>
    <2>1. <<>> \in Seq(Nat)
      OBVIOUS
    <2>2. <<>> \o <<>> = <<>>
      BY <2>1, ConcatEmptySeq
    <2>3. QED BY <2>2, NoWords
  <1>3. Enum(<<>>, {})
    BY DEF Enum, Range
  <1>4. Right(t, r, <<>>)
    BY DEF Right
  <1>5. Fits(t, r, <<>>, m, PausesOf(<<>>, Len(<<>>)))
    BY FitsNone
  <1>6. PausesOf(<<>>, 0) = PausesTo(t, r, 0)
    <2>1. PICK A : A = {j \in 1..0 : <<>>[j].type \in {"pause", "break"}}
      OBVIOUS
    <2>2. PICK B : B = {j \in 1..0 : t[j] \in SilentTo(r)}
      OBVIOUS
    <2>3. A = {} /\ B = {}
      BY <2>1, <2>2
    <2>4. PausesOf(<<>>, 0) = Cardinality(A)
      BY <2>1, Zenon DEF PausesOf
    <2>5. PausesTo(t, r, 0) = Cardinality(B)
      BY <2>2, Zenon DEF PausesTo
    <2>6. QED BY <2>3, <2>4, <2>5
  <1>7. QED BY <1>1, <1>2, <1>3, <1>4, <1>5, <1>6 DEF Core

LEMMA SilencesAlike ==
    ASSUME NEW ss, NEW ts, NEW n \in Nat, \A j \in 1..n : ts[j].type = ss[j].type
    PROVE  PausesOf(ts, n) = PausesOf(ss, n)
  BY SilencesFurther

LEMMA RightWidened ==
    ASSUME NEW t, NEW r, NEW ss \in Seq(SpanRec), ss # <<>>, Right(t, r, ss), NEW q \in Seq(Nat),
           Fits(t, r, q, ss[Len(ss)].mood, PausesOf(ss, Len(ss))), NEW ts, ts = Widened(ss, q)
    PROVE  Right(t, r, ts) /\ PausesOf(ts, Len(ts)) = PausesOf(ss, Len(ss))
  <1>1. PICK N \in Nat \ {0} : N = Len(ss) /\ DOMAIN ss = 1..N
    BY EmptySeq
  <1>2. /\ ts \in Seq(SpanRec) /\ Len(ts) = N /\ \A i \in 1..N : i # N => ts[i] = ss[i]
        /\ ts[N].words = ss[N].words \o q /\ ts[N].mood = ss[N].mood /\ ts[N].type = ss[N].type
    BY <1>1, WidenedIs
  <1>3. ASSUME NEW i \in 1..N PROVE PausesOf(ts, i) = PausesOf(ss, i)
    <2>1. PICK n \in Nat : n = i
      OBVIOUS
    <2>2. \A j \in 1..n : ts[j].type = ss[j].type
      BY <1>2, <2>1
    <2>3. PausesOf(ts, n) = PausesOf(ss, n)
      BY <2>2, SilencesAlike
    <2>4. QED BY <2>1, <2>3
  <1>4. Fits(t, r, ts[N].words, ts[N].mood, PausesOf(ts, N))
    <2>1. N \in 1..N /\ ss[N] \in SpanRec
      BY <1>1
    <2>2. PICK w \in Seq(Nat) : w = ss[N].words
      BY <2>1, SegFields
    <2>3. Range(w \o q) = Range(w) \cup Range(q)
      BY RangeConcat
    <2>4. Fits(t, r, w, ss[N].mood, PausesOf(ss, N))
      BY <1>1, <2>1, <2>2 DEF Right
    <2>5. Fits(t, r, w \o q, ss[N].mood, PausesOf(ss, N))
      BY <1>1, <2>3, <2>4 DEF Fits
    <2>6. PausesOf(ts, N) = PausesOf(ss, N)
      BY <1>3, <2>1
    <2>7. QED BY <1>2, <2>2, <2>5, <2>6
  <1>5. ASSUME NEW i \in 1..N PROVE Fits(t, r, ts[i].words, ts[i].mood, PausesOf(ts, i))
    <2>1. CASE i = N
      BY <1>4, <2>1
    <2>2. CASE i # N
      <3>1. ts[i] = ss[i] /\ PausesOf(ts, i) = PausesOf(ss, i)
        BY <1>2, <1>3, <2>2
      <3>2. Fits(t, r, ss[i].words, ss[i].mood, PausesOf(ss, i))
        BY <1>1 DEF Right
      <3>3. QED BY <3>1, <3>2
    <2>3. QED BY <2>1, <2>2
  <1>6. DOMAIN ts = 1..N /\ N \in 1..N
    BY <1>2
  <1>7. QED BY <1>1, <1>2, <1>3, <1>5, <1>6 DEF Right

\* Joining.  After n segments of ss: their words, rightly placed.
JoinedTo(t, r, ss, h, n, q) == /\ q \in Seq(SpanRec) /\ WordsOf(q) = h[n] /\ Right(t, r, q)
                               /\ PausesOf(q, Len(q)) = PausesOf(ss, n)

LEMMA MergeSegIs ==
    ASSUME NEW q \in Seq(SpanRec), NEW s \in SpanRec
    PROVE  \/ q # <<>> /\ s.type = "text" /\ q[Len(q)].mood = s.mood /\ MergeSeg(q, s) = Widened(q, s.words)
           \/ MergeSeg(q, s) = Append(q, s)
  <1>1. CASE q # <<>> /\ Alike(Last(q), s)
    <2>1. MergeSeg(q, s) = Widened(q, s.words)
      BY <1>1, Zenon DEF MergeSeg, Widened
    <2>2. s.type = "text" /\ q[Len(q)].mood = s.mood
      BY <1>1 DEF Alike, Last
    <2>3. QED BY <1>1, <2>1, <2>2
  <1>2. CASE ~(q # <<>> /\ Alike(Last(q), s))
    BY <1>2, Zenon DEF MergeSeg
  <1>3. QED BY <1>1, <1>2

LEMMA MergeSegType == \A q \in Seq(SpanRec), s \in SpanRec : MergeSeg(q, s) \in Seq(SpanRec)
  <1> SUFFICES ASSUME NEW q \in Seq(SpanRec), NEW s \in SpanRec PROVE MergeSeg(q, s) \in Seq(SpanRec)
    OBVIOUS
  <1>1. CASE q # <<>> /\ MergeSeg(q, s) = Widened(q, s.words)
    <2>1. s.words \in Seq(Nat)
      BY SegFields
    <2>2. Widened(q, s.words) \in Seq(SpanRec)
      BY <1>1, <2>1, WidenedIs
    <2>3. QED BY <1>1, <2>2
  <1>2. CASE MergeSeg(q, s) = Append(q, s)
    <2>1. Append(q, s) \in Seq(SpanRec)
      BY AppendProperties
    <2>2. QED BY <1>2, <2>1
  <1>3. QED BY <1>1, <1>2, MergeSegIs

LEMMA JoinFurther ==
    ASSUME NEW t, NEW r, NEW ss \in Seq(SpanRec), Right(t, r, ss), NEW h, NEW k, NEW n \in DOMAIN ss, n = k + 1,
           NEW q, JoinedTo(t, r, ss, h, k, q), k \in Nat, h[n] = h[k] \o ss[n].words
    PROVE  JoinedTo(t, r, ss, h, n, MergeSeg(q, ss[n]))
  <1>1. PICK s \in SpanRec : s = ss[n]
    OBVIOUS
  <1>2. PICK c : c = IF s.type \in {"pause", "break"} THEN PausesOf(ss, k) + 1 ELSE PausesOf(ss, k)
    OBVIOUS
  <1>3. PausesOf(ss, n) = c
    <2>1. \A j \in 1..k : ss[j].type = ss[j].type
      OBVIOUS
    <2>2. PausesOf(ss, k + 1) = IF ss[k + 1].type \in {"pause", "break"} THEN PausesOf(ss, k) + 1 ELSE PausesOf(ss, k)
      BY <2>1, SilencesFurther
    <2>3. QED BY <1>1, <1>2, <2>2
  <1>4. Fits(t, r, s.words, s.mood, c)
    BY <1>1, <1>3 DEF Right
  <1>5. q \in Seq(SpanRec) /\ WordsOf(q) = h[k] /\ Right(t, r, q) /\ PausesOf(q, Len(q)) = PausesOf(ss, k)
    BY DEF JoinedTo
  <1>6. PICK p : p = MergeSeg(q, s)
    OBVIOUS
  <1>7. p \in Seq(SpanRec)
    BY <1>5, <1>6, MergeSegType
  <1>8. CASE q # <<>> /\ s.type = "text" /\ q[Len(q)].mood = s.mood /\ p = Widened(q, s.words)
    <2>1. s.words \in Seq(Nat)
      BY SegFields
    <2>2. WordsOf(p) = WordsOf(q) \o s.words
      BY <1>5, <1>8, <2>1, WidenedWords
    <2>3. c = PausesOf(q, Len(q))
      BY <1>2, <1>5, <1>8
    <2>4. Fits(t, r, s.words, q[Len(q)].mood, PausesOf(q, Len(q)))
      BY <1>4, <1>8, <2>3
    <2>5. Right(t, r, p) /\ PausesOf(p, Len(p)) = c
      BY <1>5, <1>8, <2>1, <2>3, <2>4, RightWidened
    <2>6. QED BY <1>1, <1>3, <1>5, <1>6, <1>7, <2>2, <2>5 DEF JoinedTo
  <1>9. CASE p = Append(q, s)
    <2>1. WordsOf(p) = WordsOf(q) \o s.words
      BY <1>5, <1>9, SegAppended
    <2>2. c = IF s.type \in {"pause", "break"} THEN PausesOf(q, Len(q)) + 1 ELSE PausesOf(q, Len(q))
      BY <1>2, <1>5
    <2>3. Right(t, r, p) /\ PausesOf(p, Len(p)) = c
      BY <1>4, <1>5, <1>9, <2>2, RightFurther
    <2>4. QED BY <1>1, <1>3, <1>5, <1>6, <1>7, <2>1, <2>3 DEF JoinedTo
  <1>10. QED BY <1>5, <1>6, <1>8, <1>9, MergeSegIs

MergedBy(f, ss) == f = [n \in 0..Len(ss) |-> IF n = 0 THEN <<>> ELSE MergeSeg(f[n - 1], ss[n])]

LEMMA MergedExists ==
    ASSUME NEW ss \in Seq(SpanRec)
    PROVE  \E f : MergedBy(f, ss)
  <1>1. PICK N \in Nat : N = Len(ss) /\ \A n \in 1..N : ss[n] \in SpanRec
    OBVIOUS
  <1>2. PICK X : X = Seq(SpanRec)
    OBVIOUS
  <1>3. PICK step : step = [a \in (1..N) \X X |-> MergeSeg(a[2], ss[a[1]])]
    OBVIOUS
  <1>4. ASSUME NEW n \in 1..N, NEW q \in X PROVE step[<<n, q>>] = MergeSeg(q, ss[n])
    BY <1>3
  <1>5. ASSUME NEW n \in 1..N, NEW q \in X PROVE MergeSeg(q, ss[n]) \in X
    BY <1>1, <1>2, MergeSegType
  <1>6. step \in [(1..N) \X X -> X]
    <2>1. \A a \in (1..N) \X X : step[a] \in X
      <3> SUFFICES ASSUME NEW a \in (1..N) \X X PROVE step[a] \in X
        OBVIOUS
      <3>1. PICK n \in 1..N, q \in X : a = <<n, q>>
        OBVIOUS
      <3>2. QED BY <1>4, <1>5, <3>1
    <2>2. QED BY <1>3, <2>1
  <1>7. <<>> \in X
    BY <1>2
  <1>8. PICK f \in [0..N -> X] : Iterates(f, N, <<>>, step)
    BY <1>6, <1>7, Iterated
  <1>9. ASSUME NEW n \in 0..N PROVE f[n] = IF n = 0 THEN <<>> ELSE MergeSeg(f[n - 1], ss[n])
    <2>1. f[n] = IF n = 0 THEN <<>> ELSE step[<<n, f[n - 1]>>]
      BY <1>8 DEF Iterates
    <2>2. CASE n = 0
      BY <2>1, <2>2
    <2>3. CASE n # 0
      <3>1. n \in 1..N /\ f[n - 1] \in X
        BY <1>8, <2>3
      <3>2. step[<<n, f[n - 1]>>] = MergeSeg(f[n - 1], ss[n])
        BY <1>4, <3>1
      <3>3. QED BY <2>1, <2>3, <3>2
    <2>4. QED BY <2>2, <2>3
  <1>10. f = [n \in 0..N |-> IF n = 0 THEN <<>> ELSE MergeSeg(f[n - 1], ss[n])]
    BY <1>8, <1>9
  <1>11. QED BY <1>1, <1>10, Zenon DEF MergedBy

\* Joined segments have the words of the segments, rightly placed.
LEMMA MergedKeeps ==
    ASSUME NEW t, NEW r, NEW ss \in Seq(SpanRec), Right(t, r, ss)
    PROVE  /\ MergedSegs(ss) \in Seq(SpanRec) /\ WordsOf(MergedSegs(ss)) = WordsOf(ss)
           /\ Right(t, r, MergedSegs(ss))
  <1>1. PICK N \in Nat : N = Len(ss) /\ DOMAIN ss = 1..N
    OBVIOUS
  <1>2. PICK f : f = CHOOSE g : MergedBy(g, ss)
    OBVIOUS
  <1>3. MergedBy(f, ss)
    BY <1>2, MergedExists
  <1>4. MergedSegs(ss) = f[N]
    BY <1>1, <1>2, Zenon DEF MergedSegs, MergedBy
  <1>5. ASSUME NEW n \in 0..N PROVE f[n] = IF n = 0 THEN <<>> ELSE MergeSeg(f[n - 1], ss[n])
    BY <1>1, <1>3, Zenon DEF MergedBy
  <1>6. PICK ws : ws = Wordings(ss)
    OBVIOUS
  <1>7. Len(ws) = N /\ (\A n \in 1..N : ws[n] = ss[n].words) /\ WordsOf(ss) = FlattenSeq(ws)
    BY <1>1, <1>6, WordingsAre
  <1>8. PICK h : h[0] = <<>> /\ FlattenSeq(ws) = h[N] /\ \A n \in 1..N : h[n] = h[n - 1] \o ws[n]
    <2>1. ws \in Seq(Seq(Nat))
      BY <1>6, WordingsAre
    <2>2. \E h : StrungUp(h, ws)
      BY <2>1, Flattened
    <2>3. QED BY <1>7, <2>2 DEF StrungUp
  <1> DEFINE S == {n \in 0..N : JoinedTo(t, r, ss, h, n, f[n])}
  <1>9. 0 \in S
    <2>1. f[0] = <<>> /\ 0 \in 0..N
      BY <1>5
    <2>2. <<>> \in Seq(SpanRec) /\ Right(t, r, <<>>) /\ Len(<<>>) = 0
      BY DEF Right
    <2>3. PausesOf(<<>>, 0) = PausesOf(ss, 0)
      <3>1. \A j \in 1..0 : <<>>[j].type = ss[j].type
        OBVIOUS
      <3>2. QED BY <3>1, SilencesFurther
    <2>4. QED BY <1>8, <2>1, <2>2, <2>3, NoWords DEF JoinedTo
  <1>10. ASSUME NEW n \in 1..N, n - 1 \in S PROVE n \in S
    <2>1. n \in 0..N /\ n # 0 /\ n \in DOMAIN ss
      BY <1>1
    <2>2. PICK k \in Nat : k = n - 1 /\ n = k + 1
      OBVIOUS
    <2>3. f[n] = MergeSeg(f[k], ss[n])
      BY <1>5, <2>1, <2>2
    <2>4. JoinedTo(t, r, ss, h, k, f[k])
      BY <1>10, <2>2
    <2>5. h[n] = h[k] \o ss[n].words
      BY <1>7, <1>8, <2>2
    <2>6. JoinedTo(t, r, ss, h, n, f[n])
      BY <2>1, <2>2, <2>3, <2>4, <2>5, JoinFurther
    <2>7. QED BY <2>1, <2>6
  <1>11. \A n \in 0..N : n \in S
    <2> HIDE DEF S
    <2>1. QED BY <1>9, <1>10, UpTo, Zenon
  <1>12. JoinedTo(t, r, ss, h, N, f[N])
    BY <1>11
  <1>13. QED BY <1>4, <1>7, <1>8, <1>12 DEF JoinedTo

ScriptTyped == /\ script \in Seq(Tokens) /\ reader \in {"tagged", "gpu"} /\ at \in Nat \ {0}
               /\ open \in Seq(Nat) /\ mood \in MoodRec /\ segs \in Seq(SpanRec)
               /\ reader = "gpu" => open = <<>>
Underway == outcome = "none" => /\ at <= Len(script) + 1
                                /\ Core(script, reader, segs, open, mood, at)
                                /\ Ahead(script, reader, segs, mood, at)
AllSaid == outcome = "ok" => /\ Enum(WordsOf(segs), Said(script, reader, Len(script) + 1))
                             /\ Right(script, reader, segs)
ScriptInv == ScriptTyped /\ Underway /\ AllSaid

LEMMA ScriptStarts == ScriptInit => ScriptInv
  <1> SUFFICES ASSUME ScriptInit PROVE ScriptInv
    OBVIOUS
  <1>1. /\ reader \in {"tagged", "gpu"} /\ script \in Seq(Tokens) /\ at = 1 /\ open = <<>> /\ segs = <<>>
        /\ mood = Calm("narrator") /\ outcome = "none"
    BY ScriptAssumption DEF ScriptInit
  <1>2. mood \in MoodRec
    BY <1>1 DEF Calm, MoodRec
  <1>3. Core(script, reader, segs, open, mood, at) /\ PausesOf(segs, 0) = PausesTo(script, reader, 0)
    BY <1>1, CoreNone
  <1>4. Matches(script, reader, mood, at)
    <2>1. mood.speaker = "narrator" /\ mood.emotion = "none" /\ mood.rate = "normal"
      BY <1>1 DEF Calm
    <2>2. QED BY <1>1, <2>1, Starting DEF Matches
  <1>5. Ahead(script, reader, segs, mood, at)
    BY <1>1, <1>3, <1>4 DEF Ahead
  <1>6. ScriptTyped
    BY <1>1, <1>2 DEF ScriptTyped
  <1>7. QED BY <1>1, <1>3, <1>5, <1>6 DEF ScriptInv, Underway, AllSaid

\* A step to the next token.
Advances == /\ UNCHANGED <<reader, script>> /\ at' = at + 1 /\ outcome' = "none"
Reached == /\ Core(script, reader, segs', open', mood', at + 1)
           /\ Matches(script, reader, mood', at + 1)
           /\ PausesOf(segs', Len(segs')) = IF script[at] \in SilentTo(reader) THEN PausesOf(segs, Len(segs)) + 1
                                            ELSE PausesOf(segs, Len(segs))
Kept == open' \in Seq(Nat) /\ mood' \in MoodRec /\ segs' \in Seq(SpanRec) /\ (reader = "gpu" => open' = <<>>)

LEMMA Advanced ==
    ASSUME ScriptInv, outcome = "none", at <= Len(script), Advances, Reached, Kept
    PROVE  ScriptInv'
  <1>1. at \in Nat \ {0} /\ Ahead(script, reader, segs, mood, at)
    BY DEF ScriptInv, ScriptTyped, Underway
  <1>2. Ahead(script, reader, segs', mood', at + 1)
    BY <1>1, FrontFurther DEF Reached
  <1>3. script' = script /\ reader' = reader /\ at' = at + 1 /\ outcome' = "none"
    BY DEF Advances
  <1>4. ScriptTyped'
    BY <1>1, <1>3 DEF ScriptInv, ScriptTyped, Kept
  <1>5. at' <= Len(script') + 1
    <2>1. Len(script) \in Nat
      BY DEF ScriptInv, ScriptTyped
    <2>2. QED BY <1>1, <1>3, <2>1
  <1>6. Core(script', reader', segs', open', mood', at') /\ Ahead(script', reader', segs', mood', at')
    BY <1>2, <1>3 DEF Reached
  <1>7. QED BY <1>3, <1>4, <1>5, <1>6 DEF ScriptInv, Underway, AllSaid

LEMMA Here ==
    ASSUME ScriptInv, NEW r, Reading(r)
    PROVE  /\ reader = r /\ outcome = "none" /\ at <= Len(script) /\ script \in Seq(Tokens) /\ at \in DOMAIN script
           /\ at \in Nat \ {0} /\ script[at] \in Tokens /\ segs \in Seq(SpanRec) /\ open \in Seq(Nat) /\ mood \in MoodRec
           /\ Core(script, r, segs, open, mood, at) /\ Ahead(script, r, segs, mood, at)
           /\ Matches(script, r, mood, at) /\ (r = "gpu" => open = <<>>)
  <1>1. reader = r /\ outcome = "none" /\ at <= Len(script)
    BY DEF Reading
  <1>2. script \in Seq(Tokens) /\ at \in Nat \ {0} /\ segs \in Seq(SpanRec) /\ open \in Seq(Nat) /\ mood \in MoodRec
    BY DEF ScriptInv, ScriptTyped
  <1>3. at \in DOMAIN script /\ script[at] \in Tokens
    BY <1>1, <1>2
  <1>4. Core(script, r, segs, open, mood, at) /\ Ahead(script, r, segs, mood, at) /\ (r = "gpu" => open = <<>>)
    BY <1>1 DEF ScriptInv, Underway, ScriptTyped
  <1>5. Matches(script, r, mood, at)
    BY <1>4 DEF Ahead
  <1>6. QED BY <1>1, <1>2, <1>3, <1>4, <1>5

LEMMA Wordless ==
    ASSUME NEW ty \in SpanTypes, NEW m \in MoodRec
    PROVE  /\ Segment(ty, <<>>, m) \in SpanRec /\ Segment(ty, <<>>, m).type = ty
           /\ Segment(ty, <<>>, m).words = <<>>
  <1>1. <<>> \in Seq(Nat)
    OBVIOUS
  <1>2. QED BY <1>1 DEF Segment, SpanRec

LEMMA Flushing ==
    ASSUME ScriptInv, NEW r, Reading(r)
    PROVE  Marks(script, r, FlushText, at, PausesOf(segs, Len(segs)))
  <1>1. FlushText = Flushed(segs, open, mood)
    BY Zenon DEF FlushText, Flushed, Seg, Segment
  <1>2. Core(script, r, segs, open, mood, at) /\ segs \in Seq(SpanRec) /\ open \in Seq(Nat) /\ mood \in MoodRec
    BY Here
  <1>3. QED BY <1>1, <1>2, FlushMarks

\* A mood in one of its fields.
LEMMA CalmIs ==
    ASSUME NEW name \in {"narrator", "Ann", "Bob"}, NEW e \in BOOLEAN
    PROVE  /\ Calm(name) \in MoodRec /\ Calm(name).speaker = name
           /\ Calm(name).emotion = "none" /\ Calm(name).rate = "normal"
           /\ [Calm(name) EXCEPT !.emphasis = e] \in MoodRec
           /\ [Calm(name) EXCEPT !.emphasis = e].speaker = name
           /\ [Calm(name) EXCEPT !.emphasis = e].emotion = "none"
           /\ [Calm(name) EXCEPT !.emphasis = e].rate = "normal"
  BY DEF Calm, MoodRec

LEMMA WordStep ==
    ASSUME ScriptInv, ReadWord
    PROVE  ScriptInv'
  <1>1. /\ Reading("tagged") /\ script[at] \in {"word", "other"} /\ open' = Append(open, at) /\ segs' = segs
        /\ mood' = mood /\ at' = at + 1 /\ UNCHANGED <<reader, script, outcome>>
    BY DEF ReadWord, SetMood, Token
  <1>2. /\ reader = "tagged" /\ outcome = "none" /\ at <= Len(script) /\ script \in Seq(Tokens)
        /\ at \in DOMAIN script /\ at \in Nat \ {0} /\ segs \in Seq(SpanRec) /\ open \in Seq(Nat) /\ mood \in MoodRec
        /\ Core(script, reader, segs, open, mood, at) /\ Ahead(script, reader, segs, mood, at)
        /\ Matches(script, reader, mood, at)
    BY <1>1, Here
  <1>3. script[at] \in SpokenBy(reader) /\ script[at] \notin SilentTo(reader) /\ script[at] \notin SpeakerTags
        /\ script[at] \notin Emotions /\ script[at] \notin Rates
    BY <1>1, <1>2 DEF SpokenBy, SilentTo, SpeakerTags, Emotions, Rates
  <1>4. Core(script, reader, segs, Append(open, at), mood, at + 1)
    BY <1>2, <1>3, WordCore
  <1>5. Turned(reader, mood, mood, script[at])
    BY <1>3 DEF Turned
  <1>6. Matches(script, reader, mood, at + 1)
    BY <1>2, <1>3, <1>5, MatchesFurther
  <1>7. Reached
    BY <1>1, <1>3, <1>4, <1>6 DEF Reached
  <1>8. Kept
    BY <1>1, <1>2, AppendProperties DEF Kept
  <1>9. Advances
    BY <1>1, <1>2 DEF Advances
  <1>10. QED BY <1>2, <1>7, <1>8, <1>9, Advanced

LEMMA SpeakerStep ==
    ASSUME ScriptInv, ReadSpeaker
    PROVE  ScriptInv'
  <1>1. PICK name : name = NameIn(script[at])
    OBVIOUS
  <1>2. PICK s : s = Segment("speaker_change", <<>>, Calm(name))
    OBVIOUS
  <1>3. PICK k : k = [Calm(name) EXCEPT !.emphasis = mood.emphasis]
    OBVIOUS
  <1>4. /\ Reading("tagged") /\ script[at] \in SpeakerTags /\ segs' = Append(FlushText, s)
        /\ mood' = k /\ open' = <<>> /\ at' = at + 1 /\ UNCHANGED <<reader, script, outcome>>
    BY <1>1, <1>2, <1>3, Zenon DEF ReadSpeaker, SetMood, Token, Segment
  <1>5. /\ reader = "tagged" /\ outcome = "none" /\ at <= Len(script) /\ script \in Seq(Tokens)
        /\ at \in DOMAIN script /\ at \in Nat \ {0} /\ mood \in MoodRec
    BY <1>4, Here
  <1>6. Marks(script, reader, FlushText, at, PausesOf(segs, Len(segs)))
    BY <1>4, <1>5, Flushing
  <1>7. script[at] \notin SpokenBy(reader) /\ script[at] \notin SilentTo(reader)
    BY <1>4, <1>5 DEF SpokenBy, SilentTo, SpeakerTags
  <1>8. /\ Calm(name) \in MoodRec /\ k \in MoodRec
        /\ k.speaker = name /\ k.emotion = "none" /\ k.rate = "normal"
    <2>1. name \in {"narrator", "Ann", "Bob"}
      BY <1>1, NamesIn
    <2>2. PICK e : e = mood.emphasis
      OBVIOUS
    <2>3. e \in BOOLEAN
      BY <1>5, <2>2 DEF MoodRec
    <2>4. QED BY <1>3, <2>1, <2>2, <2>3, CalmIs
  <1>9. s \in SpanRec /\ s.words = <<>> /\ s.type = "speaker_change"
    <2>1. "speaker_change" \in SpanTypes
      BY DEF SpanTypes
    <2>2. QED BY <1>2, <1>8, <2>1, Wordless
  <1>10. Marks(script, reader, segs', at, PausesOf(segs, Len(segs)))
    <2>1. s.type \notin {"pause", "break"}
      BY <1>9
    <2>2. QED BY <1>4, <1>6, <1>9, <2>1, QuietMarks
  <1>11. Marks(script, reader, segs', at + 1, PausesOf(segs, Len(segs)))
    BY <1>5, <1>7, <1>10, SkipMarks
  <1>12. Matches(script, reader, k, at + 1)
    BY <1>1, <1>4, <1>5, <1>8, MatchesSpeaker
  <1>13. Reached
    BY <1>4, <1>7, <1>11, <1>12 DEF Reached, Marks
  <1>14. Kept
    BY <1>4, <1>8, <1>10 DEF Kept, Marks
  <1>15. Advances
    BY <1>4, <1>5 DEF Advances
  <1>16. QED BY <1>5, <1>13, <1>14, <1>15, Advanced

LEMMA PauseStep ==
    ASSUME ScriptInv, ReadPause
    PROVE  ScriptInv'
  <1>1. PICK s : s = Segment(script[at], <<>>, mood)
    OBVIOUS
  <1>2. /\ Reading("tagged") /\ script[at] \in {"pause", "pause?", "break"} /\ mood' = mood /\ open' = <<>>
        /\ segs' = IF script[at] = "pause?" THEN FlushText ELSE Append(FlushText, s)
        /\ at' = at + 1 /\ UNCHANGED <<reader, script, outcome>>
    BY <1>1, Zenon DEF ReadPause, SetMood, Token, Seg, Segment
  <1>3. /\ reader = "tagged" /\ outcome = "none" /\ at <= Len(script) /\ script \in Seq(Tokens)
        /\ at \in DOMAIN script /\ at \in Nat \ {0} /\ mood \in MoodRec /\ Matches(script, reader, mood, at)
    BY <1>2, Here
  <1>4. PICK c : c = PausesOf(segs, Len(segs)) /\ Marks(script, reader, FlushText, at, c)
    BY <1>2, <1>3, Flushing
  <1> DEFINE d == IF script[at] \in SilentTo(reader) THEN c + 1 ELSE c
  <1>5. /\ script[at] \notin SpokenBy(reader) /\ (script[at] \in SilentTo(reader) <=> script[at] # "pause?")
        /\ script[at] \notin SpeakerTags /\ script[at] \notin Emotions /\ script[at] \notin Rates
    BY <1>2, <1>3 DEF SpokenBy, SilentTo, SpeakerTags, Emotions, Rates
  <1>6. Marks(script, reader, segs', at, d)
    <2>1. CASE script[at] = "pause?"
      BY <1>2, <1>4, <1>5, <2>1
    <2>2. CASE script[at] # "pause?"
      <3>1. segs' = Append(FlushText, s)
        BY <1>2, <2>2
      <3>2. script[at] \in SpanTypes /\ script[at] \in {"pause", "break"}
        BY <1>2, <2>2 DEF SpanTypes
      <3>3. s \in SpanRec /\ s.words = <<>> /\ s.type \in {"pause", "break"}
        BY <1>1, <1>3, <3>2, Wordless
      <3>4. Marks(script, reader, segs', at, c + 1)
        BY <1>4, <3>1, <3>3, PauseMarks
      <3>5. QED BY <1>5, <2>2, <3>4
    <2>3. QED BY <2>1, <2>2
  <1> HIDE DEF d
  <1>7. Marks(script, reader, segs', at + 1, d)
    BY <1>3, <1>5, <1>6, SkipMarks
  <1>8. Turned(reader, mood, mood, script[at])
    BY <1>5 DEF Turned
  <1>9. Matches(script, reader, mood, at + 1)
    BY <1>3, <1>5, <1>8, MatchesFurther
  <1>10. Reached
    BY <1>2, <1>4, <1>7, <1>9 DEF Reached, Marks, d
  <1>11. Kept
    BY <1>2, <1>3, <1>7 DEF Kept, Marks
  <1>12. Advances
    BY <1>2, <1>3 DEF Advances
  <1>13. QED BY <1>3, <1>10, <1>11, <1>12, Advanced

LEMMA MoodStep ==
    ASSUME ScriptInv, ReadMood
    PROVE  ScriptInv'
  <1>1. PICK k : k = IF script[at] \in Emotions THEN [mood EXCEPT !.emotion = script[at]]
                     ELSE [mood EXCEPT !.rate = script[at]]
    OBVIOUS
  <1>2. /\ Reading("tagged") /\ script[at] \in Emotions \cup Rates /\ mood' = k /\ open' = <<>>
        /\ segs' = FlushText /\ at' = at + 1 /\ UNCHANGED <<reader, script, outcome>>
    BY <1>1, Zenon DEF ReadMood, FlushThen, SetMood, Token
  <1>3. /\ reader = "tagged" /\ outcome = "none" /\ at <= Len(script) /\ script \in Seq(Tokens)
        /\ at \in DOMAIN script /\ at \in Nat \ {0} /\ mood \in MoodRec /\ Matches(script, reader, mood, at)
    BY <1>2, Here
  <1>4. Marks(script, reader, FlushText, at, PausesOf(segs, Len(segs)))
    BY <1>2, <1>3, Flushing
  <1>5. /\ script[at] \notin SpokenBy(reader) /\ script[at] \notin SilentTo(reader)
        /\ script[at] \notin SpeakerTags /\ ~(script[at] \in Emotions /\ script[at] \in Rates)
    BY <1>2, <1>3 DEF SpokenBy, SilentTo, SpeakerTags, Emotions, Rates
  <1>6. Marks(script, reader, FlushText, at + 1, PausesOf(segs, Len(segs)))
    BY <1>3, <1>4, <1>5, SkipMarks
  <1>7. k \in MoodRec /\ Turned(reader, mood, k, script[at])
    <2>1. CASE script[at] \in Emotions
      BY <1>1, <1>3, <1>5, <2>1 DEF MoodRec, Turned
    <2>2. CASE script[at] \notin Emotions
      BY <1>1, <1>2, <1>3, <2>2 DEF MoodRec, Turned
    <2>3. QED BY <2>1, <2>2
  <1>8. Matches(script, reader, k, at + 1)
    BY <1>3, <1>5, <1>7, MatchesFurther
  <1>9. Reached
    BY <1>2, <1>5, <1>6, <1>8 DEF Reached, Marks
  <1>10. Kept
    BY <1>2, <1>4, <1>7 DEF Kept, Marks
  <1>11. Advances
    BY <1>2, <1>3 DEF Advances
  <1>12. QED BY <1>3, <1>9, <1>10, <1>11, Advanced

LEMMA EmphasisStep ==
    ASSUME ScriptInv, ReadEmphasis
    PROVE  ScriptInv'
  <1>1. PICK k : k = [mood EXCEPT !.emphasis = TRUE]
    OBVIOUS
  <1>2. /\ Reading("tagged") /\ script[at] = "emphasis" /\ mood' = k /\ open' = open
        /\ segs' = segs /\ at' = at + 1 /\ UNCHANGED <<reader, script, outcome>>
    BY <1>1, Zenon DEF ReadEmphasis, SetMood, Token
  <1>3. /\ reader = "tagged" /\ outcome = "none" /\ at <= Len(script) /\ script \in Seq(Tokens)
        /\ at \in DOMAIN script /\ at \in Nat \ {0} /\ segs \in Seq(SpanRec) /\ open \in Seq(Nat) /\ mood \in MoodRec
        /\ Core(script, reader, segs, open, mood, at) /\ Matches(script, reader, mood, at)
    BY <1>2, Here
  <1>4. /\ script[at] \notin SpokenBy(reader) /\ script[at] \notin SilentTo(reader)
        /\ script[at] \notin SpeakerTags /\ script[at] \notin Emotions /\ script[at] \notin Rates
    BY <1>2, <1>3 DEF SpokenBy, SilentTo, SpeakerTags, Emotions, Rates
  <1>5. k \in MoodRec /\ k.speaker = mood.speaker /\ k.emotion = mood.emotion /\ k.rate = mood.rate
    BY <1>1, <1>3 DEF MoodRec
  <1>6. Core(script, reader, segs, open, k, at)
    BY <1>3, <1>5 DEF Core, Fits, Matches
  <1>7. Core(script, reader, segs, open, k, at + 1)
    BY <1>3, <1>4, <1>6, SkipCore
  <1>8. Turned(reader, mood, k, script[at])
    BY <1>4, <1>5 DEF Turned
  <1>9. Matches(script, reader, k, at + 1)
    BY <1>3, <1>4, <1>8, MatchesFurther
  <1>10. Reached
    BY <1>2, <1>4, <1>7, <1>9 DEF Reached
  <1>11. Kept
    BY <1>2, <1>3, <1>5 DEF Kept
  <1>12. Advances
    BY <1>2, <1>3 DEF Advances
  <1>13. QED BY <1>3, <1>10, <1>11, <1>12, Advanced

LEMMA ReadingEnds ==
    ASSUME ScriptInv, EndRead
    PROVE  ScriptInv'
  <1>1. /\ reader = "tagged" /\ at = Len(script) + 1 /\ outcome = "none" /\ segs' = MergedSegs(FlushText)
        /\ open' = <<>> /\ at' = at + 1 /\ outcome' = "ok" /\ UNCHANGED <<reader, script, mood>>
    BY DEF EndRead
  <1>2. /\ script \in Seq(Tokens) /\ at \in Nat \ {0} /\ segs \in Seq(SpanRec) /\ open \in Seq(Nat) /\ mood \in MoodRec
        /\ Core(script, reader, segs, open, mood, at)
    BY <1>1 DEF ScriptInv, ScriptTyped, Underway
  <1>3. FlushText = Flushed(segs, open, mood)
    BY Zenon DEF FlushText, Flushed, Seg, Segment
  <1>4. Marks(script, reader, FlushText, at, PausesOf(segs, Len(segs)))
    BY <1>2, <1>3, FlushMarks
  <1>5. /\ FlushText \in Seq(SpanRec) /\ Right(script, reader, FlushText)
        /\ Enum(WordsOf(FlushText), Said(script, reader, at))
    BY <1>4, MarksHave
  <1>6. /\ segs' \in Seq(SpanRec) /\ WordsOf(segs') = WordsOf(FlushText) /\ Right(script, reader, segs')
    BY <1>1, <1>5, MergedKeeps
  <1>7. AllSaid'
    BY <1>1, <1>5, <1>6 DEF AllSaid
  <1>8. ScriptTyped'
    <2>1. at' \in Nat \ {0} /\ open' \in Seq(Nat)
      BY <1>1, <1>2
    <2>2. QED BY <1>1, <1>2, <1>6, <2>1 DEF ScriptTyped
  <1>9. QED BY <1>1, <1>7, <1>8 DEF ScriptInv, Underway

LEMMA ChapterEnds ==
    ASSUME ScriptInv, EndChapter
    PROVE  ScriptInv'
  <1>1. /\ reader = "gpu" /\ at = Len(script) + 1 /\ outcome = "none" /\ outcome' = "ok" /\ at' = at + 1
        /\ UNCHANGED <<reader, script, open, mood, segs>>
    BY DEF EndChapter, Speaks
  <1>2. /\ ScriptTyped /\ open = <<>> /\ segs \in Seq(SpanRec) /\ at \in Nat \ {0}
        /\ Core(script, reader, segs, open, mood, at)
    BY <1>1 DEF ScriptInv, ScriptTyped, Underway
  <1>3. WordsOf(segs) \o <<>> = WordsOf(segs)
    <2>1. WordsOf(segs) \in Seq(Nat)
      BY <1>2, WordingsAre
    <2>2. QED BY <2>1, ConcatEmptySeq
  <1>4. Enum(WordsOf(segs), Said(script, reader, at)) /\ Right(script, reader, segs)
    BY <1>2, <1>3 DEF Core
  <1>5. AllSaid'
    BY <1>1, <1>4 DEF AllSaid
  <1>6. ScriptTyped'
    BY <1>1, <1>2 DEF ScriptTyped
  <1>7. QED BY <1>1, <1>5, <1>6 DEF ScriptInv, Underway

\* The router leaves nothing waiting.
LEMMA Routing ==
    ASSUME ScriptInv, Reading("gpu")
    PROVE  /\ Marks(script, reader, segs, at, PausesOf(segs, Len(segs)))
           /\ reader = "gpu" /\ outcome = "none" /\ at <= Len(script) /\ script \in Seq(Tokens)
           /\ at \in DOMAIN script /\ at \in Nat \ {0} /\ script[at] \in Tokens /\ mood \in MoodRec
           /\ segs \in Seq(SpanRec) /\ open = <<>> /\ Matches(script, reader, mood, at)
           /\ Core(script, reader, segs, open, mood, at) /\ Ahead(script, reader, segs, mood, at)
  <1>1. /\ reader = "gpu" /\ outcome = "none" /\ at <= Len(script) /\ script \in Seq(Tokens)
        /\ at \in DOMAIN script /\ at \in Nat \ {0} /\ script[at] \in Tokens /\ mood \in MoodRec
        /\ segs \in Seq(SpanRec) /\ open \in Seq(Nat) /\ open = <<>> /\ Matches(script, reader, mood, at)
        /\ Core(script, reader, segs, open, mood, at) /\ Ahead(script, reader, segs, mood, at)
    BY Here
  <1>2. Flushed(segs, open, mood) = segs
    BY <1>1 DEF Flushed
  <1>3. Marks(script, reader, Flushed(segs, open, mood), at, PausesOf(segs, Len(segs)))
    BY <1>1, FlushMarks
  <1>4. QED BY <1>1, <1>2, <1>3

\* A text posted by the router.
LEMMA Posts ==
    ASSUME ScriptInv, Reading("gpu"), script[at] \in SpokenBy("gpu"),
           segs' = Append(segs, Seg("text", <<at>>)), at' = at + 1, UNCHANGED open, SetMood(mood)
    PROVE  ScriptInv'
  <1>1. /\ reader = "gpu" /\ outcome = "none" /\ at <= Len(script) /\ script \in Seq(Tokens)
        /\ at \in DOMAIN script /\ at \in Nat \ {0} /\ mood \in MoodRec
        /\ segs \in Seq(SpanRec) /\ open = <<>> /\ Matches(script, reader, mood, at)
        /\ Core(script, reader, segs, open, mood, at) /\ Ahead(script, reader, segs, mood, at)
    BY Routing
  <1>2. /\ script[at] \in SpokenBy(reader) /\ script[at] \notin SilentTo(reader) /\ script[at] \notin SpeakerTags
        /\ script[at] \notin Rates
    BY <1>1 DEF SpokenBy, SilentTo, SpeakerTags, Emotions, Rates
  <1>3. PICK op : op = Append(open, at)
    OBVIOUS
  <1>4. op = <<at>> /\ op # <<>> /\ op \in Seq(Nat)
    BY <1>1, <1>3
  <1>5. Core(script, reader, segs, op, mood, at + 1)
    <2>1. open \in Seq(Nat)
      BY <1>1
    <2>2. QED BY <1>1, <1>2, <1>3, <2>1, WordCore
  <1>6. segs' = Flushed(segs, op, mood)
    BY <1>4, Zenon DEF Seg, Segment, Flushed
  <1>7. Marks(script, reader, segs', at + 1, PausesOf(segs, Len(segs)))
    BY <1>1, <1>4, <1>5, <1>6, FlushMarks
  <1>8. mood' = mood /\ open' = <<>> /\ UNCHANGED <<reader, script, outcome>>
    BY <1>1 DEF SetMood
  <1>9. Turned(reader, mood, mood, script[at])
    BY <1>1 DEF Turned
  <1>10. Matches(script, reader, mood, at + 1)
    BY <1>1, <1>2, <1>9, MatchesFurther
  <1>11. Reached
    BY <1>2, <1>7, <1>8, <1>10 DEF Reached, Marks
  <1>12. Kept
    BY <1>1, <1>7, <1>8 DEF Kept, Marks
  <1>13. Advances
    BY <1>1, <1>8 DEF Advances
  <1>14. QED BY <1>1, <1>11, <1>12, <1>13, Advanced

LEMMA TurnStep ==
    ASSUME ScriptInv, TurnTo
    PROVE  ScriptInv'
  <1>1. PICK name : name = NameIn(script[at])
    OBVIOUS
  <1>2. /\ Reading("gpu") /\ script[at] \in SpeakerTags /\ UNCHANGED <<reader, script>>
        /\ \/ outcome' = "unknown_character" /\ UNCHANGED <<at, open, mood, segs>>
           \/ segs' = segs \o Gap(name) /\ mood' = Calm(name) /\ at' = at + 1 /\ UNCHANGED <<open, outcome>>
    BY <1>1, Zenon DEF TurnTo, Token, Speaks
  <1>3. /\ Marks(script, reader, segs, at, PausesOf(segs, Len(segs)))
        /\ reader = "gpu" /\ outcome = "none" /\ at <= Len(script) /\ script \in Seq(Tokens)
        /\ at \in DOMAIN script /\ at \in Nat \ {0} /\ mood \in MoodRec /\ segs \in Seq(SpanRec) /\ open = <<>>
    BY <1>2, Routing
  <1>4. CASE outcome' = "unknown_character" /\ UNCHANGED <<at, open, mood, segs>>
    BY <1>2, <1>4 DEF ScriptInv, ScriptTyped, Underway, AllSaid
  <1>5. CASE segs' = segs \o Gap(name) /\ mood' = Calm(name) /\ at' = at + 1 /\ UNCHANGED <<open, outcome>>
    <2>1. script[at] \notin SpokenBy(reader) /\ script[at] \notin SilentTo(reader)
      BY <1>2, <1>3 DEF SpokenBy, SilentTo, SpeakerTags, Emotions
    <2>2. Marks(script, reader, segs', at, PausesOf(segs, Len(segs)))
      <3>1. CASE segs = <<>>
        <4>1. Gap(name) = <<>>
          BY <3>1 DEF Gap
        <4>2. segs' = segs
          BY <1>3, <1>5, <4>1, ConcatEmptySeq
        <4>3. QED BY <1>3, <4>2
      <3>2. CASE segs # <<>>
        <4>1. PICK ty : ty = IF name = mood.speaker THEN "gap" ELSE "double_gap"
          OBVIOUS
        <4>2. ty \in SpanTypes /\ ty \notin {"pause", "break"}
          BY <4>1 DEF SpanTypes
        <4>3. PICK s : s = Segment(ty, <<>>, mood)
          OBVIOUS
        <4>4. s \in SpanRec /\ s.words = <<>> /\ s.type \notin {"pause", "break"}
          BY <1>3, <4>2, <4>3, Wordless
        <4>5. Gap(name) = <<s>>
          BY <3>2, <4>1, <4>3, Zenon DEF Gap, Segment
        <4>6. segs' = Append(segs, s)
          BY <1>3, <1>5, <4>4, <4>5, AppendIsConcat
        <4>7. QED BY <1>3, <4>4, <4>6, QuietMarks
      <3>3. QED BY <3>1, <3>2
    <2>3. Marks(script, reader, segs', at + 1, PausesOf(segs, Len(segs)))
      BY <1>3, <2>1, <2>2, SkipMarks
    <2>4. /\ Calm(name) \in MoodRec /\ Calm(name).speaker = name
          /\ Calm(name).emotion = "none" /\ Calm(name).rate = "normal"
      <3>1. name \in {"narrator", "Ann", "Bob"}
        BY <1>1, NamesIn
      <3>2. QED BY <3>1, CalmIs
    <2>5. Matches(script, reader, Calm(name), at + 1)
      BY <1>1, <1>2, <1>3, <2>4, MatchesSpeaker
    <2>6. Reached
      BY <1>3, <1>5, <2>1, <2>3, <2>5 DEF Reached, Marks
    <2>7. Kept
      BY <1>3, <1>5, <2>3, <2>4 DEF Kept, Marks
    <2>8. Advances
      BY <1>2, <1>3, <1>5 DEF Advances
    <2>9. QED BY <1>3, <2>6, <2>7, <2>8, Advanced
  <1>6. QED BY <1>2, <1>4, <1>5

LEMMA SilenceStep ==
    ASSUME ScriptInv, Silence
    PROVE  ScriptInv'
  <1>1. PICK s : s = Segment("pause", <<>>, mood)
    OBVIOUS
  <1>2. /\ Reading("gpu") /\ script[at] = "pause" /\ segs' = Append(segs, s) /\ at' = at + 1
        /\ mood' = mood /\ UNCHANGED <<open, reader, script, outcome>>
    BY <1>1, Zenon DEF Silence, SetMood, Token, Speaks, Seg, Segment
  <1>3. /\ Marks(script, reader, segs, at, PausesOf(segs, Len(segs)))
        /\ reader = "gpu" /\ outcome = "none" /\ at <= Len(script) /\ script \in Seq(Tokens)
        /\ at \in DOMAIN script /\ at \in Nat \ {0} /\ mood \in MoodRec /\ open = <<>>
        /\ Matches(script, reader, mood, at)
    BY <1>2, Routing
  <1>4. /\ script[at] \notin SpokenBy(reader) /\ script[at] \in SilentTo(reader) /\ script[at] \notin SpeakerTags
    BY <1>2, <1>3 DEF SpokenBy, SilentTo, SpeakerTags, Emotions
  <1>5. s \in SpanRec /\ s.words = <<>> /\ s.type \in {"pause", "break"}
    <2>1. "pause" \in SpanTypes
      BY DEF SpanTypes
    <2>2. QED BY <1>1, <1>3, <2>1, Wordless
  <1>6. Marks(script, reader, segs', at, PausesOf(segs, Len(segs)) + 1)
    BY <1>2, <1>3, <1>5, PauseMarks
  <1>7. Marks(script, reader, segs', at + 1, PausesOf(segs, Len(segs)) + 1)
    BY <1>3, <1>4, <1>6, SkipMarks
  <1>8. Turned(reader, mood, mood, script[at])
    BY <1>3 DEF Turned
  <1>9. Matches(script, reader, mood, at + 1)
    BY <1>3, <1>4, <1>8, MatchesFurther
  <1>10. Reached
    BY <1>2, <1>3, <1>4, <1>7, <1>9 DEF Reached, Marks
  <1>11. Kept
    BY <1>2, <1>3, <1>7 DEF Kept, Marks
  <1>12. Advances
    BY <1>2, <1>3 DEF Advances
  <1>13. QED BY <1>3, <1>10, <1>11, <1>12, Advanced

LEMMA MarkerStep ==
    ASSUME ScriptInv, SkipMarker
    PROVE  ScriptInv'
  <1>1. /\ Reading("gpu") /\ script[at] \in Rates \cup {"emphasis"} /\ at' = at + 1
        /\ mood' = mood /\ UNCHANGED <<open, segs, reader, script, outcome>>
    BY DEF SkipMarker, SetMood, Token, Speaks
  <1>2. /\ reader = "gpu" /\ outcome = "none" /\ at <= Len(script) /\ script \in Seq(Tokens)
        /\ at \in DOMAIN script /\ at \in Nat \ {0} /\ mood \in MoodRec /\ segs \in Seq(SpanRec) /\ open = <<>>
        /\ Matches(script, reader, mood, at) /\ Core(script, reader, segs, open, mood, at)
    BY <1>1, Routing
  <1>3. script[at] \notin SpokenBy(reader) /\ script[at] \notin SilentTo(reader) /\ script[at] \notin SpeakerTags
    BY <1>1, <1>2 DEF SpokenBy, SilentTo, SpeakerTags, Emotions, Rates
  <1>4. Core(script, reader, segs, open, mood, at + 1)
    BY <1>2, <1>3, SkipCore
  <1>5. Turned(reader, mood, mood, script[at])
    BY <1>2 DEF Turned
  <1>6. Matches(script, reader, mood, at + 1)
    BY <1>2, <1>3, <1>5, MatchesFurther
  <1>7. Reached
    BY <1>1, <1>3, <1>4, <1>6 DEF Reached
  <1>8. Kept
    <2>1. <<>> \in Seq(Nat)
      OBVIOUS
    <2>2. QED BY <1>1, <1>2, <2>1 DEF Kept
  <1>9. Advances
    BY <1>1, <1>2 DEF Advances
  <1>10. QED BY <1>2, <1>7, <1>8, <1>9, Advanced

LEMMA ScriptStep == ScriptInv /\ [ScriptNext]_scriptVars => ScriptInv'
  <1> SUFFICES ASSUME ScriptInv, [ScriptNext]_scriptVars PROVE ScriptInv'
    OBVIOUS
  <1>1. CASE PostText
    <2>1. script[at] \in SpokenBy("gpu")
      BY <1>1 DEF PostText, Token, SpokenBy
    <2>2. QED BY <1>1, <2>1, Posts DEF PostText, Speaks
  <1>2. CASE PostForeignTag
    <2>1. script[at] \in SpokenBy("gpu")
      BY <1>2 DEF PostForeignTag, Token, SpokenBy
    <2>2. QED BY <1>2, <2>1, Posts DEF PostForeignTag, Speaks
  <1>3. CASE PostFails
    <2>1. outcome' = "synthesis_error" /\ UNCHANGED <<reader, script, at, open, mood, segs>>
      BY <1>3 DEF PostFails
    <2>2. QED BY <2>1 DEF ScriptInv, ScriptTyped, Underway, AllSaid
  <1>4. CASE UNCHANGED scriptVars
    BY <1>4 DEF scriptVars, ScriptInv, ScriptTyped, Underway, AllSaid
  <1>5. QED BY <1>1, <1>2, <1>3, <1>4, WordStep, SpeakerStep, PauseStep, MoodStep, EmphasisStep, ReadingEnds,
              ChapterEnds, TurnStep, SilenceStep, MarkerStep DEF ScriptNext

\* Whatever the script and its reader: every spoken token is in one segment, in
\* order, on the right side of every pause, and in the voice and mood of the
\* last tags before it (prosody_parser.py, gpu_synthesis.py).
THEOREM ScriptIsSpoken == ScriptSpec => []SpokenAsWritten
  <1>1. ScriptInv => SpokenAsWritten
    <2> SUFFICES ASSUME ScriptInv, outcome = "ok" PROVE SpokenAsWritten
      BY DEF SpokenAsWritten
    <2>1. /\ Enum(WordsSaid, Said(script, reader, Len(script) + 1)) /\ Right(script, reader, segs)
          /\ script \in Seq(Tokens) /\ segs \in Seq(SpanRec)
      BY AsWritten DEF ScriptInv, AllSaid, ScriptTyped
    <2>2. Said(script, reader, Len(script) + 1) = {k \in DOMAIN script : script[k] \in SpokenTokens}
      <3>1. \A k \in DOMAIN script : k < Len(script) + 1
        BY <2>1
      <3>2. SpokenTokens = SpokenBy(reader)
        BY AsWritten
      <3>3. QED BY <3>1, <3>2 DEF Said
    <2>3. ASSUME NEW i \in DOMAIN segs, NEW k \in Range(segs[i].words)
          PROVE  /\ segs[i].mood.speaker = SpeakerAt(k)
                 /\ reader = "tagged" => /\ segs[i].mood.emotion = MoodAt(k, Emotions, "none")
                                         /\ segs[i].mood.rate = MoodAt(k, Rates, "normal")
                 /\ PausesIn(i) = PausesBefore(k)
      <3>1. Matches(script, reader, segs[i].mood, k) /\ PausesTo(script, reader, k) = PausesOf(segs, i)
        BY <2>1, <2>3 DEF Right, Fits
      <3>2. SpeakerAt(k) = SpeakerIn(script, k) /\ PausesIn(i) = PausesOf(segs, i)
            /\ PausesBefore(k) = PausesTo(script, reader, k)
        BY AsWritten
      <3>3. MoodAt(k, Emotions, "none") = MoodIn(script, k, Emotions, "none")
            /\ MoodAt(k, Rates, "normal") = MoodIn(script, k, Rates, "normal")
        BY AsWritten
      <3>4. QED BY <3>1, <3>2, <3>3 DEF Matches
    <2>4. QED BY <2>1, <2>2, <2>3 DEF SpokenAsWritten, Enum
  <1>2. QED BY <1>1, ScriptStarts, ScriptStep, PTL DEF ScriptSpec

-----------------------------------------------------------------------------
(* What is picked of a sequence, element by element, and put in a row.         *)

PickOf(f, q) == FlattenSeq(MapOf(f, q))
Picks(f, X, Y) == Maps(f, X, Seq(Y))

Regroups(a, b, c) == (a \o b) \o c = a \o (b \o c)

LEMMA Regrouped ==
    ASSUME NEW X, NEW a \in Seq(X), NEW b \in Seq(X), NEW c \in Seq(X)
    PROVE  Regroups(a, b, c)
  BY ConcatAssociative DEF Regroups

LEMMA FlattenConcat ==
    ASSUME NEW X, NEW ss \in Seq(Seq(X)), NEW ts \in Seq(Seq(X))
    PROVE  FlattenSeq(ss \o ts) = FlattenSeq(ss) \o FlattenSeq(ts)
  <1>1. PICK M \in Nat, N \in Nat : M = Len(ss) /\ N = Len(ts)
    OBVIOUS
  <1>2. PICK us \in Seq(Seq(X)) : us = ss \o ts
    BY ConcatProperties
  <1>3. Len(us) = M + N /\ \A i \in 1..M : us[i] = ss[i]
    BY <1>1, <1>2, ConcatProperties
  <1>4. \A i \in 1..N : us[M + i] = ts[i]
    BY <1>1, <1>2, ConcatProperties
  <1>5. PICK f \in [0..M -> Seq(X)] : StrungUp(f, ss)
    BY <1>1, Flattened
  <1>6. PICK h \in [0..N -> Seq(X)] : StrungUp(h, ts)
    BY <1>1, Flattened
  <1>7. PICK g \in [0..(M + N) -> Seq(X)] : StrungUp(g, us)
    BY <1>3, Flattened
  <1>8. /\ f[0] = <<>> /\ FlattenSeq(ss) = f[M] /\ \A n \in 1..M : f[n] = f[n - 1] \o ss[n]
        /\ h[0] = <<>> /\ FlattenSeq(ts) = h[N] /\ \A n \in 1..N : h[n] = h[n - 1] \o ts[n]
        /\ g[0] = <<>> /\ FlattenSeq(us) = g[M + N] /\ \A n \in 1..(M + N) : g[n] = g[n - 1] \o us[n]
    BY <1>1, <1>3, <1>5, <1>6, <1>7 DEF StrungUp
  <1> DEFINE S == {n \in 0..M : g[n] = f[n]}
             T == {n \in 0..N : g[M + n] = f[M] \o h[n]}
  <1>9. \A n \in 0..M : n \in S
    <2>1. 0 \in S
      BY <1>8
    <2>2. ASSUME NEW n \in 1..M, n - 1 \in S PROVE n \in S
      <3>1. n \in 1..(M + N) /\ g[n - 1] = f[n - 1]
        BY <2>2
      <3>2. g[n] = g[n - 1] \o us[n] /\ f[n] = f[n - 1] \o ss[n] /\ us[n] = ss[n]
        BY <1>3, <1>8, <3>1
      <3>3. n \in 0..M /\ g[n] = f[n]
        BY <3>1, <3>2
      <3>4. QED BY <3>3, Zenon
    <2> HIDE DEF S
    <2>3. QED BY <2>1, <2>2, UpTo, Zenon
  <1>10. g[M] = f[M] /\ f[M] \in Seq(X)
    BY <1>5, <1>9
  <1>11. \A n \in 0..N : n \in T
    <2>1. 0 \in T
      <3>1. f[M] \o <<>> = f[M]
        BY <1>10, ConcatEmptySeq
      <3>2. 0 \in 0..N /\ g[M + 0] = g[M] /\ h[0] = <<>>
        BY <1>8
      <3>3. g[M + 0] = f[M] \o h[0]
        BY <1>10, <3>1, <3>2, Zenon
      <3>4. QED BY <3>2, <3>3, Zenon
    <2>2. ASSUME NEW n \in 1..N, n - 1 \in T PROVE n \in T
      <3>1. PICK k \in 0..N : k = n - 1
        OBVIOUS
      <3>2. g[M + k] = f[M] \o h[k]
        BY <2>2, <3>1, Zenon
      <3>7. PICK a \in Seq(X), b \in Seq(X), c \in Seq(X) : a = f[M] /\ b = h[k] /\ c = ts[n]
        <4>1. h[k] \in Seq(X) /\ f[M] \in Seq(X)
          BY <1>6, <1>10
        <4>2. ts[n] \in Seq(X)
          BY <1>1
        <4>3. QED BY <4>1, <4>2, Zenon
      <3>3. M + n \in 1..(M + N) /\ (M + n) - 1 = M + k
        BY <3>1
      <3>4. g[M + n] = g[M + k] \o ts[n] /\ h[n] = h[k] \o ts[n]
        BY <1>4, <1>8, <3>1, <3>3
      <3>5. Regroups(a, b, c)
        BY Regrouped, Zenon
      <3>6. n \in 0..N
        OBVIOUS
      <3>8. g[M + n] = (a \o b) \o c /\ f[M] \o h[n] = a \o (b \o c)
        BY <3>2, <3>4, <3>7, Zenon
      <3>9. g[M + n] = f[M] \o h[n]
        BY <3>5, <3>8, Zenon DEF Regroups
      <3>10. QED BY <3>6, <3>9, Zenon
    <2> HIDE DEF T
    <2>3. QED BY <2>1, <2>2, UpTo, Zenon
  <1>12. g[M + N] = f[M] \o h[N]
    BY <1>11
  <1>13. QED BY <1>2, <1>8, <1>12

LEMMA PickType ==
    ASSUME NEW X, NEW Y, NEW f, Picks(f, X, Y), NEW q \in Seq(X)
    PROVE  PickOf(f, q) \in Seq(Y) /\ MapOf(f, q) \in Seq(Seq(Y)) /\ Len(MapOf(f, q)) = Len(q)
  <1>1. MapOf(f, q) \in Seq(Seq(Y)) /\ Len(MapOf(f, q)) = Len(q)
    BY Mapped DEF Picks
  <1>2. QED BY <1>1, StrungType DEF PickOf

LEMMA PickNone == \A f : PickOf(f, <<>>) = <<>>
  <1>1. \A f : MapOf(f, <<>>) = <<>>
    BY DEF MapOf
  <1>2. QED BY <1>1, StrungNone DEF PickOf

LEMMA PickConcat ==
    ASSUME NEW X, NEW Y, NEW f, Picks(f, X, Y), NEW q \in Seq(X), NEW r \in Seq(X)
    PROVE  PickOf(f, q \o r) = PickOf(f, q) \o PickOf(f, r)
  <1>1. MapOf(f, q \o r) = MapOf(f, q) \o MapOf(f, r)
    BY MapConcat DEF Picks
  <1>2. MapOf(f, q) \in Seq(Seq(Y)) /\ MapOf(f, r) \in Seq(Seq(Y))
    BY PickType
  <1>3. QED BY <1>1, <1>2, FlattenConcat DEF PickOf

LEMMA PickOne ==
    ASSUME NEW X, NEW Y, NEW f, Picks(f, X, Y), NEW x \in X
    PROVE  PickOf(f, <<x>>) = f[x] /\ f[x] \in Seq(Y)
  <1>1. f[x] \in Seq(Y)
    BY DEF Picks, Maps
  <1>2. PICK s \in Seq(Y) : s = f[x]
    BY <1>1
  <1>3. MapOf(f, <<x>>) = <<s>>
    BY <1>2 DEF MapOf
  <1>4. FlattenSeq(<<s>>) = FlattenSeq(<<>>) \o s
    <2>1. PICK none \in Seq(Seq(Y)) : none = <<>>
      <3>1. <<>> \in Seq(Seq(Y))
        OBVIOUS
      <3>2. QED BY <3>1, Zenon
    <2>2. PICK one \in Seq(Seq(Y)) : one = <<s>>
      <3>1. <<s>> \in Seq(Seq(Y))
        OBVIOUS
      <3>2. QED BY <3>1, Zenon
    <2>3. Len(one) = Len(none) + 1 /\ (\A i \in 1..Len(none) : one[i] = none[i]) /\ one[Len(one)] = s
      BY <2>1, <2>2
    <2>4. FlattenSeq(one) = FlattenSeq(none) \o one[Len(one)]
      BY <2>3, StrungFurther, Zenon
    <2>5. QED BY <2>1, <2>2, <2>3, <2>4, Zenon
  <1>5. FlattenSeq(<<>>) = <<>> /\ <<>> \o s = s
    BY <1>2, StrungNone, ConcatEmptySeq
  <1>6. QED BY <1>1, <1>2, <1>3, <1>4, <1>5 DEF PickOf

LEMMA PickAppend ==
    ASSUME NEW X, NEW Y, NEW f, Picks(f, X, Y), NEW q \in Seq(X), NEW x \in X
    PROVE  PickOf(f, Append(q, x)) = PickOf(f, q) \o f[x]
  <1>1. PICK t \in Seq(X) : t = <<x>>
    <2>1. <<x>> \in Seq(X)
      OBVIOUS
    <2>2. QED BY <2>1, Zenon
  <1>2. Append(q, x) = q \o t
    BY <1>1
  <1>3. PickOf(f, q \o t) = PickOf(f, q) \o PickOf(f, t)
    BY PickConcat
  <1>4. PickOf(f, t) = f[x]
    BY <1>1, PickOne, Zenon
  <1>5. QED BY <1>2, <1>3, <1>4, Zenon

LEMMA PickFlatten ==
    ASSUME NEW X, NEW Y, NEW f, Picks(f, X, Y), NEW ss \in Seq(Seq(X))
    PROVE  PickOf(f, FlattenSeq(ss)) = FlattenSeq([i \in DOMAIN ss |-> PickOf(f, ss[i])])
  <1>1. PICK N \in Nat : N = Len(ss) /\ DOMAIN ss = 1..N /\ \A n \in 1..N : ss[n] \in Seq(X)
    OBVIOUS
  <1>2. PICK ts : ts = [i \in DOMAIN ss |-> PickOf(f, ss[i])]
    OBVIOUS
  <1>3. \A n \in 1..N : ts[n] = PickOf(f, ss[n]) /\ ts[n] \in Seq(Y)
    BY <1>1, <1>2, PickType
  <1>4. ts \in Seq(Seq(Y)) /\ Len(ts) = N
    BY <1>1, <1>2, <1>3
  <1>5. PICK g \in [0..N -> Seq(X)] : StrungUp(g, ss)
    BY <1>1, Flattened
  <1>6. PICK h \in [0..N -> Seq(Y)] : StrungUp(h, ts)
    BY <1>4, Flattened
  <1>7. /\ g[0] = <<>> /\ FlattenSeq(ss) = g[N] /\ \A n \in 1..N : g[n] = g[n - 1] \o ss[n]
        /\ h[0] = <<>> /\ FlattenSeq(ts) = h[N] /\ \A n \in 1..N : h[n] = h[n - 1] \o ts[n]
    BY <1>1, <1>4, <1>5, <1>6 DEF StrungUp
  <1> DEFINE S == {n \in 0..N : h[n] = PickOf(f, g[n])}
  <1>8. 0 \in S
    BY <1>7, PickNone
  <1>9. ASSUME NEW n \in 1..N, n - 1 \in S PROVE n \in S
    <2>1. PICK k \in 0..N : k = n - 1
      OBVIOUS
    <2>2. h[k] = PickOf(f, g[k]) /\ g[k] \in Seq(X) /\ ss[n] \in Seq(X)
      BY <1>1, <1>5, <1>9, <2>1
    <2>3. PickOf(f, g[k] \o ss[n]) = PickOf(f, g[k]) \o PickOf(f, ss[n])
      <3>1. PICK a \in Seq(X), b \in Seq(X) : a = g[k] /\ b = ss[n]
        BY <2>2, Zenon
      <3>2. PickOf(f, a \o b) = PickOf(f, a) \o PickOf(f, b)
        BY PickConcat
      <3>3. QED BY <3>1, <3>2, Zenon
    <2>4. h[n] = h[k] \o ts[n] /\ g[n] = g[k] \o ss[n]
      BY <1>7, <2>1
    <2>5. h[n] = PickOf(f, g[n])
      BY <1>3, <2>2, <2>3, <2>4
    <2>6. QED BY <2>5
  <1>10. \A n \in 0..N : n \in S
    <2> HIDE DEF S
    <2>1. QED BY <1>8, <1>9, UpTo, Zenon
  <1>11. h[N] = PickOf(f, g[N])
    BY <1>10
  <1>12. QED BY <1>2, <1>7, <1>11

-----------------------------------------------------------------------------
(* The chapters of a book.                                                     *)

ChapterRec == [title : Nat, lines : Seq(LineRec)]
SectionRec == [out : Seq(ChapterRec), title : Nat, buf : Seq(LineRec)]
ProseOf == [l \in LineRec |-> IF l.kind = "prose" THEN <<l>> ELSE <<>>]
ChapterLines == [c \in ChapterRec |-> c.lines]
LinesIn(out) == PickOf(ChapterLines, out)

LEMMA ProsePicks == Picks(ProseOf, LineRec, LineRec)
  <1>1. \A l \in LineRec : (IF l.kind = "prose" THEN <<l>> ELSE <<>>) \in Seq(LineRec)
    OBVIOUS
  <1>2. QED BY <1>1 DEF ProseOf, Picks, Maps

LEMMA ProseAt == \A l \in LineRec : ProseOf[l] = IF l.kind = "prose" THEN <<l>> ELSE <<>>
  BY DEF ProseOf

LEMMA ProseIs ==
    ASSUME NEW q \in Seq(LineRec)
    PROVE  Prose(q) = PickOf(ProseOf, q) /\ Prose(q) \in Seq(LineRec)
  <1>1. \A i \in DOMAIN q : q[i] \in LineRec
    OBVIOUS
  <1>2. \A i \in DOMAIN q : ProseOf[q[i]] = IF q[i].kind = "prose" THEN <<q[i]>> ELSE <<>>
    BY <1>1, ProseAt
  <1>3. MapOf(ProseOf, q) = [i \in DOMAIN q |-> IF q[i].kind = "prose" THEN <<q[i]>> ELSE <<>>]
    BY <1>2 DEF MapOf
  <1>4. Prose(q) = PickOf(ProseOf, q)
    BY <1>3 DEF Prose, PickOf
  <1>5. QED BY <1>4, ProsePicks, PickType

LEMMA ProseNone == Prose(<<>>) = <<>>
  <1>1. PICK q \in Seq(LineRec) : q = <<>>
    <2>1. <<>> \in Seq(LineRec)
      OBVIOUS
    <2>2. QED BY <2>1, Zenon
  <1>2. Prose(q) = PickOf(ProseOf, q)
    BY ProseIs
  <1>3. QED BY <1>1, <1>2, PickNone

LEMMA ChapterLinesPick == Picks(ChapterLines, ChapterRec, LineRec)
  BY DEF ChapterLines, ChapterRec, Picks, Maps

LEMMA LinesInIs ==
    ASSUME NEW out \in Seq(ChapterRec)
    PROVE  /\ FlattenSeq([i \in DOMAIN out |-> out[i].lines]) = LinesIn(out)
           /\ LinesIn(out) \in Seq(LineRec)
  <1>1. \A i \in DOMAIN out : ChapterLines[out[i]] = out[i].lines
    BY DEF ChapterLines
  <1>2. MapOf(ChapterLines, out) = [i \in DOMAIN out |-> out[i].lines]
    BY <1>1 DEF MapOf
  <1>3. QED BY <1>2, ChapterLinesPick, PickType DEF LinesIn, PickOf

LEMMA SizeNone == Size(<<>>) = 0
  <1>1. PICK s : s = [i \in DOMAIN <<>> |-> <<>>[i].size]
    OBVIOUS
  <1>2. Len(s) = 0
    BY <1>1
  <1>3. QED BY <1>1, <1>2, SumNone DEF Size

LEMMA SizeNatural ==
    ASSUME NEW q \in Seq(LineRec)
    PROVE  Size(q) \in Nat
  <1>1. PICK s : s = [i \in DOMAIN q |-> q[i].size]
    OBVIOUS
  <1>2. \A i \in DOMAIN q : q[i].size \in Nat
    <2>1. \A l \in LineRec : l.size \in Nat
      BY DEF LineRec
    <2>2. \A i \in DOMAIN q : q[i] \in LineRec
      OBVIOUS
    <2>3. QED BY <2>1, <2>2
  <1>3. s \in Seq(Nat)
    BY <1>1, <1>2
  <1>4. QED BY <1>1, <1>3, SumNatural DEF Size

LEMMA SizeAppend ==
    ASSUME NEW q \in Seq(LineRec), NEW l \in LineRec
    PROVE  Size(Append(q, l)) = Size(q) + l.size
  <1>1. PICK N \in Nat : N = Len(q) /\ DOMAIN q = 1..N
    OBVIOUS
  <1>2. PICK r \in Seq(LineRec) : r = Append(q, l)
    BY AppendProperties
  <1>3. Len(r) = N + 1 /\ DOMAIN r = 1..(N + 1) /\ r[N + 1] = l /\ \A i \in 1..N : r[i] = q[i]
    BY <1>1, <1>2, AppendProperties
  <1>4. PICK s : s = [i \in DOMAIN q |-> q[i].size]
    OBVIOUS
  <1>5. PICK t : t = [i \in DOMAIN r |-> r[i].size]
    OBVIOUS
  <1>6. /\ Len(s) = N /\ Len(t) = N + 1 /\ t[N + 1] = l.size
        /\ \A i \in 1..N : t[i] = s[i]
    <2>1. s = [i \in 1..N |-> q[i].size] /\ t = [i \in 1..(N + 1) |-> r[i].size]
      BY <1>1, <1>3, <1>4, <1>5
    <2>2. Len(s) = N /\ Len(t) = N + 1
      BY <2>1
    <2>3. N + 1 \in 1..(N + 1) /\ \A i \in 1..N : i \in 1..(N + 1)
      OBVIOUS
    <2>4. QED BY <1>3, <2>1, <2>2, <2>3
  <1>7. Sum(t) = Sum(s) + t[N + 1]
    BY <1>6, SumFurther
  <1>8. QED BY <1>2, <1>4, <1>5, <1>6, <1>7 DEF Size

\* The prose of the chapters and of the section in hand is that of the lines
\* read so far, and no longer than the section it is from.
ProseSoFar(s) == Prose(LinesIn(s.out)) \o Prose(s.buf)
Trim(s) == Size(Prose(s.buf)) <= Size(s.buf)
ReadsProse(s, p) == s \in SectionRec /\ ProseSoFar(s) = p /\ Trim(s)

LEMMA Sectioned ==
    ASSUME NEW s \in SectionRec
    PROVE  /\ s.out \in Seq(ChapterRec) /\ s.title \in Nat /\ s.buf \in Seq(LineRec)
           /\ LinesIn(s.out) \in Seq(LineRec)
           /\ Prose(LinesIn(s.out)) \in Seq(LineRec) /\ Prose(s.buf) \in Seq(LineRec)
  <1>1. s.out \in Seq(ChapterRec) /\ s.title \in Nat /\ s.buf \in Seq(LineRec)
    BY DEF SectionRec
  <1>2. QED BY <1>1, LinesInIs, ProseIs

LEMMA Taken ==
    ASSUME NEW s \in SectionRec, NEW l \in LineRec, Trim(s)
    PROVE  ReadsProse(Take(s, l), ProseSoFar(s) \o ProseOf[l])
  <1>1. PICK a, b, c : a = Prose(LinesIn(s.out)) /\ b = Prose(s.buf) /\ c = ProseOf[l]
    OBVIOUS
  <1>2. a \in Seq(LineRec) /\ b \in Seq(LineRec) /\ s.buf \in Seq(LineRec)
    BY <1>1, Sectioned
  <1>3. c \in Seq(LineRec)
    BY <1>1, ProsePicks DEF Picks, Maps
  <1>4. PICK r \in Seq(LineRec) : r = Append(s.buf, l)
    BY <1>2, AppendProperties
  <1>5. Take(s, l) = [s EXCEPT !.buf = r]
    BY <1>4 DEF Take
  <1>6. PICK t : t = Take(s, l)
    OBVIOUS
  <1>7. t \in SectionRec /\ t.buf = r /\ t.out = s.out
    BY <1>5, <1>6 DEF SectionRec
  <1>8. Prose(r) = b \o c
    <2>1. PickOf(ProseOf, r) = PickOf(ProseOf, s.buf) \o c
      <3>1. PICK q \in Seq(LineRec) : q = s.buf
        BY <1>2, Zenon
      <3>2. PickOf(ProseOf, Append(q, l)) = PickOf(ProseOf, q) \o ProseOf[l]
        BY ProsePicks, PickAppend
      <3>3. QED BY <1>1, <1>4, <3>1, <3>2, Zenon
    <2>2. QED BY <1>1, <1>2, <2>1, ProseIs
  <1>9. ProseSoFar(t) = (a \o b) \o c
    <2>1. ProseSoFar(t) = a \o (b \o c)
      BY <1>1, <1>7, <1>8 DEF ProseSoFar
    <2>2. (a \o b) \o c = a \o (b \o c)
      BY <1>2, <1>3, ConcatAssociative
    <2>3. QED BY <2>1, <2>2, Zenon
  <1>10. Trim(t)
    <2>1. Size(r) = Size(s.buf) + l.size /\ Size(s.buf) \in Nat /\ l.size \in Nat /\ Size(b) \in Nat
      BY <1>2, <1>4, SizeAppend, SizeNatural DEF LineRec
    <2>2. Size(b) <= Size(s.buf)
      BY <1>1 DEF Trim
    <2>3. CASE l.kind = "prose"
      <3>1. c = <<l>>
        BY <1>1, <2>3, ProseAt
      <3>3. b \o c = Append(b, l)
        BY <1>2, <3>1
      <3>2. Size(b \o c) = Size(b) + l.size
        BY <1>2, <3>3, SizeAppend
      <3>4. QED BY <1>7, <1>8, <2>1, <2>2, <3>2 DEF Trim
    <2>4. CASE l.kind # "prose"
      <3>1. b \o c = b
        BY <1>1, <1>2, <2>4, ProseAt, ConcatEmptySeq
      <3>2. QED BY <1>7, <1>8, <2>1, <2>2, <3>1 DEF Trim
    <2>5. QED BY <2>3, <2>4
  <1>11. QED BY <1>1, <1>6, <1>7, <1>9, <1>10 DEF ReadsProse, ProseSoFar

LEMMA ChapterClosed ==
    ASSUME NEW s \in SectionRec
    PROVE  /\ Closed(s) \in Seq(ChapterRec) /\ Closed(s) # <<>>
           /\ Prose(LinesIn(Closed(s))) = ProseSoFar(s)
  <1>1. s.out \in Seq(ChapterRec) /\ s.title \in Nat /\ s.buf \in Seq(LineRec) /\ LinesIn(s.out) \in Seq(LineRec)
    BY Sectioned
  <1>2. PICK c : c = Chapter(s.title, s.buf)
    OBVIOUS
  <1>3. c \in ChapterRec /\ c.lines = s.buf
    BY <1>1, <1>2 DEF Chapter, ChapterRec
  <1>4. Closed(s) = Append(s.out, c)
    BY <1>2 DEF Closed
  <1>5. LinesIn(Append(s.out, c)) = LinesIn(s.out) \o ChapterLines[c]
    <2>1. PICK out \in Seq(ChapterRec) : out = s.out
      BY <1>1, Zenon
    <2>2. PickOf(ChapterLines, Append(out, c)) = PickOf(ChapterLines, out) \o ChapterLines[c]
      BY <1>3, ChapterLinesPick, PickAppend
    <2>3. QED BY <2>1, <2>2, Zenon DEF LinesIn
  <1>6. ChapterLines[c] = s.buf
    BY <1>3 DEF ChapterLines
  <1>7. Prose(LinesIn(s.out) \o s.buf) = Prose(LinesIn(s.out)) \o Prose(s.buf)
    <2>1. LinesIn(s.out) \o s.buf \in Seq(LineRec)
      BY <1>1, ConcatProperties
    <2>2. PickOf(ProseOf, LinesIn(s.out) \o s.buf) = PickOf(ProseOf, LinesIn(s.out)) \o PickOf(ProseOf, s.buf)
      BY <1>1, ProsePicks, PickConcat
    <2>3. QED BY <1>1, <2>1, <2>2, ProseIs
  <1>8. Append(s.out, c) \in Seq(ChapterRec) /\ Append(s.out, c) # <<>>
    BY <1>1, <1>3, AppendProperties
  <1>9. QED BY <1>4, <1>5, <1>6, <1>7, <1>8 DEF ProseSoFar

\* A chapter begun: nothing is in hand.
LEMMA Begun ==
    ASSUME NEW out \in Seq(ChapterRec), NEW l \in LineRec
    PROVE  ReadsProse(Opened(out, l), Prose(LinesIn(out)))
  <1>1. PICK t : t = Opened(out, l)
    OBVIOUS
  <1>2. t.out = out /\ t.buf = <<>> /\ t \in SectionRec
    BY <1>1 DEF Opened, SectionRec, LineRec
  <1>3. Prose(<<>>) = <<>>
    BY ProseNone
  <1>4. ProseSoFar(t) = Prose(LinesIn(out))
    <2>1. Prose(LinesIn(out)) \in Seq(LineRec)
      BY LinesInIs, ProseIs
    <2>2. QED BY <1>2, <1>3, <2>1, ConcatEmptySeq DEF ProseSoFar
  <1>5. Trim(t)
    BY <1>2, <1>3, SizeNone DEF Trim
  <1>6. QED BY <1>1, <1>2, <1>4, <1>5 DEF ReadsProse

LEMMA LineTaken ==
    ASSUME NEW s, NEW p, ReadsProse(s, p), NEW l \in LineRec, NEW marked \in BOOLEAN
    PROVE  ReadsProse(ReadLine(marked, s, l), p \o ProseOf[l])
  <1>1. s \in SectionRec /\ ProseSoFar(s) = p /\ Trim(s)
    BY DEF ReadsProse
  <1>2. s.out \in Seq(ChapterRec) /\ s.title \in Nat /\ s.buf \in Seq(LineRec) /\ p \in Seq(LineRec)
    <2>1. Prose(LinesIn(s.out)) \in Seq(LineRec) /\ Prose(s.buf) \in Seq(LineRec)
      BY <1>1, Sectioned
    <2>2. QED BY <1>1, <2>1, Sectioned, ConcatProperties DEF ProseSoFar
  <1>3. ReadsProse(Take(s, l), p \o ProseOf[l])
    BY <1>1, Taken
  <1>4. l.kind # "prose" => p \o ProseOf[l] = p
    BY <1>2, ProseAt, ConcatEmptySeq
  <1>5. Prose(LinesIn(Closed(s))) = p /\ Closed(s) \in Seq(ChapterRec)
    BY <1>1, ChapterClosed
  <1>6. ReadsProse(Opened(Closed(s), l), p)
    BY <1>5, Begun
  <1>7. CASE marked /\ l.kind = "marker"
    <2>1. ReadLine(marked, s, l) = MarkerSeen(s, l)
      BY <1>7 DEF ReadLine
    <2>2. CASE s.buf = <<>>
      <3>1. Prose(LinesIn(s.out)) = p
        <4>1. Prose(<<>>) = <<>> /\ Prose(LinesIn(s.out)) \in Seq(LineRec)
          BY <1>1, ProseNone, Sectioned
        <4>2. QED BY <1>1, <2>2, <4>1, ConcatEmptySeq DEF ProseSoFar
      <3>2. ReadsProse(Opened(s.out, l), p)
        BY <1>2, <3>1, Begun
      <3>3. QED BY <1>4, <1>7, <2>1, <2>2, <3>2 DEF MarkerSeen
    <2>3. CASE s.buf # <<>>
      BY <1>4, <1>6, <1>7, <2>1, <2>3 DEF MarkerSeen
    <2>4. QED BY <2>2, <2>3
  <1>8. CASE ~marked /\ l.kind = "heading"
    <2>1. ReadLine(marked, s, l) = HeadingSeen(s, l)
      BY <1>8 DEF ReadLine
    <2>2. CASE Size(s.buf) > MinChapterBody
      BY <1>4, <1>6, <1>8, <2>1, <2>2 DEF HeadingSeen
    <2>3. CASE ~(Size(s.buf) > MinChapterBody) /\ s.out = <<>> /\ s.buf = <<>>
      <3>1. PICK t : t = [s EXCEPT !.title = l.id]
        OBVIOUS
      <3>2. t \in SectionRec /\ t.out = s.out /\ t.buf = s.buf
        BY <1>1, <3>1 DEF SectionRec, LineRec
      <3>3. ReadsProse(t, p)
        BY <1>1, <3>2 DEF ReadsProse, ProseSoFar, Trim
      <3>4. QED BY <1>4, <1>8, <2>1, <2>3, <3>1, <3>3 DEF HeadingSeen
    <2>4. CASE ~(Size(s.buf) > MinChapterBody) /\ ~(s.out = <<>> /\ s.buf = <<>>)
      BY <1>3, <2>1, <2>4 DEF HeadingSeen
    <2>5. QED BY <2>2, <2>3, <2>4
  <1>9. CASE ~(marked /\ l.kind = "marker") /\ ~(~marked /\ l.kind = "heading")
    <2>1. ReadLine(marked, s, l) = Take(s, l)
      BY <1>9 DEF ReadLine
    <2>2. QED BY <1>3, <2>1
  <1>10. QED BY <1>7, <1>8, <1>9

ReadBy(f, marked, book) ==
    f = [n \in 0..Len(book) |-> IF n = 0 THEN Unread ELSE ReadLine(marked, f[n - 1], book[n])]

LEMMA BookRead ==
    ASSUME NEW book \in Seq(LineRec), NEW marked \in BOOLEAN
    PROVE  ReadsProse(ReadBook(marked, book), Prose(book))
  <1>1. PICK N \in Nat : N = Len(book) /\ \A n \in 1..N : book[n] \in LineRec
    OBVIOUS
  <1>2. PICK ps : ps = MapOf(ProseOf, book)
    OBVIOUS
  <1>3. ps \in Seq(Seq(LineRec)) /\ Len(ps) = N
    BY <1>1, <1>2, ProsePicks, PickType
  <1>4. \A n \in 1..N : ps[n] = ProseOf[book[n]]
    BY <1>1, <1>2 DEF MapOf
  <1>5. PICK g \in [0..N -> Seq(LineRec)] : StrungUp(g, ps)
    BY <1>3, Flattened
  <1>6. g[0] = <<>> /\ FlattenSeq(ps) = g[N] /\ \A n \in 1..N : g[n] = g[n - 1] \o ProseOf[book[n]]
    BY <1>3, <1>4, <1>5 DEF StrungUp
  <1>7. Prose(book) = g[N]
    BY <1>2, <1>6, ProseIs DEF PickOf
  <1>8. Unread \in SectionRec /\ ReadsProse(Unread, <<>>)
    <2>1. Unread.out = <<>> /\ Unread.buf = <<>> /\ Unread \in SectionRec
      BY DEF Unread, SectionRec
    <2>2. LinesIn(<<>>) = <<>>
      BY PickNone DEF LinesIn
    <2>3. Prose(<<>>) = <<>>
      BY ProseNone
    <2>4. QED BY <2>1, <2>2, <2>3, SizeNone, ConcatEmptySeq DEF ReadsProse, ProseSoFar, Trim
  <1>9. PICK step : step = [a \in (1..N) \X SectionRec |-> ReadLine(marked, a[2], book[a[1]])]
    OBVIOUS
  <1>10. ASSUME NEW n \in 1..N, NEW s \in SectionRec
         PROVE  step[<<n, s>>] = ReadLine(marked, s, book[n])
    BY <1>9
  <1>11. PICK good : good = {a \in (0..N) \X SectionRec : ReadsProse(a[2], g[a[1]])}
    OBVIOUS
  <1>12. ASSUME NEW n \in 1..N, NEW s \in SectionRec, <<n - 1, s>> \in good
         PROVE  step[<<n, s>>] \in SectionRec /\ <<n, step[<<n, s>>]>> \in good
    <2>1. ReadsProse(s, g[n - 1]) /\ book[n] \in LineRec
      BY <1>1, <1>11, <1>12
    <2>2. ReadsProse(ReadLine(marked, s, book[n]), g[n])
      BY <1>6, <2>1, LineTaken
    <2>3. ReadLine(marked, s, book[n]) \in SectionRec
      BY <2>2 DEF ReadsProse
    <2>4. PICK t \in SectionRec : t = ReadLine(marked, s, book[n])
      BY <2>3, Zenon
    <2>5. n \in 0..N /\ ReadsProse(t, g[n])
      BY <2>2, <2>4
    <2>6. <<n, t>> \in good
      BY <1>11, <2>5
    <2>7. step[<<n, s>>] = t
      BY <1>10, <2>4, Zenon
    <2>8. QED BY <2>6, <2>7, Zenon
  <1>13. <<0, Unread>> \in good
    BY <1>6, <1>8, <1>11
  <1>14. PICK f : Iterates(f, N, Unread, step) /\ Good(f, N, SectionRec, good)
    <2>1. \A n \in 1..N, s \in SectionRec :
             <<n - 1, s>> \in good => step[<<n, s>>] \in SectionRec /\ <<n, step[<<n, s>>]>> \in good
      BY <1>12
    <2>2. QED BY <1>8, <1>13, <2>1, Builds
  <1>15. f \in [0..N -> SectionRec]
    BY <1>14 DEF Good
  <1>16. ASSUME NEW n \in 0..N PROVE f[n] = IF n = 0 THEN Unread ELSE ReadLine(marked, f[n - 1], book[n])
    <2>1. f[n] = IF n = 0 THEN Unread ELSE step[<<n, f[n - 1]>>]
      BY <1>14 DEF Iterates
    <2>2. CASE n = 0
      BY <2>1, <2>2
    <2>3. CASE n # 0
      <3>1. n \in 1..N /\ f[n - 1] \in SectionRec
        BY <1>15, <2>3
      <3>2. QED BY <1>10, <2>1, <2>3, <3>1
    <2>4. QED BY <2>2, <2>3
  <1>17. f = [n \in 0..N |-> IF n = 0 THEN Unread ELSE ReadLine(marked, f[n - 1], book[n])]
    BY <1>15, <1>16
  <1>18. ReadBy(f, marked, book)
    BY <1>1, <1>17, Zenon DEF ReadBy
  <1>19. PICK h : h = CHOOSE k : ReadBy(k, marked, book)
    OBVIOUS
  <1>20. ReadBy(h, marked, book)
    BY <1>18, <1>19
  <1>21. ReadBook(marked, book) = h[N]
    BY <1>1, <1>19, Zenon DEF ReadBook, ReadBy
  <1>22. ASSUME NEW n \in 0..N PROVE h[n] = IF n = 0 THEN Unread ELSE ReadLine(marked, h[n - 1], book[n])
    BY <1>1, <1>20, Zenon DEF ReadBy
  <1> DEFINE S == {n \in 0..N : ReadsProse(h[n], g[n])}
  <1>23. 0 \in S
    <2>1. h[0] = Unread
      <3>1. 0 \in 0..N
        OBVIOUS
      <3>2. QED BY <1>22, <3>1
    <2>2. QED BY <1>6, <1>8, <2>1
  <1>24. ASSUME NEW n \in 1..N, n - 1 \in S PROVE n \in S
    <2>1. n \in 0..N /\ n # 0 /\ ReadsProse(h[n - 1], g[n - 1])
      BY <1>24
    <2>2. h[n] = ReadLine(marked, h[n - 1], book[n])
      BY <1>22, <2>1
    <2>3. ReadsProse(h[n], g[n])
      BY <1>1, <1>6, <2>1, <2>2, LineTaken
    <2>4. QED BY <2>1, <2>3
  <1>25. \A n \in 0..N : n \in S
    <2> HIDE DEF S
    <2>1. QED BY <1>23, <1>24, UpTo, Zenon
  <1>26. QED BY <1>7, <1>21, <1>25

\* What may be missing at the end of what was kept.
Loses(book, result, p, lost) ==
    /\ result \in Seq(ChapterRec) /\ p \in Seq(LineRec) /\ lost \in Seq(LineRec)
    /\ Prose(LinesIn(result)) = p /\ Prose(book) = p \o lost
    /\ lost = <<>> \/ (Size(lost) <= MinChapterBody /\ result # <<>>)

LEMMA LosesNone ==
    ASSUME NEW book, NEW result \in Seq(ChapterRec), Prose(LinesIn(result)) = Prose(book)
    PROVE  Loses(book, result, Prose(book), <<>>)
  <1>1. Prose(book) \in Seq(LineRec)
    BY LinesInIs, ProseIs
  <1>2. Prose(book) \o <<>> = Prose(book) /\ <<>> \in Seq(LineRec)
    BY <1>1, ConcatEmptySeq
  <1>3. QED BY <1>1, <1>2 DEF Loses

LEMMA WholeChapter ==
    ASSUME NEW book \in Seq(LineRec), NEW title \in Nat
    PROVE  <<Chapter(title, book)>> \in Seq(ChapterRec) /\ LinesIn(<<Chapter(title, book)>>) = book
  <1>1. PICK c \in ChapterRec : c = Chapter(title, book) /\ c.lines = book
    <2>1. Chapter(title, book) \in ChapterRec /\ Chapter(title, book).lines = book
      BY DEF Chapter, ChapterRec
    <2>2. QED BY <2>1, Zenon
  <1>2. LinesIn(<<c>>) = ChapterLines[c]
    BY ChapterLinesPick, PickOne DEF LinesIn
  <1>3. ChapterLines[c] = book
    BY <1>1 DEF ChapterLines
  <1>4. QED BY <1>1, <1>2, <1>3

LEMMA MarkersKeep ==
    ASSUME NEW book \in Seq(LineRec)
    PROVE  \E p : Loses(book, SplitByMarker(book), p, <<>>)
  <1>1. PICK s : s = ReadBook(TRUE, book)
    OBVIOUS
  <1>2. s \in SectionRec /\ ProseSoFar(s) = Prose(book)
    BY <1>1, BookRead DEF ReadsProse
  <1>3. PICK out : out = IF s.buf = <<>> THEN s.out ELSE Closed(s)
    OBVIOUS
  <1>4. out \in Seq(ChapterRec) /\ Prose(LinesIn(out)) = Prose(book)
    <2>1. CASE s.buf = <<>>
      <3>1. Prose(<<>>) = <<>>
        BY ProseNone
      <3>2. s.out \in Seq(ChapterRec) /\ Prose(LinesIn(s.out)) \in Seq(LineRec)
        BY <1>2, Sectioned
      <3>3. ProseSoFar(s) = Prose(LinesIn(s.out))
        BY <2>1, <3>1, <3>2, ConcatEmptySeq DEF ProseSoFar
      <3>4. QED BY <1>2, <1>3, <2>1, <3>2, <3>3
    <2>2. CASE s.buf # <<>>
      BY <1>2, <1>3, <2>2, ChapterClosed
    <2>3. QED BY <2>1, <2>2
  <1>5. SplitByMarker(book) = IF out = <<>> THEN <<Chapter(0, book)>> ELSE out
    BY <1>1, <1>3 DEF SplitByMarker
  <1>6. CASE out = <<>>
    BY <1>5, <1>6, LosesNone, WholeChapter
  <1>7. CASE out # <<>>
    BY <1>4, <1>5, <1>7, LosesNone
  <1>8. QED BY <1>6, <1>7

LEMMA HeadingsKeep ==
    ASSUME NEW book \in Seq(LineRec)
    PROVE  \E p, lost : Loses(book, SplitByHeuristics(book), p, lost)
  <1>1. PICK s : s = ReadBook(FALSE, book)
    OBVIOUS
  <1>2. s \in SectionRec /\ ProseSoFar(s) = Prose(book) /\ Trim(s)
    BY <1>1, BookRead DEF ReadsProse
  <1>3. /\ s.out \in Seq(ChapterRec) /\ s.title \in Nat /\ s.buf \in Seq(LineRec)
        /\ Prose(LinesIn(s.out)) \in Seq(LineRec) /\ Prose(s.buf) \in Seq(LineRec)
    BY <1>2, Sectioned
  <1>4. CASE Size(s.buf) > MinChapterBody
    <2>1. SplitByHeuristics(book) = Closed(s)
      BY <1>1, <1>4 DEF SplitByHeuristics
    <2>2. QED BY <1>2, <2>1, ChapterClosed, LosesNone
  <1>5. CASE ~(Size(s.buf) > MinChapterBody) /\ s.out = <<>>
    <2>1. PICK lines2 : lines2 = IF s.buf = <<>> THEN book ELSE s.buf
      OBVIOUS
    <2>2. SplitByHeuristics(book) = <<Chapter(s.title, lines2)>>
      BY <1>1, <1>5, <2>1 DEF SplitByHeuristics
    <2>3. lines2 \in Seq(LineRec) /\ Prose(lines2) = Prose(book)
      <3>1. LinesIn(<<>>) = <<>> /\ Prose(<<>>) = <<>>
        BY ProseNone, PickNone DEF LinesIn
      <3>2. Prose(book) = Prose(s.buf)
        BY <1>2, <1>3, <1>5, <3>1, ConcatEmptySeq DEF ProseSoFar
      <3>3. QED BY <1>3, <2>1, <3>2
    <2>4. QED BY <1>3, <2>2, <2>3, WholeChapter, LosesNone
  <1>6. CASE ~(Size(s.buf) > MinChapterBody) /\ s.out # <<>>
    <2>1. SplitByHeuristics(book) = s.out
      BY <1>1, <1>6 DEF SplitByHeuristics
    <2>2. Size(Prose(s.buf)) <= MinChapterBody
      <3>1. Size(s.buf) \in Nat /\ Size(Prose(s.buf)) \in Nat /\ Size(Prose(s.buf)) <= Size(s.buf)
        BY <1>2, <1>3, SizeNatural DEF Trim
      <3>2. QED BY <1>6, <3>1 DEF MinChapterBody
    <2>3. Loses(book, s.out, Prose(LinesIn(s.out)), Prose(s.buf))
      BY <1>2, <1>3, <1>6, <2>2 DEF Loses, ProseSoFar
    <2>4. QED BY <2>1, <2>3
  <1>7. QED BY <1>4, <1>5, <1>6

LEMMA PrefixLost ==
    ASSUME NEW X, NEW p \in Seq(X), NEW lost \in Seq(X)
    PROVE  IsPrefix(p, p \o lost) /\ SubSeq(p \o lost, Len(p) + 1, Len(p \o lost)) = lost
  <1>1. PICK M \in Nat, N \in Nat : M = Len(p) /\ N = Len(lost)
    OBVIOUS
  <1>2. PICK q \in Seq(X) : q = p \o lost
    BY ConcatProperties
  <1>3. Len(q) = M + N /\ \A i \in 1..M : q[i] = p[i]
    BY <1>1, <1>2, ConcatProperties
  <1>4. \A i \in 1..N : q[M + i] = lost[i]
    BY <1>1, <1>2, ConcatProperties
  <1>5. IsPrefix(p, q)
    <2>1. SubSeq(p, 1, M) = SubSeq(q, 1, M)
      <3>1. SubSeq(p, 1, M) = [i \in 1..M |-> p[i]] /\ SubSeq(q, 1, M) = [i \in 1..M |-> q[i]]
        BY <1>1, <1>3
      <3>2. QED BY <1>3, <3>1
    <2>2. QED BY <1>1, <1>3, <2>1 DEF IsPrefix
  <1>6. SubSeq(q, M + 1, M + N) = lost
    <2>1. PICK t : t = SubSeq(q, M + 1, M + N)
      OBVIOUS
    <2>2. t = [i \in 1..N |-> q[M + i]]
      BY <1>3, <2>1
    <2>3. lost = [i \in 1..N |-> lost[i]]
      BY <1>1
    <2>4. QED BY <1>4, <2>1, <2>2, <2>3
  <1>7. QED BY <1>1, <1>2, <1>3, <1>5, <1>6

LEMMA BookKept ==
    ASSUME NEW book \in Seq(LineRec), msInput = <<"book", book>>, msResult = SplitByChapters(book)
    PROVE  ChaptersKeepText
  <1>1. PICK marked \in BOOLEAN : marked = \E i \in DOMAIN book : book[i].kind = "marker"
    OBVIOUS
  <1>2. PICK p, lost : Loses(book, msResult, p, lost) /\ (lost = <<>> \/ ~marked)
    <2>1. CASE marked
      <3>1. msResult = SplitByMarker(book)
        BY <1>1, <2>1 DEF SplitByChapters
      <3>2. QED BY <3>1, MarkersKeep
    <2>2. CASE ~marked
      <3>1. msResult = SplitByHeuristics(book)
        BY <1>1, <2>2 DEF SplitByChapters
      <3>2. QED BY <2>2, <3>1, HeadingsKeep
    <2>3. QED BY <2>1, <2>2
  <1>3. /\ msResult \in Seq(ChapterRec) /\ p \in Seq(LineRec) /\ lost \in Seq(LineRec)
        /\ Prose(LinesIn(msResult)) = p /\ Prose(book) = p \o lost
        /\ lost = <<>> \/ (Size(lost) <= MinChapterBody /\ msResult # <<>>)
    BY <1>2 DEF Loses
  <1>4. FlattenSeq([i \in DOMAIN msResult |-> msResult[i].lines]) = LinesIn(msResult)
    BY <1>3, LinesInIs
  <1>5. IsPrefix(p, Prose(book)) /\ SubSeq(Prose(book), Len(p) + 1, Len(Prose(book))) = lost
    BY <1>3, PrefixLost
  <1>6. msInput[2] = book
    OBVIOUS
  <1>7. QED BY <1>1, <1>2, <1>3, <1>4, <1>5, <1>6 DEF ChaptersKeepText

-----------------------------------------------------------------------------
(* The tokens of an imported script.                                           *)

LEMMA RangeFlatten ==
    ASSUME NEW X, NEW ss \in Seq(Seq(X))
    PROVE  \A x : x \in Range(FlattenSeq(ss)) <=> \E i \in DOMAIN ss : x \in Range(ss[i])
  <1>1. PICK N \in Nat : N = Len(ss) /\ DOMAIN ss = 1..N /\ \A n \in 1..N : ss[n] \in Seq(X)
    OBVIOUS
  <1>2. PICK g \in [0..N -> Seq(X)] : StrungUp(g, ss)
    BY <1>1, Flattened
  <1>3. g[0] = <<>> /\ FlattenSeq(ss) = g[N] /\ \A n \in 1..N : g[n] = g[n - 1] \o ss[n]
    BY <1>1, <1>2 DEF StrungUp
  <1> DEFINE S == {n \in 0..N : \A x : x \in Range(g[n]) <=> \E i \in 1..n : x \in Range(ss[i])}
  <1>4. 0 \in S
    <2>1. Range(<<>>) = {}
      BY DEF Range
    <2>2. QED BY <1>3, <2>1
  <1>5. ASSUME NEW n \in 1..N, n - 1 \in S PROVE n \in S
    <2>1. PICK k \in 0..N : k = n - 1 /\ n \in 0..N /\ \A i : i \in 1..n <=> i \in 1..k \/ i = n
      OBVIOUS
    <2>2. g[n] = g[k] \o ss[n] /\ g[k] \in Seq(X) /\ ss[n] \in Seq(X)
      BY <1>1, <1>2, <1>3, <2>1
    <2>3. Range(g[k] \o ss[n]) = Range(g[k]) \cup Range(ss[n])
      BY <2>2, RangeConcat
    <2>4. \A x : x \in Range(g[k]) <=> \E i \in 1..k : x \in Range(ss[i])
      BY <1>5, <2>1
    <2>5. \A x : x \in Range(g[n]) <=> \E i \in 1..n : x \in Range(ss[i])
      BY <2>1, <2>2, <2>3, <2>4
    <2>6. QED BY <2>1, <2>5
  <1>6. \A n \in 0..N : n \in S
    <2> HIDE DEF S
    <2>1. QED BY <1>4, <1>5, UpTo, Zenon
  <1>7. N \in 0..N
    OBVIOUS
  <1>8. \A x : x \in Range(g[N]) <=> \E i \in 1..N : x \in Range(ss[i])
    BY <1>6, <1>7, Zenon
  <1>9. QED BY <1>1, <1>3, <1>8, Zenon

\* What tokens say, with what the other notation calls it.
Notation == {"speaker", "lang", "rate", "emphasis", "/emphasis", "/lang", "pause", "voice", "break"}
Sayable == STRING \cup Notation
AnyToken == [t : {"word", "open", "close", "tag"}, v : Seq(Sayable) \ {<<>>}]
WordOf == [k \in AnyToken |-> IF k.t = "word" THEN <<k>> ELSE <<>>]
\* Tokens as they come in, and as they go out.
ImportRec == {k \in AnyToken : k.t # "tag" /\ (k.t = "open" /\ Tag(k) \in Telling => Len(k.v) = 2)}
AcxRec == {k \in AnyToken : /\ k.t \in {"word", "tag"}
                            /\ k.t = "tag" /\ Tag(k) = "speaker" => Len(k.v) = 2}

LEMMA WordsPick == Picks(WordOf, AnyToken, AnyToken)
  <1>1. \A k \in AnyToken : (IF k.t = "word" THEN <<k>> ELSE <<>>) \in Seq(AnyToken)
    OBVIOUS
  <1>2. QED BY <1>1 DEF WordOf, Picks, Maps

LEMMA WordAt == \A k \in AnyToken : WordOf[k] = IF k.t = "word" THEN <<k>> ELSE <<>>
  BY DEF WordOf

LEMMA WordsAre ==
    ASSUME NEW q \in Seq(AnyToken)
    PROVE  WordTokens(q) = PickOf(WordOf, q)
  <1>1. \A i \in DOMAIN q : q[i] \in AnyToken
    OBVIOUS
  <1>2. \A i \in DOMAIN q : WordOf[q[i]] = IF q[i].t = "word" THEN <<q[i]>> ELSE <<>>
    BY <1>1, WordAt
  <1>3. MapOf(WordOf, q) = [i \in DOMAIN q |-> IF q[i].t = "word" THEN <<q[i]>> ELSE <<>>]
    BY <1>2 DEF MapOf
  <1>4. QED BY <1>3 DEF WordTokens, PickOf

\* Element by element, what becomes of the words.
LEMMA WordsOfParts ==
    ASSUME NEW q \in Seq(AnyToken), NEW ss \in Seq(Seq(AnyToken)), Len(ss) = Len(q),
           \A i \in 1..Len(q) : WordTokens(ss[i]) = WordOf[q[i]]
    PROVE  WordTokens(FlattenSeq(ss)) = WordTokens(q)
  <1>1. FlattenSeq(ss) \in Seq(AnyToken)
    BY StrungType
  <1>2. WordTokens(FlattenSeq(ss)) = FlattenSeq([i \in DOMAIN ss |-> PickOf(WordOf, ss[i])])
    BY <1>1, WordsAre, WordsPick, PickFlatten
  <1>3. DOMAIN ss = 1..Len(q) /\ DOMAIN q = 1..Len(q) /\ \A i \in 1..Len(q) : ss[i] \in Seq(AnyToken)
    OBVIOUS
  <1>4. \A i \in 1..Len(q) : PickOf(WordOf, ss[i]) = WordOf[q[i]]
    BY <1>3, WordsAre
  <1>5. [i \in DOMAIN ss |-> PickOf(WordOf, ss[i])] = MapOf(WordOf, q)
    BY <1>3, <1>4 DEF MapOf
  <1>6. QED BY <1>2, <1>5, WordsAre DEF PickOf

LEMMA WordsOfOne ==
    ASSUME NEW k \in AnyToken
    PROVE  WordTokens(<<k>>) = (IF k.t = "word" THEN <<k>> ELSE <<>>) /\ WordTokens(<<>>) = <<>>
  <1>1. <<k>> \in Seq(AnyToken) /\ <<>> \in Seq(AnyToken)
    OBVIOUS
  <1>2. PickOf(WordOf, <<k>>) = WordOf[k] /\ PickOf(WordOf, <<>>) = <<>>
    BY WordsPick, PickOne, PickNone
  <1>3. QED BY <1>1, <1>2, WordsAre, WordAt

LEMMA TokIs ==
    ASSUME NEW t \in {"word", "open", "close", "tag"}, NEW v \in Seq(Sayable), v # <<>>
    PROVE  Tok(t, v) \in AnyToken /\ Tok(t, v).t = t /\ Tok(t, v).v = v
  BY DEF Tok, AnyToken

LEMMA TokenHas ==
    ASSUME NEW k \in AnyToken
    PROVE  /\ k.t \in {"word", "open", "close", "tag"} /\ k.v \in Seq(Sayable) /\ k.v # <<>>
           /\ Tag(k) \in Sayable /\ k = Tok(k.t, k.v)
  <1>1. k.t \in {"word", "open", "close", "tag"} /\ k.v \in Seq(Sayable) /\ k.v # <<>> /\ k = [t |-> k.t, v |-> k.v]
    BY DEF AnyToken
  <1>2. 1 \in 1..Len(k.v)
    BY <1>1
  <1>3. QED BY <1>1, <1>2 DEF Tag, Tok

\* What a token becomes in the other notation, and which words it holds.
BecomesAcx(k, q) == /\ q \in Seq(AcxRec)
                    /\ ~Opens(k, "sub") => WordTokens(q) = WordOf[k]
                    /\ \A x \in Range(q) : x.t = "tag" /\ Tag(x) = "speaker" => Opens(k, "voice") /\ x.v[2] = k.v[2]
                    /\ Opens(k, "voice") => \E x \in Range(q) : x.t = "tag" /\ Tag(x) = "speaker" /\ x.v[2] = k.v[2]

LEMMA OneOrTwo ==
    ASSUME NEW X, NEW u \in X, NEW w \in X
    PROVE  /\ <<u, w>> \in Seq(X) /\ <<u, w>> # <<>> /\ <<u, w>>[1] = u /\ <<u, w>>[2] = w
           /\ <<u>> \in Seq(X) /\ <<u>> # <<>> /\ <<u>>[1] = u
  OBVIOUS

LEMMA Speech ==
    ASSUME NEW u \in Sayable, NEW w \in Sayable
    PROVE  /\ <<u, w>> \in Seq(Sayable) /\ <<u, w>> # <<>> /\ <<u, w>>[1] = u /\ <<u, w>>[2] = w
           /\ <<u>> \in Seq(Sayable) /\ <<u>> # <<>> /\ <<u>>[1] = u
  BY OneOrTwo, Zenon

\* One token for one: a tag that is no speaker's, unless a voice opens.
LEMMA TagBecomes ==
    ASSUME NEW k \in ImportRec, k.t # "word", NEW v \in Seq(Sayable), v # <<>>,
           Opens(k, "voice") => v = <<"speaker", k.v[2]>>,
           ~Opens(k, "voice") => v[1] # "speaker"
    PROVE  BecomesAcx(k, <<Tok("tag", v)>>)
  <1>1. PICK x \in AnyToken : x = Tok("tag", v) /\ x.t = "tag" /\ x.v = v
    BY TokIs
  <1>2. Tag(x) = v[1]
    BY <1>1 DEF Tag
  <1>3. x \in AcxRec
    BY <1>1, <1>2 DEF AcxRec
  <1>4. WordTokens(<<x>>) = <<>> /\ WordOf[k] = <<>>
    <2>1. k \in AnyToken
      BY DEF ImportRec
    <2>2. QED BY <1>1, <2>1, WordsOfOne, WordAt
  <1>5. Range(<<x>>) = {x}
    BY DEF Range
  <1>6. QED BY <1>1, <1>2, <1>3, <1>4, <1>5 DEF BecomesAcx

LEMMA NoneBecomes ==
    ASSUME NEW k \in ImportRec, k.t # "word", ~Opens(k, "voice")
    PROVE  BecomesAcx(k, <<>>)
  <1>1. k \in AnyToken
    BY DEF ImportRec
  <1>2. WordTokens(<<>>) = <<>> /\ WordOf[k] = <<>>
    BY <1>1, WordsOfOne, WordAt
  <1>3. Range(<<>>) = {}
    BY DEF Range
  <1>4. QED BY <1>2, <1>3 DEF BecomesAcx

LEMMA TokenBecomes ==
    ASSUME NEW k \in ImportRec
    PROVE  BecomesAcx(k, AcxOf(k))
  <1>1. k \in AnyToken /\ k.t # "tag" /\ (k.t = "open" /\ Tag(k) \in Telling => Len(k.v) = 2)
    BY DEF ImportRec
  <1>2. k.t \in {"word", "open", "close", "tag"} /\ k.v \in Seq(Sayable) /\ k.v # <<>>
    BY <1>1, TokenHas
  <1>3. k.t = "open" /\ Tag(k) \in Telling => k.v[2] \in Sayable
    BY <1>1, <1>2
  <1>4. CASE k.t = "word"
    <2>1. AcxOf(k) = <<k>>
      BY <1>4, Zenon DEF AcxOf
    <2>2. WordTokens(<<k>>) = WordOf[k]
      BY <1>1, WordsOfOne, WordAt
    <2>3. k \in AcxRec /\ Range(<<k>>) = {k} /\ ~Opens(k, "voice")
      BY <1>1, <1>4 DEF AcxRec, Range, Opens
    <2>4. QED BY <1>1, <2>1, <2>2, <2>3 DEF BecomesAcx
  <1>5. CASE Opens(k, "sub")
    <2>1. AcxOf(k) = <<Tok("word", <<k.v[2]>>)>>
      BY <1>5 DEF AcxOf, Opens
    <2>2. PICK x \in AnyToken : x = Tok("word", <<k.v[2]>>) /\ x.t = "word"
      <3>1. <<k.v[2]>> \in Seq(Sayable)
        BY <1>3, <1>5 DEF Opens, Telling
      <3>2. QED BY <3>1, TokIs
    <2>3. x \in AcxRec /\ Range(<<x>>) = {x} /\ ~Opens(k, "voice")
      BY <1>5, <2>2 DEF AcxRec, Range, Opens
    <2>4. QED BY <1>5, <2>1, <2>2, <2>3 DEF BecomesAcx
  <1>6. CASE Opens(k, "voice")
    <2>1. AcxOf(k) = <<Tok("tag", <<"speaker", k.v[2]>>)>>
      BY <1>6 DEF AcxOf, Opens
    <2>2. k.v[2] \in Sayable /\ <<"speaker", k.v[2]>> \in Seq(Sayable)
      <3>1. k.v[2] \in Sayable
        BY <1>3, <1>6 DEF Opens, Telling
      <3>2. PICK w \in Sayable : w = k.v[2]
        BY <3>1, Zenon
      <3>3. <<"speaker", w>> \in Seq(Sayable)
        <4>1. "speaker" \in Sayable
          BY DEF Sayable, Notation
        <4>2. QED BY <4>1, Speech, Zenon
      <3>4. QED BY <3>2, <3>3, Zenon
    <2>3. k.t # "word"
      BY <1>6 DEF Opens
    <2>4. QED BY <1>6, <2>1, <2>2, <2>3, TagBecomes
  <1>7. CASE Opens(k, "lang") \/ Opens(k, "rate")
    <2>1. PICK v \in {<<"lang", k.v[2]>>, <<"rate", k.v[2]>>} : AcxOf(k) = <<Tok("tag", v)>>
      BY <1>7 DEF AcxOf, Opens
    <2>2. v \in Seq(Sayable) /\ v # <<>> /\ v[1] # "speaker"
      <3>1. PICK w \in Sayable : w = k.v[2]
        BY <1>3, <1>7 DEF Opens, Telling
      <3>2. CASE v = <<"lang", w>>
        <4>1. "lang" \in Sayable /\ "lang" # "speaker"
          BY DEF Sayable, Notation
        <4>2. QED BY <3>2, <4>1, Speech, Zenon
      <3>3. CASE v = <<"rate", w>>
        <4>1. "rate" \in Sayable /\ "rate" # "speaker"
          BY DEF Sayable, Notation
        <4>2. QED BY <3>3, <4>1, Speech, Zenon
      <3>4. QED BY <2>1, <3>1, <3>2, <3>3
    <2>3. k.t # "word" /\ ~Opens(k, "voice")
      BY <1>7 DEF Opens
    <2>4. QED BY <2>1, <2>2, <2>3, TagBecomes
  <1>8. CASE Opens(k, "emphasis") \/ Ends(k, "emphasis") \/ Ends(k, "lang") \/ Opens(k, "break")
    <2>1. PICK w \in {"emphasis", "/emphasis", "/lang", "pause"} : AcxOf(k) = <<Tok("tag", <<w>>)>>
      BY <1>8 DEF AcxOf, Opens, Ends
    <2>2. <<w>> \in Seq(Sayable) /\ <<w>> # <<>> /\ <<w>>[1] # "speaker"
      <3>1. PICK u \in Sayable : u = w /\ u # "speaker"
        <4>1. "emphasis" \in Sayable /\ "/emphasis" \in Sayable /\ "/lang" \in Sayable /\ "pause" \in Sayable
          BY DEF Sayable, Notation
        <4>2. "emphasis" # "speaker" /\ "/emphasis" # "speaker" /\ "/lang" # "speaker" /\ "pause" # "speaker"
          OBVIOUS
        <4>3. QED BY <2>1, <4>1, <4>2, Zenon
      <3>2. QED BY <3>1, Speech, Zenon
    <2>3. k.t # "word" /\ ~Opens(k, "voice")
      BY <1>8 DEF Opens, Ends
    <2>4. QED BY <2>1, <2>2, <2>3, TagBecomes
  <1>9. CASE /\ k.t # "word" /\ ~Opens(k, "sub") /\ ~Opens(k, "voice") /\ ~Opens(k, "lang")
             /\ ~Opens(k, "rate") /\ ~Opens(k, "emphasis") /\ ~Ends(k, "emphasis")
             /\ ~Ends(k, "lang") /\ ~Opens(k, "break")
    <2>1. AcxOf(k) = <<>>
      BY <1>9 DEF AcxOf, Opens, Ends
    <2>2. QED BY <1>9, <2>1, NoneBecomes
  <1>10. QED BY <1>4, <1>5, <1>6, <1>7, <1>8, <1>9

LEMMA TokenBack ==
    ASSUME NEW k \in AcxRec, NEW in
    PROVE  SsmlOf(in, k) \in Seq(AnyToken) /\ WordTokens(SsmlOf(in, k)) = WordOf[k]
  <1>1. k \in AnyToken /\ k.t \in {"word", "tag"} /\ (k.t = "tag" /\ Tag(k) = "speaker" => Len(k.v) = 2)
    <2>1. \A x \in AcxRec : x \in AnyToken /\ x.t \in {"word", "tag"}
      BY DEF AcxRec
    <2>2. \A x \in AcxRec : x.t = "tag" /\ Tag(x) = "speaker" => Len(x.v) = 2
      BY DEF AcxRec
    <2>3. QED BY <2>1, <2>2
  <1>2. k.t \in {"word", "open", "close", "tag"} /\ k.v \in Seq(Sayable) /\ k.v # <<>> /\ k = Tok(k.t, k.v)
    BY <1>1, TokenHas
  <1>3. CASE k.t = "word"
    <2>1. SsmlOf(in, k) = <<k>>
      BY <1>3 DEF SsmlOf
    <2>2. <<k>> \in Seq(AnyToken)
      BY <1>1
    <2>3. QED BY <1>1, <1>3, <2>1, <2>2, WordsOfOne, WordAt
  <1>4. CASE k.t # "word"
    <2>1. WordOf[k] = <<>> /\ WordTokens(<<>>) = <<>> /\ <<>> \in Seq(AnyToken)
      <3>1. WordOf[k] = <<>>
        BY <1>1, <1>4, WordAt
      <3>2. WordTokens(<<>>) = <<>>
        BY <1>1, WordsOfOne, Zenon
      <3>3. <<>> \in Seq(AnyToken)
        OBVIOUS
      <3>4. QED BY <3>1, <3>2, <3>3
    <2>2. ASSUME NEW v \in Seq(Sayable), v # <<>>
          PROVE  <<Tok("open", v)>> \in Seq(AnyToken) /\ WordTokens(<<Tok("open", v)>>) = <<>>
      <3>1. PICK x \in AnyToken : x = Tok("open", v) /\ x.t = "open"
        BY <2>2, TokIs
      <3>2. <<x>> \in Seq(AnyToken) /\ WordTokens(<<x>>) = <<>>
        BY <3>1, WordsOfOne
      <3>3. QED BY <3>1, <3>2
    <2>3. SsmlOf(in, k) = <<>> \/ \E v \in Seq(Sayable) : v # <<>> /\ SsmlOf(in, k) = <<Tok("open", v)>>
      <3>1. CASE Tag(k) = "pause"
        <4>1. SsmlOf(in, k) = <<>> \/ SsmlOf(in, k) = <<Tok("open", <<"break">>)>>
          BY <1>4, <3>1 DEF SsmlOf
        <4>2. "break" \in Sayable
          BY DEF Sayable, Notation
        <4>3. <<"break">> \in Seq(Sayable) /\ <<"break">> # <<>>
          BY <4>2, Speech, Zenon
        <4>4. QED BY <4>1, <4>3, Zenon
      <3>2. CASE Tag(k) = "speaker" /\ k.t = "tag"
        <4>1. SsmlOf(in, k) = <<>> \/ SsmlOf(in, k) = <<Tok("open", <<"voice", k.v[2]>>)>>
          BY <1>4, <3>2 DEF SsmlOf
        <4>2. "voice" \in Sayable
          BY DEF Sayable, Notation
        <4>3. k.v[2] \in Sayable
          BY <1>1, <1>2, <3>2
        <4>4. <<"voice", k.v[2]>> \in Seq(Sayable) /\ <<"voice", k.v[2]>> # <<>>
          BY <4>2, <4>3, Speech, Zenon
        <4>5. QED BY <4>1, <4>4, Zenon
      <3>3. CASE Tag(k) # "pause" /\ Tag(k) # "speaker"
        <4>1. SsmlOf(in, k) = <<>> \/ SsmlOf(in, k) = <<Tok("open", k.v)>>
          BY <1>4, <3>3 DEF SsmlOf
        <4>2. QED BY <1>2, <4>1, Zenon
      <3>4. QED BY <1>1, <1>4, <3>1, <3>2, <3>3
    <2>4. QED BY <2>1, <2>2, <2>3, Zenon
  <1>5. QED BY <1>3, <1>4

\* The tokens of a tale, one after the other.
CollectsBy(f, acx) ==
    f = [n \in 0..Len(acx) |-> IF n = 0 THEN "none" ELSE Collecting(f[n - 1], acx[n])]
Back(acx, in) == [i \in DOMAIN acx |-> SsmlOf(in[i - 1], acx[i])]

LEMMA WordsGoBack ==
    ASSUME NEW acx \in Seq(AcxRec)
    PROVE  WordTokens(ConvertToSsml(acx)) = WordTokens(acx)
  <1>1. PICK in : ConvertToSsml(acx) = FlattenSeq(Back(acx, in))
    <2>1. ConvertToSsml(acx) = FlattenSeq(Back(acx, CHOOSE f : CollectsBy(f, acx)))
      BY Zenon DEF ConvertToSsml, Back, CollectsBy
    <2>2. QED BY <2>1, Zenon
  <1>2. PICK N \in Nat : N = Len(acx) /\ DOMAIN acx = 1..N /\ \A i \in 1..N : acx[i] \in AcxRec
    OBVIOUS
  <1>3. PICK ss : ss = Back(acx, in)
    OBVIOUS
  <1>4. \A i \in 1..N : ss[i] = SsmlOf(in[i - 1], acx[i])
    BY <1>2, <1>3 DEF Back
  <1>5. \A i \in 1..N : ss[i] \in Seq(AnyToken) /\ WordTokens(ss[i]) = WordOf[acx[i]]
    BY <1>2, <1>4, TokenBack
  <1>6. ss \in Seq(Seq(AnyToken)) /\ Len(ss) = N
    <2>1. DOMAIN ss = 1..N /\ ss = [i \in 1..N |-> ss[i]]
      BY <1>2, <1>3 DEF Back
    <2>2. QED BY <1>5, <2>1
  <1>7. acx \in Seq(AnyToken)
    <2>1. \A k \in AcxRec : k \in AnyToken
      BY Zenon DEF AcxRec
    <2>2. QED BY <1>2, <2>1
  <1>8. QED BY <1>1, <1>2, <1>3, <1>5, <1>6, <1>7, WordsOfParts

\* The cast list.
RenamesBy(f, map, voice) ==
    f = [n \in 0..Len(map) |-> IF n = 0 THEN voice
                               ELSE IF f[n - 1] = map[n][1] THEN map[n][2] ELSE f[n - 1]]
Renames(f, map, voice) ==
    /\ f[0] = voice /\ Renaming(map, voice) = f[Len(map)]
    /\ \A n \in 1..Len(map) : f[n] = IF f[n - 1] = map[n][1] THEN map[n][2] ELSE f[n - 1]

LEMMA RenamedBy ==
    ASSUME NEW map \in Seq(Sayable \X Sayable), NEW voice \in Sayable
    PROVE  \E f \in [0..Len(map) -> Sayable] : Renames(f, map, voice)
  <1>1. PICK N \in Nat : N = Len(map) /\ \A n \in 1..N : map[n] \in Sayable \X Sayable
    OBVIOUS
  <1>2. PICK step : step = [a \in (1..N) \X Sayable |-> IF a[2] = map[a[1]][1] THEN map[a[1]][2] ELSE a[2]]
    OBVIOUS
  <1>3. ASSUME NEW n \in 1..N, NEW v \in Sayable
        PROVE  step[<<n, v>>] = (IF v = map[n][1] THEN map[n][2] ELSE v) /\ step[<<n, v>>] \in Sayable
    <2>1. step[<<n, v>>] = IF v = map[n][1] THEN map[n][2] ELSE v
      BY <1>2
    <2>2. map[n] \in Sayable \X Sayable
      BY <1>1
    <2>3. map[n][2] \in Sayable
      BY <2>2
    <2>4. QED BY <2>1, <2>3
  <1>4. step \in [(1..N) \X Sayable -> Sayable]
    <2>1. \A a \in (1..N) \X Sayable : step[a] \in Sayable
      <3> SUFFICES ASSUME NEW a \in (1..N) \X Sayable PROVE step[a] \in Sayable
        OBVIOUS
      <3>1. PICK n \in 1..N, v \in Sayable : a = <<n, v>>
        OBVIOUS
      <3>2. QED BY <1>3, <3>1
    <2>2. QED BY <1>2, <2>1
  <1>5. PICK f \in [0..N -> Sayable] : Iterates(f, N, voice, step)
    BY <1>4, Iterated
  <1>6. ASSUME NEW n \in 0..N
        PROVE  f[n] = IF n = 0 THEN voice ELSE IF f[n - 1] = map[n][1] THEN map[n][2] ELSE f[n - 1]
    <2>1. f[n] = IF n = 0 THEN voice ELSE step[<<n, f[n - 1]>>]
      BY <1>5 DEF Iterates
    <2>2. CASE n = 0
      BY <2>1, <2>2
    <2>3. CASE n # 0
      <3>1. n \in 1..N /\ f[n - 1] \in Sayable
        BY <1>5, <2>3
      <3>2. QED BY <1>3, <2>1, <2>3, <3>1
    <2>4. QED BY <2>2, <2>3
  <1>7. f = [n \in 0..N |-> IF n = 0 THEN voice ELSE IF f[n - 1] = map[n][1] THEN map[n][2] ELSE f[n - 1]]
    BY <1>5, <1>6
  <1>8. RenamesBy(f, map, voice)
    BY <1>1, <1>7, Zenon DEF RenamesBy
  <1>9. PICK h : h = CHOOSE k : RenamesBy(k, map, voice)
    OBVIOUS
  <1>10. RenamesBy(h, map, voice)
    BY <1>8, <1>9
  <1>11. Renaming(map, voice) = h[N]
    BY <1>1, <1>9, Zenon DEF Renaming, RenamesBy
  <1>12. ASSUME NEW n \in 0..N
         PROVE  h[n] = IF n = 0 THEN voice ELSE IF h[n - 1] = map[n][1] THEN map[n][2] ELSE h[n - 1]
    BY <1>1, <1>10, Zenon DEF RenamesBy
  <1> DEFINE S == {n \in 0..N : h[n] \in Sayable}
  <1>13. h[0] = voice
    <2>1. 0 \in 0..N
      OBVIOUS
    <2>2. QED BY <1>12, <2>1
  <1>14. ASSUME NEW n \in 1..N
         PROVE  h[n] = IF h[n - 1] = map[n][1] THEN map[n][2] ELSE h[n - 1]
    <2>1. n \in 0..N /\ n # 0
      OBVIOUS
    <2>2. QED BY <1>12, <2>1
  <1>15. 0 \in S
    BY <1>13
  <1>16. ASSUME NEW n \in 1..N, n - 1 \in S PROVE n \in S
    <2>1. n \in 0..N /\ h[n - 1] \in Sayable /\ map[n] \in Sayable \X Sayable
      BY <1>1, <1>16
    <2>2. map[n][2] \in Sayable
      BY <2>1
    <2>3. h[n] \in Sayable
      BY <1>14, <2>1, <2>2
    <2>4. QED BY <2>1, <2>3
  <1>17. \A n \in 0..N : n \in S
    <2> HIDE DEF S
    <2>1. QED BY <1>15, <1>16, UpTo, Zenon
  <1>18. DOMAIN h = 0..N
    BY <1>1, <1>10 DEF RenamesBy
  <1>19. h \in [0..N -> Sayable]
    <2>1. \A n \in 0..N : h[n] \in Sayable
      BY <1>17
    <2>2. h = [n \in 0..N |-> h[n]]
      BY <1>1, <1>10 DEF RenamesBy
    <2>3. QED BY <2>1, <2>2
  <1>20. QED BY <1>1, <1>11, <1>13, <1>14, <1>19 DEF Renames

EachOnce(vs) == \A i, j \in 1..Len(vs) : vs[i] = vs[j] => i = j
Keys(map) == {p[1] : p \in Range(map)}
Once(list, v) == \A i, j \in 1..Len(list) : list[i] = v /\ list[j] = v => i = j

LEMMA Relabeled ==
    ASSUME NEW list \in Seq(Sayable), NEW pair \in Sayable \X Sayable, Once(list, pair[1])
    PROVE  /\ Relabel(list, pair) \in Seq(Sayable) /\ Len(Relabel(list, pair)) = Len(list)
           /\ \A i \in 1..Len(list) :
                 Relabel(list, pair)[i] = IF list[i] = pair[1] THEN pair[2] ELSE list[i]
  <1>1. PICK K \in Nat, a \in Sayable, b \in Sayable : K = Len(list) /\ a = pair[1] /\ b = pair[2]
    OBVIOUS
  <1>2. DOMAIN list = 1..K /\ \A i \in 1..K : list[i] \in Sayable
    BY <1>1
  <1>3. CASE a \in Range(list)
    <2>1. PICK m \in 1..K : list[m] = a
      BY <1>2, <1>3 DEF Range
    <2>2. \A i \in 1..K : list[i] = a => i = m
      BY <1>1, <2>1 DEF Once
    <2>3. m \in DOMAIN list /\ list[m] = a /\ \A j \in 1..(m - 1) : list[j] # a
      BY <1>2, <2>1, <2>2
    <2>4. PICK f : f = FirstAt(list, a)
      OBVIOUS
    <2>5. f \in DOMAIN list /\ list[f] = a
      BY <2>3, <2>4, Zenon DEF FirstAt
    <2>6. f = m
      BY <1>2, <2>2, <2>5
    <2>7. Relabel(list, pair) = [list EXCEPT ![m] = b]
      BY <1>1, <1>3, <2>4, <2>6 DEF Relabel
    <2>8. PICK t : t = [list EXCEPT ![m] = b]
      OBVIOUS
    <2>9. t \in Seq(Sayable) /\ Len(t) = K
      BY <1>1, <2>8
    <2>10. \A i \in 1..K : t[i] = IF list[i] = a THEN b ELSE list[i]
      BY <1>2, <2>1, <2>2, <2>8
    <2>11. QED BY <1>1, <2>7, <2>8, <2>9, <2>10
  <1>4. CASE a \notin Range(list)
    <2>1. Relabel(list, pair) = list
      BY <1>1, <1>4 DEF Relabel
    <2>2. \A i \in 1..K : list[i] # a
      BY <1>2, <1>4 DEF Range
    <2>3. QED BY <1>1, <2>1, <2>2
  <1>5. QED BY <1>3, <1>4

\* A name that is still to be renamed has not been before.
Fresh(list, vs, keys) ==
    list \in Seq(Sayable) /\ Len(list) = Len(vs) /\ \A i \in 1..Len(vs) : list[i] \in keys => list[i] = vs[i]

LEMMA FreshOnce ==
    ASSUME NEW vs \in Seq(Sayable), EachOnce(vs), NEW keys, NEW list, Fresh(list, vs, keys), NEW v \in keys
    PROVE  Once(list, v)
  <1>1. Len(list) = Len(vs) /\ \A i \in 1..Len(vs) : list[i] \in keys => list[i] = vs[i]
    BY DEF Fresh
  <1>2. \A i, j \in 1..Len(vs) : vs[i] = vs[j] => i = j
    BY DEF EachOnce
  <1>3. \A i \in 1..Len(vs) : list[i] = v => vs[i] = v
    BY <1>1
  <1>4. QED BY <1>1, <1>2, <1>3 DEF Once

LEMMA FreshAgain ==
    ASSUME NEW vs \in Seq(Sayable), EachOnce(vs), NEW keys, NEW list, Fresh(list, vs, keys),
           NEW pair \in Sayable \X Sayable, pair[1] \in keys, pair[2] \notin keys
    PROVE  /\ Fresh(Relabel(list, pair), vs, keys)
           /\ \A i \in 1..Len(vs) :
                 Relabel(list, pair)[i] = IF list[i] = pair[1] THEN pair[2] ELSE list[i]
  <1>1. /\ list \in Seq(Sayable) /\ Len(list) = Len(vs)
        /\ \A i \in 1..Len(vs) : list[i] \in keys => list[i] = vs[i]
    BY DEF Fresh
  <1>2. Once(list, pair[1])
    BY FreshOnce, Zenon
  <1>3. PICK t : t = Relabel(list, pair)
    OBVIOUS
  <1>4. /\ t \in Seq(Sayable) /\ Len(t) = Len(vs)
        /\ \A i \in 1..Len(vs) : t[i] = IF list[i] = pair[1] THEN pair[2] ELSE list[i]
    BY <1>1, <1>2, <1>3, Relabeled
  <1>5. \A i \in 1..Len(vs) : t[i] \in keys => t[i] = vs[i]
    BY <1>1, <1>4
  <1>6. QED BY <1>3, <1>4, <1>5 DEF Fresh

NoChain(map) == \A p, q \in Range(map) : p[2] # q[1]

LEMMA PairsHave ==
    ASSUME NEW map \in Seq(Sayable \X Sayable), NoChain(map), NEW n \in 1..Len(map)
    PROVE  map[n] \in Sayable \X Sayable /\ map[n][1] \in Keys(map) /\ map[n][2] \notin Keys(map)
  <1>1. map[n] \in Sayable \X Sayable /\ map[n] \in Range(map)
    BY DEF Range
  <1>2. \A p \in Range(map) : map[n][2] # p[1]
    BY <1>1 DEF NoChain
  <1>3. QED BY <1>1, <1>2 DEF Keys

RelabelsBy(f, map, vs) ==
    f = [n \in 0..Len(map) |-> IF n = 0 THEN vs ELSE Relabel(f[n - 1], map[n])]

LEMMA CastRenamed ==
    ASSUME NEW map \in Seq(Sayable \X Sayable), NoChain(map), NEW tale,
           Voices(tale) \in Seq(Sayable), EachOnce(Voices(tale))
    PROVE  /\ Characters(tale, map) \in Seq(Sayable)
           /\ Len(Characters(tale, map)) = Len(Voices(tale))
           /\ \A i \in 1..Len(Voices(tale)) : Characters(tale, map)[i] = Renaming(map, Voices(tale)[i])
  <1>1. PICK vs \in Seq(Sayable) : vs = Voices(tale)
    BY Zenon
  <1>2. PICK K \in Nat, N \in Nat : K = Len(vs) /\ N = Len(map)
    OBVIOUS
  <1>3. PICK keys : keys = Keys(map)
    OBVIOUS
  <1>4. EachOnce(vs)
    BY <1>1
  <1>5. \A n \in 1..N : map[n] \in Sayable \X Sayable /\ map[n][1] \in keys /\ map[n][2] \notin keys
    BY <1>2, <1>3, PairsHave
  <1>6. ASSUME NEW list, Fresh(list, vs, keys), NEW n \in 1..N
        PROVE  /\ Fresh(Relabel(list, map[n]), vs, keys)
               /\ \A i \in 1..K : Relabel(list, map[n])[i] = IF list[i] = map[n][1] THEN map[n][2] ELSE list[i]
    <2>1. PICK pair : pair = map[n]
      OBVIOUS
    <2>2. pair \in Sayable \X Sayable /\ pair[1] \in keys /\ pair[2] \notin keys
      BY <1>5, <2>1
    <2>3. /\ Fresh(Relabel(list, pair), vs, keys)
          /\ \A i \in 1..Len(vs) : Relabel(list, pair)[i] = IF list[i] = pair[1] THEN pair[2] ELSE list[i]
      BY <1>4, <1>6, <2>2, FreshAgain
    <2>4. QED BY <1>2, <2>1, <2>3
  <1>7. PICK step : step = [a \in (1..N) \X Seq(Sayable) |-> Relabel(a[2], map[a[1]])]
    OBVIOUS
  <1>8. ASSUME NEW n \in 1..N, NEW s \in Seq(Sayable)
        PROVE  step[<<n, s>>] = Relabel(s, map[n])
    BY <1>7
  <1>9. PICK good : good = {a \in (0..N) \X Seq(Sayable) : Fresh(a[2], vs, keys)}
    OBVIOUS
  <1>10. ASSUME NEW n \in 1..N, NEW s \in Seq(Sayable), <<n - 1, s>> \in good
         PROVE  step[<<n, s>>] \in Seq(Sayable) /\ <<n, step[<<n, s>>]>> \in good
    <2>1. Fresh(s, vs, keys)
      BY <1>9, <1>10
    <2>2. Fresh(Relabel(s, map[n]), vs, keys)
      BY <1>6, <2>1
    <2>3. Relabel(s, map[n]) \in Seq(Sayable)
      BY <2>2 DEF Fresh
    <2>4. QED BY <1>8, <1>9, <2>2, <2>3
  <1>11. Fresh(vs, vs, keys)
    BY DEF Fresh
  <1>12. <<0, vs>> \in good
    BY <1>9, <1>11
  <1>13. PICK f : Iterates(f, N, vs, step) /\ Good(f, N, Seq(Sayable), good)
    <2>1. \A n \in 1..N, s \in Seq(Sayable) :
             <<n - 1, s>> \in good => step[<<n, s>>] \in Seq(Sayable) /\ <<n, step[<<n, s>>]>> \in good
      BY <1>10
    <2>2. QED BY <1>12, <2>1, Builds
  <1>14. f \in [0..N -> Seq(Sayable)]
    BY <1>13 DEF Good
  <1>15. ASSUME NEW n \in 0..N PROVE f[n] = IF n = 0 THEN vs ELSE Relabel(f[n - 1], map[n])
    <2>1. f[n] = IF n = 0 THEN vs ELSE step[<<n, f[n - 1]>>]
      BY <1>13 DEF Iterates
    <2>2. CASE n = 0
      BY <2>1, <2>2
    <2>3. CASE n # 0
      <3>1. n \in 1..N /\ f[n - 1] \in Seq(Sayable)
        BY <1>14, <2>3
      <3>2. QED BY <1>8, <2>1, <2>3, <3>1
    <2>4. QED BY <2>2, <2>3
  <1>16. f = [n \in 0..N |-> IF n = 0 THEN vs ELSE Relabel(f[n - 1], map[n])]
    BY <1>14, <1>15
  <1>17. RelabelsBy(f, map, vs)
    BY <1>2, <1>16, Zenon DEF RelabelsBy
  <1>18. PICK h : h = CHOOSE k : RelabelsBy(k, map, Voices(tale))
    OBVIOUS
  <1>19. RelabelsBy(h, map, vs)
    BY <1>1, <1>17, <1>18, Zenon
  <1>20. Characters(tale, map) = h[N]
    BY <1>2, <1>18, Zenon DEF Characters, RelabelsBy
  <1>21. ASSUME NEW n \in 0..N PROVE h[n] = IF n = 0 THEN vs ELSE Relabel(h[n - 1], map[n])
    BY <1>2, <1>19, Zenon DEF RelabelsBy
  <1>22. h[0] = vs
    <2>1. 0 \in 0..N
      OBVIOUS
    <2>2. QED BY <1>21, <2>1
  <1>23. ASSUME NEW n \in 1..N PROVE h[n] = Relabel(h[n - 1], map[n])
    <2>1. n \in 0..N /\ n # 0
      OBVIOUS
    <2>2. QED BY <1>21, <2>1
  <1> DEFINE S == {n \in 0..N : Fresh(h[n], vs, keys)}
  <1>24. 0 \in S
    BY <1>11, <1>22
  <1>25. ASSUME NEW n \in 1..N, n - 1 \in S PROVE n \in S
    <2>1. n \in 0..N /\ Fresh(h[n - 1], vs, keys)
      BY <1>25
    <2>2. Fresh(h[n], vs, keys)
      BY <1>6, <1>23, <2>1
    <2>3. QED BY <2>1, <2>2
  <1>26. \A n \in 0..N : n \in S
    <2> HIDE DEF S
    <2>1. QED BY <1>24, <1>25, UpTo, Zenon
  <1>27. ASSUME NEW i \in 1..K PROVE h[N][i] = Renaming(map, vs[i])
    <2>1. PICK v \in Sayable : v = vs[i]
      BY <1>2
    <2>2. PICK g \in [0..N -> Sayable] : Renames(g, map, v)
      BY <1>2, RenamedBy
    <2>3. /\ g[0] = v /\ Renaming(map, v) = g[N]
          /\ \A n \in 1..N : g[n] = IF g[n - 1] = map[n][1] THEN map[n][2] ELSE g[n - 1]
      BY <1>2, <2>2 DEF Renames
    <2> DEFINE T == {n \in 0..N : h[n][i] = g[n]}
    <2>4. 0 \in T
      BY <1>22, <2>1, <2>3
    <2>5. ASSUME NEW n \in 1..N, n - 1 \in T PROVE n \in T
      <3>1. n \in 0..N /\ n - 1 \in 0..N /\ h[n - 1][i] = g[n - 1]
        BY <2>5
      <3>2. Fresh(h[n - 1], vs, keys)
        BY <1>26, <3>1
      <3>3. h[n][i] = IF h[n - 1][i] = map[n][1] THEN map[n][2] ELSE h[n - 1][i]
        BY <1>6, <1>23, <3>2
      <3>4. QED BY <2>3, <3>1, <3>3
    <2>6. \A n \in 0..N : n \in T
      <3> HIDE DEF T
      <3>1. QED BY <2>4, <2>5, UpTo, Zenon
    <2>7. QED BY <2>1, <2>3, <2>6
  <1>28. Fresh(h[N], vs, keys)
    BY <1>26
  <1>29. h[N] \in Seq(Sayable) /\ Len(h[N]) = K
    BY <1>2, <1>28 DEF Fresh
  <1>30. QED BY <1>1, <1>2, <1>20, <1>27, <1>29

\* Who speaks in a script, by the names it has for them.
VoiceAt(tale, i, v) == Opens(tale[i], "voice") /\ tale[i].v[2] = v
SpeakersTo(tale, n) == {v \in Sayable : \E i \in 1..n : VoiceAt(tale, i, v)}

LEMMA VoiceHas ==
    ASSUME NEW k \in ImportRec, Opens(k, "voice")
    PROVE  k.v[2] \in Sayable /\ k = Tok("open", <<"voice", k.v[2]>>)
  <1>1. k \in AnyToken /\ k.t = "open" /\ Tag(k) = "voice" /\ Len(k.v) = 2
    BY DEF ImportRec, Opens, Telling
  <1>2. k.v \in Seq(Sayable) /\ k = Tok(k.t, k.v)
    BY <1>1, TokenHas
  <1>3. k.v[1] = "voice"
    BY <1>1 DEF Tag
  <1>4. PICK v \in Seq(Sayable) : v = k.v
    BY <1>2
  <1>5. Len(v) = 2 /\ v[1] = "voice" /\ v[2] \in Sayable
    BY <1>1, <1>3, <1>4
  <1>6. v = <<"voice", v[2]>>
    BY <1>5
  <1>7. k = Tok("open", v)
    BY <1>1, <1>2, <1>4
  <1>8. QED BY <1>4, <1>5, <1>6, <1>7, Zenon

LEMMA OnceFurther ==
    ASSUME NEW X, NEW q \in Seq(X), NEW v \in X, v \notin Range(q), EachOnce(q)
    PROVE  EachOnce(Append(q, v)) /\ Range(Append(q, v)) = Range(q) \cup {v}
  <1>1. PICK M \in Nat : M = Len(q) /\ DOMAIN q = 1..M
    OBVIOUS
  <1>2. PICK r \in Seq(X) : r = Append(q, v)
    BY AppendProperties
  <1>3. Len(r) = M + 1 /\ DOMAIN r = 1..(M + 1) /\ r[M + 1] = v /\ \A i \in 1..M : r[i] = q[i]
    BY <1>1, <1>2, AppendProperties
  <1>4. M + 1 \in 1..(M + 1) /\ \A i : i \in 1..(M + 1) <=> i \in 1..M \/ i = M + 1
    OBVIOUS
  <1>5. Range(r) = Range(q) \cup {v}
    BY <1>1, <1>3, <1>4 DEF Range
  <1>6. \A i \in 1..M : q[i] # v
    BY <1>1 DEF Range
  <1>7. \A i, j \in 1..M : q[i] = q[j] => i = j
    BY <1>1 DEF EachOnce
  <1>8. ASSUME NEW i \in 1..(M + 1), NEW j \in 1..(M + 1), r[i] = r[j] PROVE i = j
    BY <1>3, <1>4, <1>6, <1>7, <1>8
  <1>9. EachOnce(r)
    BY <1>3, <1>8 DEF EachOnce
  <1>10. QED BY <1>2, <1>5, <1>9

LEMMA VoicesOnce ==
    ASSUME NEW tale \in Seq(ImportRec)
    PROVE  /\ Voices(tale) \in Seq(Sayable) /\ EachOnce(Voices(tale))
           /\ Range(Voices(tale)) = SpeakersTo(tale, Len(tale))
  <1>1. PICK N \in Nat : N = Len(tale) /\ DOMAIN tale = 1..N /\ \A i \in 1..N : tale[i] \in ImportRec
    OBVIOUS
  <1>2. PICK ss : ss = [i \in DOMAIN tale |-> IF NewVoice(tale, i) THEN <<tale[i].v[2]>> ELSE <<>>]
    OBVIOUS
  <1>3. ASSUME NEW i \in 1..N, Opens(tale[i], "voice")
        PROVE  tale[i].v[2] \in Sayable /\ tale[i] = Tok("open", <<"voice", tale[i].v[2]>>)
    BY <1>1, <1>3, VoiceHas
  <1>4. \A i \in 1..N : ss[i] = IF NewVoice(tale, i) THEN <<tale[i].v[2]>> ELSE <<>>
    BY <1>1, <1>2
  <1>5. ASSUME NEW i \in 1..N PROVE ss[i] \in Seq(Sayable)
    <2>1. CASE NewVoice(tale, i)
      <3>1. tale[i].v[2] \in Sayable
        BY <1>3, <2>1 DEF NewVoice
      <3>2. <<tale[i].v[2]>> \in Seq(Sayable)
        BY <3>1, Speech, Zenon
      <3>3. QED BY <1>4, <2>1, <3>2, Zenon
    <2>2. CASE ~NewVoice(tale, i)
      <3>1. <<>> \in Seq(Sayable)
        OBVIOUS
      <3>2. QED BY <1>4, <2>2, <3>1, Zenon
    <2>3. QED BY <2>1, <2>2
  <1>6. ss \in Seq(Seq(Sayable)) /\ Len(ss) = N
    <2>1. ss = [i \in 1..N |-> ss[i]]
      BY <1>1, <1>2
    <2>2. QED BY <1>5, <2>1
  <1>7. PICK g \in [0..N -> Seq(Sayable)] : StrungUp(g, ss)
    BY <1>6, Flattened
  <1>8. g[0] = <<>> /\ Voices(tale) = g[N] /\ \A n \in 1..N : g[n] = g[n - 1] \o ss[n]
    <2>1. Voices(tale) = FlattenSeq(ss)
      BY <1>2, Zenon DEF Voices
    <2>2. QED BY <1>6, <1>7, <2>1 DEF StrungUp
  <1> DEFINE S == {n \in 0..N : EachOnce(g[n]) /\ Range(g[n]) = SpeakersTo(tale, n)}
  <1>9. 0 \in S
    <2>1. SpeakersTo(tale, 0) = {}
      BY DEF SpeakersTo
    <2>2. Range(<<>>) = {} /\ EachOnce(<<>>)
      BY DEF Range, EachOnce
    <2>3. 0 \in 0..N
      OBVIOUS
    <2>4. QED BY <1>8, <2>1, <2>2, <2>3, Zenon
  <1>10. ASSUME NEW n \in 1..N, n - 1 \in S PROVE n \in S
    <2>1. PICK m \in 0..N : m = n - 1 /\ n \in 0..N /\ \A i : i \in 1..n <=> i \in 1..m \/ i = n
      OBVIOUS
    <2>2. PICK q \in Seq(Sayable) : q = g[m]
      BY <1>7
    <2>3. EachOnce(q) /\ Range(q) = SpeakersTo(tale, m)
      BY <1>10, <2>1, <2>2
    <2>4. g[n] = q \o ss[n]
      BY <1>8, <2>1, <2>2
    <2>5. \A v : v \in SpeakersTo(tale, n) <=> v \in SpeakersTo(tale, m) \/ (v \in Sayable /\ VoiceAt(tale, n, v))
      BY <2>1 DEF SpeakersTo
    <2>6. CASE NewVoice(tale, n)
      <3>1. PICK v \in Sayable : v = tale[n].v[2]
        BY <1>3, <2>6 DEF NewVoice
      <3>2. ss[n] = <<v>>
        BY <1>4, <2>6, <3>1
      <3>3. q \o <<v>> = Append(q, v)
        OBVIOUS
      <3>4. g[n] = Append(q, v)
        BY <2>4, <3>2, <3>3
      <3>5. \A u : VoiceAt(tale, n, u) <=> u = v
        BY <2>6, <3>1 DEF VoiceAt, NewVoice
      <3>6. v \notin Range(q)
        <4> SUFFICES ASSUME v \in SpeakersTo(tale, m) PROVE FALSE
          BY <2>3
        <4>1. PICK i \in 1..m : Opens(tale[i], "voice") /\ tale[i].v[2] = v
          BY DEF SpeakersTo, VoiceAt
        <4>2. i \in 1..N /\ i \in 1..(n - 1)
          BY <2>1
        <4>3. tale[i] = Tok("open", <<"voice", v>>) /\ tale[n] = Tok("open", <<"voice", v>>)
          BY <1>3, <2>6, <3>1, <4>1, <4>2 DEF NewVoice
        <4>4. QED BY <2>6, <4>2, <4>3 DEF NewVoice
      <3>7. PICK r \in Seq(Sayable) : r = Append(q, v)
        BY AppendProperties
      <3>8. EachOnce(r) /\ Range(r) = Range(q) \cup {v}
        BY <2>3, <3>6, <3>7, OnceFurther
      <3>12. Range(r) = SpeakersTo(tale, n)
        BY <2>3, <2>5, <3>5, <3>8
      <3>13. QED BY <2>1, <3>4, <3>7, <3>8, <3>12
    <2>7. CASE ~NewVoice(tale, n)
      <3>1. g[n] = q
        BY <1>4, <2>4, <2>7, ConcatEmptySeq
      <3>2. ASSUME NEW v, VoiceAt(tale, n, v) PROVE v \in SpeakersTo(tale, m)
        <4>1. Opens(tale[n], "voice") /\ tale[n].v[2] = v
          BY <3>2 DEF VoiceAt
        <4>2. PICK j \in 1..(n - 1) : tale[j] = tale[n]
          BY <2>7, <4>1 DEF NewVoice
        <4>3. j \in 1..m /\ VoiceAt(tale, j, v) /\ v \in Sayable
          BY <1>3, <2>1, <4>1, <4>2 DEF VoiceAt
        <4>4. QED BY <4>3 DEF SpeakersTo
      <3>3. SpeakersTo(tale, n) = SpeakersTo(tale, m)
        BY <2>5, <3>2
      <3>4. QED BY <2>1, <2>2, <2>3, <3>1, <3>3
    <2>8. QED BY <2>6, <2>7
  <1>11. \A n \in 0..N : n \in S
    <2> HIDE DEF S
    <2>1. QED BY <1>9, <1>10, UpTo, Zenon
  <1>12. g[N] \in Seq(Sayable) /\ EachOnce(g[N]) /\ Range(g[N]) = SpeakersTo(tale, N)
    BY <1>7, <1>11
  <1>13. QED BY <1>1, <1>8, <1>12

\* A token renamed is what it was, but for the name of a voice.
SameButName(k, r, map) ==
    /\ r \in ImportRec /\ WordOf[r] = WordOf[k]
    /\ \A tag : (Opens(r, tag) <=> Opens(k, tag)) /\ (Ends(r, tag) <=> Ends(k, tag))
    /\ Opens(k, "voice") => r.v[2] = Renaming(map, k.v[2])

LEMMA TokenRenamed ==
    ASSUME NEW map \in Seq(Sayable \X Sayable), NEW k \in ImportRec
    PROVE  SameButName(k, IF Opens(k, "voice") THEN Tok("open", <<"voice", Renaming(map, k.v[2])>>) ELSE k, map)
  <1>1. CASE Opens(k, "voice")
    <2>1. PICK w \in Sayable : w = Renaming(map, k.v[2])
      <3>1. k.v[2] \in Sayable
        BY <1>1, VoiceHas
      <3>2. PICK f \in [0..Len(map) -> Sayable] : Renames(f, map, k.v[2])
        BY <3>1, RenamedBy
      <3>3. Len(map) \in 0..Len(map)
        OBVIOUS
      <3>4. f[Len(map)] \in Sayable /\ Renaming(map, k.v[2]) = f[Len(map)]
        BY <3>2, <3>3 DEF Renames
      <3>5. QED BY <3>4, Zenon
    <2>2. "voice" \in Sayable
      BY DEF Sayable, Notation
    <2>3. PICK v \in Seq(Sayable) : v = <<"voice", w>> /\ v # <<>> /\ v[1] = "voice" /\ v[2] = w
      <3>1. <<"voice", w>> \in Seq(Sayable) /\ <<"voice", w>> # <<>>
            /\ <<"voice", w>>[1] = "voice" /\ <<"voice", w>>[2] = w
        BY <2>2, Speech, Zenon
      <3>2. QED BY <3>1, Zenon
    <2>4. PICK r \in AnyToken : r = Tok("open", v) /\ r.t = "open" /\ r.v = v
      <3>1. Tok("open", v) \in AnyToken /\ Tok("open", v).t = "open" /\ Tok("open", v).v = v
        BY <2>3, TokIs
      <3>2. QED BY <3>1, Zenon
    <2>5. Tag(r) = "voice" /\ Len(r.v) = 2
      BY <2>3, <2>4 DEF Tag
    <2>6. r \in ImportRec
      BY <2>4, <2>5 DEF ImportRec
    <2>7. k \in AnyToken /\ k.t = "open" /\ Tag(k) = "voice"
      BY <1>1 DEF ImportRec, Opens
    <2>8. WordOf[r] = WordOf[k]
      BY <2>4, <2>7, WordAt
    <2>9. \A tag : (Opens(r, tag) <=> Opens(k, tag)) /\ (Ends(r, tag) <=> Ends(k, tag))
      BY <2>4, <2>5, <2>7 DEF Opens, Ends
    <2>10. r.v[2] = Renaming(map, k.v[2])
      BY <2>1, <2>3, <2>4
    <2>11. SameButName(k, r, map)
      BY <2>6, <2>8, <2>9, <2>10, Zenon DEF SameButName
    <2>12. r = Tok("open", <<"voice", Renaming(map, k.v[2])>>)
      BY <2>1, <2>3, <2>4, Zenon
    <2>13. QED BY <1>1, <2>11, <2>12, Zenon
  <1>2. CASE ~Opens(k, "voice")
    BY <1>2, Zenon DEF SameButName
  <1>3. QED BY <1>1, <1>2

LEMMA ScriptRenamed ==
    ASSUME NEW map \in Seq(Sayable \X Sayable), NEW tale \in Seq(ImportRec)
    PROVE  /\ Renamed(tale, map) \in Seq(ImportRec) /\ Len(Renamed(tale, map)) = Len(tale)
           /\ \A i \in 1..Len(tale) : SameButName(tale[i], Renamed(tale, map)[i], map)
  <1>1. PICK N \in Nat : N = Len(tale) /\ DOMAIN tale = 1..N /\ \A i \in 1..N : tale[i] \in ImportRec
    OBVIOUS
  <1>2. PICK r : r = Renamed(tale, map)
    OBVIOUS
  <1>3. DOMAIN r = 1..N /\ r = [i \in 1..N |-> r[i]]
    BY <1>1, <1>2 DEF Renamed
  <1>4. ASSUME NEW i \in 1..N PROVE SameButName(tale[i], r[i], map)
    <2>1. r[i] = IF Opens(tale[i], "voice") THEN Tok("open", <<"voice", Renaming(map, tale[i].v[2])>>) ELSE tale[i]
      BY <1>1, <1>2 DEF Renamed
    <2>2. tale[i] \in ImportRec
      BY <1>1
    <2>3. QED BY <2>1, <2>2, TokenRenamed, Zenon
  <1>5. \A i \in 1..N : r[i] \in ImportRec
    BY <1>4 DEF SameButName
  <1>6. r \in Seq(ImportRec) /\ Len(r) = N
    BY <1>3, <1>5
  <1>7. QED BY <1>1, <1>2, <1>4, <1>6

LEMMA NothingMuted ==
    ASSUME NEW tale \in Seq(ImportRec), NEW i \in 1..Len(tale), \A j \in DOMAIN tale : ~Opens(tale[j], "sub")
    PROVE  ~Muted(tale, i)
  <1>1. {j \in 1..(i - 1) : Opens(tale[j], "sub")} = {}
    BY DOMAIN tale = 1..Len(tale)
  <1>2. IsFiniteSet({j \in 1..(i - 1) : Ends(tale[j], "sub")})
    <2>1. IsFiniteSet(1..(i - 1))
      BY FS_Interval
    <2>2. QED BY <2>1, FS_Subset
  <1>3. PICK n \in Nat : n = Cardinality({j \in 1..(i - 1) : Ends(tale[j], "sub")})
    BY <1>2, FS_CardinalityType
  <1>4. Cardinality({}) = 0
    BY FS_EmptySet
  <1>5. PICK m : m = Cardinality({j \in 1..(i - 1) : Opens(tale[j], "sub")})
    BY Zenon
  <1>6. m = 0
    BY <1>1, <1>4, <1>5, Zenon
  <1>7. ~(m > n)
    BY <1>6
  <1>8. QED BY <1>3, <1>5, <1>7, Zenon DEF Muted

LEMMA MutedAsWritten ==
    ASSUME NEW map, NEW tale, NEW r, NEW N \in Nat, NEW i \in 1..N,
           \A j \in 1..N : SameButName(tale[j], r[j], map)
    PROVE  Muted(r, i) <=> Muted(tale, i)
  <1>1. \A j \in 1..(i - 1) : j \in 1..N
    OBVIOUS
  <1>2. \A j \in 1..N : (Opens(r[j], "sub") <=> Opens(tale[j], "sub")) /\ (Ends(r[j], "sub") <=> Ends(tale[j], "sub"))
    BY DEF SameButName
  <1>3. {j \in 1..(i - 1) : Opens(r[j], "sub")} = {j \in 1..(i - 1) : Opens(tale[j], "sub")}
    BY <1>1, <1>2, Zenon
  <1>4. {j \in 1..(i - 1) : Ends(r[j], "sub")} = {j \in 1..(i - 1) : Ends(tale[j], "sub")}
    BY <1>1, <1>2, Zenon
  <1>5. QED BY <1>3, <1>4, Zenon DEF Muted

\* Script to tags.
IsSpeaker(x, v) == x.t = "tag" /\ Tag(x) = "speaker" /\ x.v[2] = v
Turns(ss, tale, map) ==
    /\ ss \in Seq(Seq(AcxRec)) /\ Len(ss) = Len(tale)
    /\ \A i \in 1..Len(tale) : \E r : /\ SameButName(tale[i], r, map)
                                      /\ ss[i] = IF Muted(tale, i) THEN <<>> ELSE AcxOf(r)

LEMMA Converted ==
    ASSUME NEW map \in Seq(Sayable \X Sayable), NEW tale \in Seq(ImportRec)
    PROVE  \E ss : Turns(ss, tale, map) /\ ConvertToAcx(Renamed(tale, map)) = FlattenSeq(ss)
  <1>1. PICK N \in Nat : N = Len(tale)
    OBVIOUS
  <1>2. PICK r : r = Renamed(tale, map)
    OBVIOUS
  <1>3. r \in Seq(ImportRec) /\ Len(r) = N /\ DOMAIN r = 1..N /\ \A i \in 1..N : SameButName(tale[i], r[i], map)
    <2>1. r \in Seq(ImportRec) /\ Len(r) = N
      BY <1>1, <1>2, ScriptRenamed, Zenon
    <2>2. \A i \in 1..N : SameButName(tale[i], r[i], map)
      BY <1>1, <1>2, ScriptRenamed, Zenon
    <2>3. DOMAIN r = 1..N
      BY <2>1
    <2>4. QED BY <2>1, <2>2, <2>3, Zenon
  <1>4. PICK ss : ss = [i \in DOMAIN r |-> IF Muted(r, i) THEN <<>> ELSE AcxOf(r[i])]
    OBVIOUS
  <1>5. ASSUME NEW i \in 1..N PROVE ss[i] = IF Muted(tale, i) THEN <<>> ELSE AcxOf(r[i])
    <2>1. ss[i] = IF Muted(r, i) THEN <<>> ELSE AcxOf(r[i])
      BY <1>3, <1>4
    <2>2. Muted(r, i) <=> Muted(tale, i)
      BY <1>3, MutedAsWritten
    <2>3. QED BY <2>1, <2>2, Zenon
  <1>6. ASSUME NEW i \in 1..N PROVE ss[i] \in Seq(AcxRec)
    <2>1. r[i] \in ImportRec
      BY <1>3
    <2>2. AcxOf(r[i]) \in Seq(AcxRec)
      BY <2>1, TokenBecomes DEF BecomesAcx
    <2>3. <<>> \in Seq(AcxRec)
      OBVIOUS
    <2>4. QED BY <1>5, <2>2, <2>3, Zenon
  <1>7. ss \in Seq(Seq(AcxRec)) /\ Len(ss) = N
    <2>1. ss = [i \in 1..N |-> ss[i]]
      BY <1>3, <1>4
    <2>2. QED BY <1>6, <2>1
  <1>8. ConvertToAcx(r) = FlattenSeq(ss)
    BY <1>4, Zenon DEF ConvertToAcx
  <1>9. Turns(ss, tale, map)
    <2>1. ASSUME NEW i \in 1..N
          PROVE  \E x : SameButName(tale[i], x, map) /\ ss[i] = IF Muted(tale, i) THEN <<>> ELSE AcxOf(x)
      BY <1>3, <1>5, Zenon
    <2>2. QED BY <1>1, <1>7, <2>1, Zenon DEF Turns
  <1>10. QED BY <1>2, <1>8, <1>9, Zenon

LEMMA ImportedIsAny ==
    ASSUME NEW q \in Seq(ImportRec)
    PROVE  q \in Seq(AnyToken)
  <1>1. \A k \in ImportRec : k \in AnyToken
    BY Zenon DEF ImportRec
  <1>2. QED BY <1>1

LEMMA AcxIsAny ==
    /\ \A k \in AcxRec : k \in AnyToken
    /\ \A q \in Seq(AcxRec) : q \in Seq(AnyToken)
    /\ \A ss \in Seq(Seq(AcxRec)) : ss \in Seq(Seq(AnyToken))
  <1>1. \A k \in AcxRec : k \in AnyToken
    BY Zenon DEF AcxRec
  <1>2. ASSUME NEW q \in Seq(AcxRec) PROVE q \in Seq(AnyToken)
    BY <1>1
  <1>3. ASSUME NEW ss \in Seq(Seq(AcxRec)) PROVE ss \in Seq(Seq(AnyToken))
    BY <1>2
  <1>4. QED BY <1>1, <1>2, <1>3

LEMMA ScriptWords ==
    ASSUME NEW map, NEW tale \in Seq(ImportRec), NEW ss, Turns(ss, tale, map),
           \A i \in DOMAIN tale : ~Opens(tale[i], "sub")
    PROVE  WordTokens(FlattenSeq(ss)) = WordTokens(tale)
  <1>1. ss \in Seq(Seq(AnyToken)) /\ Len(ss) = Len(tale) /\ tale \in Seq(AnyToken)
    BY AcxIsAny, ImportedIsAny DEF Turns
  <1>2. ASSUME NEW i \in 1..Len(tale) PROVE WordTokens(ss[i]) = WordOf[tale[i]]
    <2>1. PICK r : SameButName(tale[i], r, map) /\ ss[i] = IF Muted(tale, i) THEN <<>> ELSE AcxOf(r)
      BY Zenon DEF Turns
    <2>2. ss[i] = AcxOf(r)
      BY <2>1, NothingMuted
    <2>3. r \in ImportRec /\ WordOf[r] = WordOf[tale[i]] /\ ~Opens(r, "sub")
      <3>1. i \in DOMAIN tale
        OBVIOUS
      <3>2. QED BY <2>1, <3>1, Zenon DEF SameButName
    <2>4. WordTokens(AcxOf(r)) = WordOf[r]
      BY <2>3, TokenBecomes, Zenon DEF BecomesAcx
    <2>5. QED BY <2>2, <2>3, <2>4, Zenon
  <1>3. QED BY <1>1, <1>2, WordsOfParts

\* No voice speaks inside an alias; those who do are named in the tags.
VoicesHeard(tale) == \A i \in DOMAIN tale : Opens(tale[i], "voice") => ~Muted(tale, i)
Cast(acx, tale, map) ==
    \A v : (\E x \in Range(acx) : IsSpeaker(x, v))
           <=> \E i \in 1..Len(tale) : Opens(tale[i], "voice") /\ v = Renaming(map, tale[i].v[2])

LEMMA ScriptSpeakers ==
    ASSUME NEW map, NEW tale \in Seq(ImportRec), NEW ss, Turns(ss, tale, map), VoicesHeard(tale)
    PROVE  Cast(FlattenSeq(ss), tale, map)
  <1>1. ss \in Seq(Seq(AcxRec)) /\ Len(ss) = Len(tale)
    BY DEF Turns
  <1>2. PICK N \in Nat : N = Len(tale) /\ DOMAIN ss = 1..N /\ DOMAIN tale = 1..N
    BY <1>1
  <1>3. \A x : x \in Range(FlattenSeq(ss)) <=> \E i \in 1..N : x \in Range(ss[i])
    <2>1. \A x : x \in Range(FlattenSeq(ss)) <=> \E i \in DOMAIN ss : x \in Range(ss[i])
      BY <1>1, RangeFlatten
    <2>2. QED BY <1>2, <2>1
  <1>4. ASSUME NEW i \in 1..N
        PROVE  \A v : (\E x \in Range(ss[i]) : IsSpeaker(x, v))
                      <=> Opens(tale[i], "voice") /\ v = Renaming(map, tale[i].v[2])
    <2>1. PICK r : SameButName(tale[i], r, map) /\ ss[i] = IF Muted(tale, i) THEN <<>> ELSE AcxOf(r)
      BY <1>2, Zenon DEF Turns
    <2>2. r \in ImportRec /\ (Opens(r, "voice") <=> Opens(tale[i], "voice"))
          /\ (Opens(tale[i], "voice") => r.v[2] = Renaming(map, tale[i].v[2]))
      BY <2>1, Zenon DEF SameButName
    <2>3. /\ \A x \in Range(AcxOf(r)) : x.t = "tag" /\ Tag(x) = "speaker" => Opens(r, "voice") /\ x.v[2] = r.v[2]
          /\ Opens(r, "voice") => \E x \in Range(AcxOf(r)) : x.t = "tag" /\ Tag(x) = "speaker" /\ x.v[2] = r.v[2]
      BY <2>2, TokenBecomes, Zenon DEF BecomesAcx
    <2>4. CASE Muted(tale, i)
      <3>1. Range(ss[i]) = {} /\ ~Opens(tale[i], "voice")
        <4>1. ss[i] = <<>>
          BY <2>1, <2>4
        <4>2. Range(<<>>) = {}
          BY DEF Range
        <4>3. ~Opens(tale[i], "voice")
          BY <1>2, <2>4, Zenon DEF VoicesHeard
        <4>4. QED BY <4>1, <4>2, <4>3
      <3>2. QED BY <3>1
    <2>5. CASE ~Muted(tale, i)
      <3>1. ss[i] = AcxOf(r)
        BY <2>1, <2>5
      <3>2. QED BY <2>2, <2>3, <3>1, Zenon DEF IsSpeaker
    <2>6. QED BY <2>4, <2>5
  <1>5. QED BY <1>2, <1>3, <1>4, Zenon DEF Cast

WordsThere(tale, acx) == (\A i \in DOMAIN tale : ~Opens(tale[i], "sub")) => WordTokens(acx) = WordTokens(tale)
CastListed(tale, map, acx) ==
    NoChain(map) /\ VoicesHeard(tale) =>
    Range(Characters(tale, map)) = {k.v[2] : k \in {x \in Range(acx) : x.t = "tag" /\ Tag(x) = "speaker"}}

LEMMA ScriptKept ==
    ASSUME NEW map \in Seq(Sayable \X Sayable), NEW tale \in Seq(ImportRec), NEW acx,
           acx = ConvertToAcx(Renamed(tale, map))
    PROVE  /\ WordTokens(ConvertToSsml(acx)) = WordTokens(acx)
           /\ WordsThere(tale, acx) /\ CastListed(tale, map, acx)
  <1>1. PICK ss : Turns(ss, tale, map) /\ acx = FlattenSeq(ss)
    BY Converted, Zenon
  <1>2. acx \in Seq(AcxRec)
    BY <1>1, StrungType DEF Turns
  <1>3. ASSUME \A i \in DOMAIN tale : ~Opens(tale[i], "sub") PROVE WordTokens(acx) = WordTokens(tale)
    BY <1>1, <1>3, ScriptWords, Zenon
  <1>4. ASSUME NoChain(map), VoicesHeard(tale)
        PROVE  Range(Characters(tale, map))
               = {k.v[2] : k \in {x \in Range(acx) : x.t = "tag" /\ Tag(x) = "speaker"}}
    <2>1. PICK vs \in Seq(Sayable) : vs = Voices(tale) /\ EachOnce(vs) /\ Range(vs) = SpeakersTo(tale, Len(tale))
      BY VoicesOnce, Zenon
    <2>2. PICK K \in Nat, N \in Nat : K = Len(vs) /\ DOMAIN vs = 1..K /\ N = Len(tale) /\ DOMAIN tale = 1..N
      OBVIOUS
    <2>3. PICK cs : cs = Characters(tale, map)
      OBVIOUS
    <2>4. cs \in Seq(Sayable) /\ Len(cs) = K /\ \A i \in 1..K : cs[i] = Renaming(map, vs[i])
      BY <1>4, <2>1, <2>2, <2>3, CastRenamed, Zenon
    <2>5. \A v : (\E x \in Range(acx) : IsSpeaker(x, v))
                 <=> \E i \in 1..N : Opens(tale[i], "voice") /\ v = Renaming(map, tale[i].v[2])
      <3>1. Cast(acx, tale, map)
        BY <1>1, <1>4, ScriptSpeakers, Zenon
      <3>2. QED BY <2>2, <3>1 DEF Cast
    <2>6. \A u : (\E i \in 1..K : vs[i] = u) <=> \E i \in 1..N : Opens(tale[i], "voice") /\ tale[i].v[2] = u
      <3>1. \A u : (\E i \in 1..K : vs[i] = u) <=> u \in Range(vs)
        BY <2>2 DEF Range
      <3>2. \A u : u \in SpeakersTo(tale, N) <=> \E i \in 1..N : Opens(tale[i], "voice") /\ tale[i].v[2] = u
        <4>1. \A i \in 1..N : Opens(tale[i], "voice") => tale[i].v[2] \in Sayable
          <5> SUFFICES ASSUME NEW i \in 1..N, Opens(tale[i], "voice") PROVE tale[i].v[2] \in Sayable
            BY Zenon
          <5>1. tale[i] \in ImportRec
            BY <2>2
          <5>2. QED BY <5>1, VoiceHas
        <4>2. QED BY <4>1, Zenon DEF SpeakersTo, VoiceAt
      <3>3. QED BY <2>1, <2>2, <3>1, <3>2, Zenon
    <2>7. \A v : v \in Range(cs) <=> \E i \in 1..K : v = Renaming(map, vs[i])
      <3>1. DOMAIN cs = 1..K
        BY <2>4
      <3>2. \A v : v \in Range(cs) <=> \E i \in 1..K : v = cs[i]
        BY <3>1 DEF Range
      <3>3. ASSUME NEW i \in 1..K PROVE cs[i] = Renaming(map, vs[i])
        BY <2>4, Zenon
      <3>4. ASSUME NEW v, NEW i \in 1..K PROVE v = cs[i] <=> v = Renaming(map, vs[i])
        BY <3>3, Zenon
      <3>5. QED BY <3>2, <3>4, Zenon
    <2>8. \A v : (\E i \in 1..K : v = Renaming(map, vs[i]))
                 <=> \E i \in 1..N : Opens(tale[i], "voice") /\ v = Renaming(map, tale[i].v[2])
      <3>1. ASSUME NEW i \in 1..K
            PROVE  \E j \in 1..N : Opens(tale[j], "voice") /\ Renaming(map, vs[i]) = Renaming(map, tale[j].v[2])
        <4>1. PICK j \in 1..N : Opens(tale[j], "voice") /\ tale[j].v[2] = vs[i]
          BY <2>6, Zenon
        <4>2. QED BY <4>1, Zenon
      <3>2. ASSUME NEW j \in 1..N, Opens(tale[j], "voice")
            PROVE  \E i \in 1..K : Renaming(map, tale[j].v[2]) = Renaming(map, vs[i])
        <4>1. PICK i \in 1..K : vs[i] = tale[j].v[2]
          BY <2>6, <3>2, Zenon
        <4>2. QED BY <4>1, Zenon
      <3>3. QED BY <3>1, <3>2, Zenon
    <2>9. \A v : v \in Range(cs) <=> \E x \in Range(acx) : IsSpeaker(x, v)
      BY <2>5, <2>7, <2>8, Zenon
    <2>10. \A v : v \in {k.v[2] : k \in {x \in Range(acx) : x.t = "tag" /\ Tag(x) = "speaker"}}
                  <=> \E x \in Range(acx) : IsSpeaker(x, v)
      BY Zenon DEF IsSpeaker
    <2>11. \A v : v \in Range(cs)
                  <=> v \in {k.v[2] : k \in {x \in Range(acx) : x.t = "tag" /\ Tag(x) = "speaker"}}
      BY <2>9, <2>10, Zenon
    <2>12. QED BY <2>3, <2>11, Zenon
  <1>5. QED BY <1>2, <1>3, <1>4, WordsGoBack, Zenon DEF WordsThere, CastListed

Imported(tale, map) ==
    LET acx == ConvertToAcx(Renamed(tale, map)) IN
    [acx |-> acx, characters |-> Characters(tale, map), back |-> ConvertToSsml(acx)]
ManuscriptInv ==
    \/ msInput = <<"none">>
    \/ \E book \in RawBooks : msInput = <<"book", book>> /\ msResult = SplitByChapters(book)
    \/ \E text \in Texts : msInput = <<"text", text>>
    \/ \E tale \in Imports, map \in NameMaps :
          msInput = <<"script", tale, map>> /\ msResult = Imported(tale, map)

LEMMA WiderSeq ==
    ASSUME NEW X, NEW Y, X \subseteq Y, NEW q \in Seq(X)
    PROVE  q \in Seq(Y)
  OBVIOUS

LEMMA ImportsHave ==
    ASSUME NEW tale \in Imports, NEW map \in NameMaps
    PROVE  tale \in Seq(ImportRec) /\ map \in Seq(Sayable \X Sayable)
  <1>1. /\ tale \in Seq(TokenRec) /\ map \in Seq(STRING \X STRING)
        /\ \A i \in DOMAIN tale :
              tale[i].t # "tag" /\ (tale[i].t = "open" /\ Tag(tale[i]) \in Telling => Len(tale[i].v) = 2)
    BY ImportAssumption
  <1>2. STRING \subseteq Sayable
    BY DEF Sayable
  <1>3. ASSUME NEW q \in Seq(STRING) PROVE q \in Seq(Sayable)
    BY <1>2, WiderSeq, Zenon
  <1>4. ASSUME NEW k \in TokenRec PROVE k \in AnyToken
    <2>1. k.t \in {"word", "open", "close", "tag"} /\ k.v \in Seq(STRING) /\ k.v # <<>> /\ k = [t |-> k.t, v |-> k.v]
      BY DEF TokenRec
    <2>2. PICK v \in Seq(Sayable) : v = k.v
      BY <1>3, <2>1
    <2>3. QED BY <2>1, <2>2 DEF AnyToken
  <1>5. \A i \in DOMAIN tale : tale[i] \in TokenRec
    BY <1>1
  <1>6. \A i \in DOMAIN tale : tale[i] \in ImportRec
    BY <1>1, <1>4, <1>5, Zenon DEF ImportRec
  <1>7. tale \in Seq(ImportRec)
    BY <1>1, <1>6
  <1>8. \A p \in STRING \X STRING : p \in Sayable \X Sayable
    BY <1>2
  <1>9. map \in Seq(Sayable \X Sayable)
    BY <1>1, <1>8
  <1>10. QED BY <1>7, <1>9

LEMMA ManuscriptStep == ManuscriptInv /\ [ManuscriptNext]_manuscriptVars => ManuscriptInv'
  <1> SUFFICES ASSUME ManuscriptInv, [ManuscriptNext]_manuscriptVars PROVE ManuscriptInv'
    OBVIOUS
  <1>1. CASE \E book \in RawBooks : SplitBook(book)
    BY <1>1, Zenon DEF SplitBook, ManuscriptInv
  <1>2. CASE \E text \in Texts : ChunkChapter(text)
    BY <1>2, Zenon DEF ChunkChapter, ManuscriptInv
  <1>3. CASE \E tale \in Imports, map \in NameMaps : ImportScript(tale, map)
    BY <1>3, Zenon DEF ImportScript, ManuscriptInv, Imported
  <1>4. CASE UNCHANGED manuscriptVars
    BY <1>4 DEF manuscriptVars, ManuscriptInv
  <1>5. QED BY <1>1, <1>2, <1>3, <1>4 DEF ManuscriptNext

\* Every line of prose of a book is in one chapter, in order, but for a last
\* section too short to be one, and every word of an imported script is kept
\* there and back, with the cast it lists those who speak (_split_by_marker,
\* _split_by_heuristics, import_audible_script).
THEOREM ManuscriptIsKept == ManuscriptSpec => []ManuscriptKept
  <1>1. ManuscriptInit => ManuscriptInv
    BY DEF ManuscriptInit, ManuscriptInv
  <1>2. ManuscriptInv => ManuscriptKept
    <2> SUFFICES ASSUME ManuscriptInv PROVE ChaptersKeepText /\ ImportKeepsWords
      BY DEF ManuscriptKept
    <2>1. CASE msInput = <<"none">>
      <3>1. msInput[1] = "none"
        BY <2>1
      <3>2. QED BY <3>1 DEF ChaptersKeepText, ImportKeepsWords
    <2>2. CASE \E book \in RawBooks : msInput = <<"book", book>> /\ msResult = SplitByChapters(book)
      <3>1. PICK book \in RawBooks : msInput = <<"book", book>> /\ msResult = SplitByChapters(book)
        BY <2>2
      <3>2. book \in Seq(LineRec)
        BY BookAssumption
      <3>3. ChaptersKeepText
        BY <3>1, <3>2, BookKept
      <3>4. msInput[1] = "book"
        BY <3>1
      <3>5. ImportKeepsWords
        BY <3>4 DEF ImportKeepsWords
      <3>6. QED BY <3>3, <3>5
    <2>3. CASE \E text \in Texts : msInput = <<"text", text>>
      <3>1. msInput[1] = "text"
        BY <2>3
      <3>2. QED BY <3>1 DEF ChaptersKeepText, ImportKeepsWords
    <2>4. CASE \E tale \in Imports, map \in NameMaps :
                  msInput = <<"script", tale, map>> /\ msResult = Imported(tale, map)
      <3>1. PICK tale \in Imports, map \in NameMaps :
                  msInput = <<"script", tale, map>> /\ msResult = Imported(tale, map)
        BY <2>4
      <3>2. tale \in Seq(ImportRec) /\ map \in Seq(Sayable \X Sayable)
        BY ImportsHave
      <3>3. PICK acx : acx = ConvertToAcx(Renamed(tale, map))
        OBVIOUS
      <3>4. msResult = [acx |-> acx, characters |-> Characters(tale, map), back |-> ConvertToSsml(acx)]
        BY <3>1, <3>3 DEF Imported
      <3>5. msResult.acx = acx /\ msResult.characters = Characters(tale, map) /\ msResult.back = ConvertToSsml(acx)
        BY <3>4
      <3>6. msInput[1] = "script" /\ msInput[2] = tale /\ msInput[3] = map
        BY <3>1
      <3>7. /\ WordTokens(ConvertToSsml(acx)) = WordTokens(acx)
            /\ WordsThere(tale, acx) /\ CastListed(tale, map, acx)
        BY <3>2, <3>3, ScriptKept, Zenon
      <3>8. ImportKeepsWords
        BY <3>5, <3>6, <3>7, Zenon DEF ImportKeepsWords, NoChain, VoicesHeard, WordsThere, CastListed
      <3>9. ChaptersKeepText
        BY <3>6 DEF ChaptersKeepText
      <3>10. QED BY <3>8, <3>9
    <2>5. QED BY <2>1, <2>2, <2>3, <2>4 DEF ManuscriptInv
  <1>3. QED BY <1>1, <1>2, ManuscriptStep, PTL DEF ManuscriptSpec

=============================================================================
