--------------------------- MODULE Contents_proofs --------------------------
(* What the application keeps and hands out: presets, rules and tracks         *)
(* (VoiceLibrary), a production's casting (Production), the mastered book      *)
(* (Mastering), the catalog of voices (VoiceCatalog) and how a segment is      *)
(* directed and pronounced (Delivery).                                         *)
(*                                                                             *)
(* What a recursive definition computes is proved by induction.  The library's *)
(* induction theorems take a predicate; Least and Induction below say the same *)
(* of a set of numbers, from the well-foundedness of < on Nat.                 *)
EXTENDS VoiceLibrary, Production, Mastering, VoiceCatalog, Delivery, FiniteSetTheorems,
        SequenceTheorems, WellFoundedInduction, TLAPS

\* Every set of natural numbers that is not empty has a least element.
LEMMA Least ==
    ASSUME NEW T \in SUBSET Nat, T # {}
    PROVE  \E m \in T : \A n \in T : m <= n
  <1> DEFINE R == {p \in Nat \X Nat : p[1] < p[2]}
  <1>1. IsWellFoundedOn(R, Nat)
    BY NatLessThanWellFounded DEF OpToRel
  <1>2. \A m, n \in Nat : n < m => <<n, m>> \in R
    OBVIOUS
  <1> HIDE DEF R
  <1>3. PICK m \in T : \A n \in T : ~(<<n, m>> \in R)
    BY <1>1, WFMin
  <1>4. ASSUME NEW n \in T PROVE ~(n < m)
    <2>1. n \in Nat /\ m \in Nat /\ ~(<<n, m>> \in R)
      BY <1>3
    <2>2. QED BY <1>2, <2>1, Zenon
  <1>5. QED BY <1>4

\* Induction, for a set of numbers instead of a predicate.
LEMMA Induction ==
    ASSUME NEW S, 0 \in S, \A n \in Nat : n \in S => n + 1 \in S
    PROVE  Nat \subseteq S
  <1> SUFFICES ASSUME Nat \ S # {} PROVE FALSE
    OBVIOUS
  <1>1. PICK m \in Nat \ S : \A n \in Nat \ S : m <= n
    BY Least
  <1>2. m - 1 \in Nat /\ m - 1 \in S
    BY <1>1
  <1>3. QED BY <1>1, <1>2

-----------------------------------------------------------------------------
\* f strings the sequences of ss together.
Strung(f, ss) == f = [i \in 1..Len(ss) |-> IF i = 1 THEN ss[i] ELSE f[i - 1] \o ss[i]]

LEMMA StrungExists ==
    ASSUME NEW ss, Len(ss) \in Nat
    PROVE  \E f : Strung(f, ss)
  <1> DEFINE Good(n) == \E f : f = [i \in 1..n |-> IF i = 1 THEN ss[i] ELSE f[i - 1] \o ss[i]]
             S == {n \in Nat : Good(n)}
  <1>1. Good(0)
    <2>1. PICK f : f = [i \in 1..0 |-> 0]
      OBVIOUS
    <2>2. f = [i \in 1..0 |-> IF i = 1 THEN ss[i] ELSE f[i - 1] \o ss[i]]
      BY <2>1
    <2>3. QED BY <2>2
  <1>2. ASSUME NEW n \in Nat, Good(n) PROVE Good(n + 1)
    <2>1. PICK g : g = [i \in 1..n |-> IF i = 1 THEN ss[i] ELSE g[i - 1] \o ss[i]]
      BY <1>2
    <2>2. PICK f : f = [i \in 1..(n + 1) |-> IF i = n + 1
                           THEN IF i = 1 THEN ss[i] ELSE g[n] \o ss[n + 1] ELSE g[i]]
      OBVIOUS
    <2>3. \A i \in 1..(n + 1) : f[i] = IF i = 1 THEN ss[i] ELSE f[i - 1] \o ss[i]
      <3> SUFFICES ASSUME NEW i \in 1..(n + 1)
                   PROVE  f[i] = IF i = 1 THEN ss[i] ELSE f[i - 1] \o ss[i]
        OBVIOUS
      <3>1. CASE i = n + 1
        BY <2>2, <3>1
      <3>2. CASE i # n + 1
        <4>1. i \in 1..n /\ f[i] = g[i] /\ (i # 1 => f[i - 1] = g[i - 1])
          BY <2>2, <3>2
        <4>2. g[i] = IF i = 1 THEN ss[i] ELSE g[i - 1] \o ss[i]
          BY <2>1, <4>1
        <4>3. QED BY <4>1, <4>2
      <3>3. QED BY <3>1, <3>2
    <2>4. f = [i \in 1..(n + 1) |-> IF i = 1 THEN ss[i] ELSE f[i - 1] \o ss[i]]
      BY <2>2, <2>3
    <2>5. QED BY <2>4
  <1> HIDE DEF Good
  <1>3. 0 \in S /\ \A n \in Nat : n \in S => n + 1 \in S
    BY <1>1, <1>2
  <1>4. Nat \subseteq S
    BY <1>3, Induction
  <1>5. Good(Len(ss))
    BY <1>4
  <1>6. QED BY <1>5 DEF Good, Strung

LEMMA StrungIs ==
    ASSUME NEW ss, Len(ss) \in Nat, Len(ss) # 0
    PROVE  \E f : Strung(f, ss) /\ FlattenSeq(ss) = f[Len(ss)]
  <1>1. Strung(CHOOSE f : Strung(f, ss), ss)
    BY StrungExists
  <1>2. FlattenSeq(ss) = (CHOOSE f : Strung(f, ss))[Len(ss)]
    BY DEF FlattenSeq, Strung
  <1>3. QED BY <1>1, <1>2

LEMMA StrungNone ==
    ASSUME NEW ss, ss = <<>>
    PROVE  FlattenSeq(ss) = <<>>
  BY DEF FlattenSeq

\* One sequence more at the end of ss is strung on at the end.
LEMMA StrungFurther ==
    ASSUME NEW X, NEW ss \in Seq(Seq(X)), NEW ts \in Seq(Seq(X)), Len(ts) = Len(ss) + 1,
           \A i \in 1..Len(ss) : ts[i] = ss[i]
    PROVE  FlattenSeq(ts) = FlattenSeq(ss) \o ts[Len(ts)]
  <1>1. Len(ss) \in Nat /\ Len(ts) \in Nat /\ Len(ts) # 0 /\ ts[Len(ts)] \in Seq(X)
    OBVIOUS
  <1>2. PICK g : Strung(g, ts) /\ FlattenSeq(ts) = g[Len(ts)]
    BY <1>1, StrungIs
  <1>3. \A i \in 1..Len(ts) : g[i] = IF i = 1 THEN ts[i] ELSE g[i - 1] \o ts[i]
    BY <1>2 DEF Strung
  <1>4. CASE ss = <<>>
    <2>1. Len(ts) = 1 /\ FlattenSeq(ss) = <<>> /\ FlattenSeq(ts) = ts[1]
      BY <1>1, <1>2, <1>3, <1>4, StrungNone
    <2>2. QED BY <1>1, <2>1
  <1>5. CASE ss # <<>>
    <2>1. Len(ss) # 0
      BY <1>5
    <2>2. PICK f : Strung(f, ss) /\ FlattenSeq(ss) = f[Len(ss)]
      BY <1>1, <2>1, StrungIs
    <2>3. \A i \in 1..Len(ss) : f[i] = IF i = 1 THEN ss[i] ELSE f[i - 1] \o ss[i]
      BY <2>2 DEF Strung
    <2> DEFINE S == {n \in Nat : n \in 1..Len(ss) => g[n] = f[n]}
    <2>4. 0 \in S
      OBVIOUS
    <2>5. ASSUME NEW n \in Nat, n \in S PROVE n + 1 \in S
      <3> SUFFICES ASSUME n + 1 \in 1..Len(ss) PROVE g[n + 1] = f[n + 1]
        OBVIOUS
      <3>1. /\ g[n + 1] = IF n + 1 = 1 THEN ts[n + 1] ELSE g[(n + 1) - 1] \o ts[n + 1]
            /\ f[n + 1] = IF n + 1 = 1 THEN ss[n + 1] ELSE f[(n + 1) - 1] \o ss[n + 1]
            /\ ts[n + 1] = ss[n + 1] /\ (n + 1) - 1 = n
        BY <1>1, <1>3, <2>3
      <3>2. n # 0 => g[n] = f[n]
        BY <2>5
      <3>3. QED BY <3>1, <3>2
    <2> HIDE DEF S
    <2>6. Nat \subseteq S
      BY <2>4, <2>5, Induction
    <2>7. g[Len(ss)] = f[Len(ss)]
      BY <1>1, <2>1, <2>6 DEF S
    <2>8. g[Len(ts)] = g[Len(ss)] \o ts[Len(ts)]
      <3>1. PICK n : n = Len(ts)
        OBVIOUS
      <3>2. n \in 1..Len(ts) /\ n # 1 /\ n - 1 = Len(ss)
        BY <1>1, <2>1, <3>1
      <3>3. g[n] = g[n - 1] \o ts[n]
        BY <1>3, <3>2
      <3>4. QED BY <3>1, <3>2, <3>3
    <2>9. QED BY <1>2, <2>2, <2>7, <2>8
  <1>6. QED BY <1>4, <1>5

LEMMA StrungType ==
    ASSUME NEW X, NEW ss \in Seq(Seq(X))
    PROVE  FlattenSeq(ss) \in Seq(X)
  <1>1. Len(ss) \in Nat
    OBVIOUS
  <1>2. CASE ss = <<>>
    <2>1. FlattenSeq(ss) = <<>>
      BY <1>2, StrungNone
    <2>2. QED BY <2>1
  <1>3. CASE ss # <<>>
    <2>1. Len(ss) # 0
      BY <1>3
    <2>2. PICK f : Strung(f, ss) /\ FlattenSeq(ss) = f[Len(ss)]
      BY <1>1, <2>1, StrungIs
    <2>3. \A i \in 1..Len(ss) : f[i] = IF i = 1 THEN ss[i] ELSE f[i - 1] \o ss[i]
      BY <2>2 DEF Strung
    <2> DEFINE S == {n \in Nat : n \in 1..Len(ss) => f[n] \in Seq(X)}
    <2>4. 0 \in S
      OBVIOUS
    <2>5. ASSUME NEW n \in Nat, n \in S PROVE n + 1 \in S
      <3> SUFFICES ASSUME n + 1 \in 1..Len(ss) PROVE f[n + 1] \in Seq(X)
        OBVIOUS
      <3>1. /\ f[n + 1] = IF n + 1 = 1 THEN ss[n + 1] ELSE f[(n + 1) - 1] \o ss[n + 1]
            /\ ss[n + 1] \in Seq(X) /\ (n + 1) - 1 = n
        BY <1>1, <2>3
      <3>2. n # 0 => f[n] \in Seq(X)
        BY <2>5
      <3>3. CASE n = 0
        BY <3>1, <3>3
      <3>4. CASE n # 0
        BY <3>1, <3>2, <3>4
      <3>5. QED BY <3>3, <3>4
    <2> HIDE DEF S
    <2>6. Nat \subseteq S
      BY <2>4, <2>5, Induction
    <2>7. QED BY <1>1, <2>1, <2>2, <2>6 DEF S
  <1>4. QED BY <1>2, <1>3

-----------------------------------------------------------------------------
\* The frames of a list can be put in order, so the order StoredFrames picks
\* is one: the greatest goes last and what is before it is shorter.
Places(n) == [1..n -> 1..n]
Ordered(n, fs, p) == /\ \A i, k \in 1..n : p[i] = p[k] => i = k
                     /\ \A k \in 2..n : fs[p[k - 1]] <= fs[p[k]]

LEMMA GreatestFrame ==
    ASSUME NEW n \in Nat \ {0}, NEW fs \in [1..n -> 0..4]
    PROVE  \E m \in 1..n : \A k \in 1..n : fs[k] <= fs[m]
  <1>1. PICK T : T = {4 - fs[i] : i \in 1..n}
    OBVIOUS
  <1>2. \A i \in 1..n : fs[i] \in 0..4
    OBVIOUS
  <1>3. T \in SUBSET Nat
    BY <1>1, <1>2
  <1>4. 1 \in 1..n
    OBVIOUS
  <1>5. T # {}
    BY <1>1, <1>4
  <1>6. PICK t \in T : \A u \in T : t <= u
    BY <1>3, <1>5, Least
  <1>7. PICK m \in 1..n : t = 4 - fs[m]
    BY <1>1
  <1>8. ASSUME NEW k \in 1..n PROVE fs[k] <= fs[m]
    <2>1. 4 - fs[m] <= 4 - fs[k]
      BY <1>1, <1>6, <1>7
    <2>2. fs[k] \in 0..4 /\ fs[m] \in 0..4
      BY <1>2
    <2>3. QED BY <2>1, <2>2
  <1>9. QED BY <1>8

LEMMA OrderFurther ==
    ASSUME NEW n \in Nat, \A fs \in [1..n -> 0..4] : \E p \in Places(n) : Ordered(n, fs, p),
           NEW fs \in [1..(n + 1) -> 0..4]
    PROVE  \E p \in Places(n + 1) : Ordered(n + 1, fs, p)
  <1>1. PICK m \in 1..(n + 1) : \A k \in 1..(n + 1) : fs[k] <= fs[m]
    <2>1. PICK l : l = n + 1
      OBVIOUS
    <2>2. l \in Nat \ {0} /\ fs \in [1..l -> 0..4]
      BY <2>1
    <2>3. \E m \in 1..l : \A k \in 1..l : fs[k] <= fs[m]
      BY <2>2, GreatestFrame
    <2>4. QED BY <2>1, <2>3
  <1>2. PICK skip : skip = [i \in 1..n |-> IF i < m THEN i ELSE i + 1]
    OBVIOUS
  <1>3. /\ \A i \in 1..n : skip[i] \in 1..(n + 1) /\ skip[i] # m
        /\ \A i, k \in 1..n : skip[i] = skip[k] => i = k
    BY <1>2
  <1>4. PICK gs : gs = [i \in 1..n |-> fs[skip[i]]]
    OBVIOUS
  <1>5. gs \in [1..n -> 0..4]
    BY <1>3, <1>4
  <1>6. PICK q \in Places(n) : Ordered(n, gs, q)
    BY <1>5
  <1>7. \A i \in 1..n : q[i] \in 1..n
    BY DEF Places
  <1>8. PICK p : p = [i \in 1..(n + 1) |-> IF i = n + 1 THEN m ELSE skip[q[i]]]
    OBVIOUS
  <1>9. p[n + 1] = m /\ \A i \in 1..n : p[i] = skip[q[i]]
    BY <1>8
  <1>10. \A i \in 1..n : p[i] \in 1..(n + 1) /\ p[i] # m
    BY <1>3, <1>7, <1>9
  <1>11. p \in Places(n + 1)
    <2>1. \A i \in 1..(n + 1) : p[i] \in 1..(n + 1)
      BY <1>9, <1>10
    <2>2. p = [i \in 1..(n + 1) |-> p[i]]
      BY <1>8
    <2>3. QED BY <2>1, <2>2 DEF Places
  <1>12. ASSUME NEW i \in 1..(n + 1), NEW k \in 1..(n + 1), p[i] = p[k] PROVE i = k
    <2>1. CASE i = n + 1 \/ k = n + 1
      BY <1>9, <1>10, <1>12, <2>1
    <2>2. CASE i # n + 1 /\ k # n + 1
      <3>1. i \in 1..n /\ k \in 1..n
        BY <2>2
      <3>2. skip[q[i]] = skip[q[k]] /\ q[i] \in 1..n /\ q[k] \in 1..n
        BY <1>7, <1>9, <1>12, <3>1
      <3>3. q[i] = q[k]
        BY <1>3, <3>2
      <3>4. QED BY <1>6, <3>1, <3>3 DEF Ordered
    <2>3. QED BY <2>1, <2>2
  <1>13. ASSUME NEW k \in 2..(n + 1) PROVE fs[p[k - 1]] <= fs[p[k]]
    <2>1. CASE k = n + 1
      <3>1. k - 1 \in 1..n
        BY <2>1
      <3>2. p[k] = m /\ p[k - 1] \in 1..(n + 1)
        BY <1>9, <1>10, <2>1, <3>1
      <3>3. QED BY <1>1, <3>2
    <2>2. CASE k # n + 1
      <3>1. k \in 2..n /\ k \in 1..n /\ k - 1 \in 1..n
        BY <2>2
      <3>2. gs[q[k - 1]] <= gs[q[k]]
        BY <1>6, <3>1 DEF Ordered
      <3>3. gs[q[k]] = fs[p[k]] /\ gs[q[k - 1]] = fs[p[k - 1]]
        BY <1>4, <1>7, <1>9, <3>1
      <3>4. QED BY <3>2, <3>3
    <2>3. QED BY <2>1, <2>2
  <1>14. Ordered(n + 1, fs, p)
    BY <1>12, <1>13, Zenon DEF Ordered
  <1>15. QED BY <1>11, <1>14

LEMMA OrderExists ==
    ASSUME NEW n \in Nat, NEW fs \in [1..n -> 0..4]
    PROVE  \E p \in Places(n) : Ordered(n, fs, p)
  <1> DEFINE Good(k) == \A gs \in [1..k -> 0..4] : \E p \in Places(k) : Ordered(k, gs, p)
             S == {k \in Nat : Good(k)}
  <1>1. Good(0)
    <2> SUFFICES ASSUME NEW gs \in [1..0 -> 0..4] PROVE \E p \in Places(0) : Ordered(0, gs, p)
      OBVIOUS
    <2>1. gs \in Places(0)
      BY DEF Places
    <2>2. Ordered(0, gs, gs)
      BY DEF Ordered
    <2>3. QED BY <2>1, <2>2
  <1>2. ASSUME NEW k \in Nat, Good(k) PROVE Good(k + 1)
    BY <1>2, OrderFurther
  <1> HIDE DEF Good
  <1>3. 0 \in S /\ \A k \in Nat : k \in S => k + 1 \in S
    BY <1>1, <1>2
  <1>4. Nat \subseteq S
    BY <1>3, Induction
  <1>5. Good(n)
    BY <1>4
  <1>6. QED BY <1>5 DEF Good

LEMMA StoredInOrder ==
    ASSUME NEW frames \in FrameLists
    PROVE  InOrder(StoredFrames(frames))
  <1>1. PICK fs : fs = Clamped(frames)
    OBVIOUS
  <1>2. PICK n : n = Len(frames)
    OBVIOUS
  <1>3. frames \in Seq(Int)
    BY LibraryAssumption
  <1>4. n \in Nat /\ fs \in [1..n -> 0..4] /\ DOMAIN fs = 1..n
    <2>1. n \in Nat /\ DOMAIN frames = 1..n /\ \A i \in 1..n : frames[i] \in Int
      BY <1>2, <1>3
    <2>2. fs = [i \in 1..n |-> IF frames[i] < 0 THEN 0 ELSE IF frames[i] > 4 THEN 4 ELSE frames[i]]
      BY <1>1, <2>1 DEF Clamped
    <2>3. QED BY <2>1, <2>2
  <1>5. PICK p \in Places(n) : Ordered(n, fs, p)
    BY <1>4, OrderExists
  <1>6. p \in [DOMAIN fs -> DOMAIN fs]
    BY <1>4 DEF Places
  <1>7. ASSUME NEW q \in [1..n -> 1..n], NEW gs, gs = [i \in DOMAIN fs |-> fs[q[i]]]
        PROVE  InOrder(gs) <=> \A k \in 2..n : fs[q[k - 1]] <= fs[q[k]]
    <2>1. Len(gs) = n /\ \A k \in 2..n : gs[k] = fs[q[k]] /\ gs[k - 1] = fs[q[k - 1]]
      BY <1>4, <1>7
    <2>2. QED BY <2>1 DEF InOrder
  <1>8. Sorts(p, fs)
    <2>1. PICK gs : gs = [i \in DOMAIN fs |-> fs[p[i]]]
      OBVIOUS
    <2>2. InOrder(gs)
      BY <1>4, <1>5, <1>6, <1>7, <2>1 DEF Ordered
    <2>3. QED BY <1>4, <1>5, <2>1, <2>2 DEF Sorts, Ordered
  <1>9. PICK q : q = CHOOSE r \in [DOMAIN fs -> DOMAIN fs] : Sorts(r, fs)
    OBVIOUS
  <1>10. Sorts(q, fs)
    BY <1>6, <1>8, <1>9, Zenon
  <1>11. StoredFrames(frames) = [i \in DOMAIN fs |-> fs[q[i]]]
    BY <1>1, <1>9 DEF StoredFrames
  <1>12. QED BY <1>10, <1>11 DEF Sorts

\* What an organization keeps beside its voices: each row's references were
\* checked against its own organization when they were written.
LibRow == [org : Tenants, kind : Kinds, voice : LibVoices \union {NoRef},
           project : LibProjects \union {NoRef},
           frames : {StoredFrames(fs) : fs \in FrameLists} \union {<<>>},
           enabled : BOOLEAN, alive : BOOLEAN]
RefOK(row) == /\ row.voice # NoRef => OwnerOf[row.voice] = row.org
              /\ row.project # NoRef => OwnerOf[row.project] = row.org
LibraryInv == libRows \in Seq(LibRow) /\ \A i \in DOMAIN libRows : RefOK(libRows[i])

LEMMA RowAdded ==
    ASSUME LibraryInv, NEW row \in LibRow, RefOK(row), AddRow(row)
    PROVE  LibraryInv'
  <1>1. libRows' = Append(libRows, row) /\ libRows \in Seq(LibRow)
    BY DEF AddRow, LibraryInv
  <1>2. /\ libRows' \in Seq(LibRow)
        /\ \A i \in DOMAIN libRows' : (i \in DOMAIN libRows /\ libRows'[i] = libRows[i]) \/ libRows'[i] = row
    BY <1>1
  <1>3. QED BY <1>2 DEF LibraryInv, RefOK

LEMMA RowChanged ==
    ASSUME LibraryInv, NEW i \in DOMAIN libRows, NEW row \in LibRow, RefOK(row),
           libRows' = [libRows EXCEPT ![i] = row]
    PROVE  LibraryInv'
  <1>1. libRows \in Seq(LibRow)
    BY DEF LibraryInv
  <1>2. /\ libRows' \in Seq(LibRow)
        /\ \A j \in DOMAIN libRows' : (j \in DOMAIN libRows /\ libRows'[j] = libRows[j]) \/ libRows'[j] = row
    BY <1>1
  <1>3. QED BY <1>2 DEF LibraryInv, RefOK

LEMMA RowAt ==
    ASSUME LibraryInv, NEW i \in DOMAIN libRows
    PROVE  /\ libRows[i] \in LibRow /\ RefOK(libRows[i])
           /\ libRows[i].org \in Tenants /\ libRows[i].frames \in {StoredFrames(fs) : fs \in FrameLists} \union {<<>>}
           /\ libRows[i].project \in LibProjects \union {NoRef}
  <1>1. libRows[i] \in LibRow
    BY DEF LibraryInv
  <1>2. QED BY <1>1 DEF LibraryInv, LibRow

LEMMA FreshRow ==
    ASSUME NEW o \in Tenants, NEW kind \in Kinds
    PROVE  /\ NewRow(o, kind) \in LibRow /\ NewRow(o, kind).org = o
           /\ NewRow(o, kind).voice = NoRef /\ NewRow(o, kind).project = NoRef
  BY DEF NewRow, LibRow

LEMMA CreateInv ==
    ASSUME LibraryInv, NEW o \in Tenants, NEW v \in LibVoices \union {NoRef},
           CreatePreset(o, v) \/ CreateRule(o, v)
    PROVE  LibraryInv'
  <1>1. PICK kind \in Kinds : AddRow([NewRow(o, kind) EXCEPT !.voice = v])
    BY DEF CreatePreset, CreateRule, Kinds
  <1>2. PICK row : row = [NewRow(o, kind) EXCEPT !.voice = v]
    OBVIOUS
  <1>3. row \in LibRow /\ row.org = o /\ row.voice = v /\ row.project = NoRef
    BY <1>2, FreshRow DEF LibRow
  <1>4. RefOK(row)
    BY <1>3 DEF CreatePreset, CreateRule, VoiceRef, Visible, RefOK
  <1>5. AddRow(row)
    BY <1>1, <1>2
  <1>6. QED BY <1>3, <1>4, <1>5, RowAdded

LEMMA CreateTrackInv ==
    ASSUME LibraryInv, NEW o \in Tenants, NEW v \in LibVoices, NEW p \in LibProjects \union {NoRef},
           NEW fs \in FrameLists, CreateTrack(o, v, p, fs)
    PROVE  LibraryInv'
  <1>1. PICK f \in {StoredFrames(g) : g \in FrameLists} : f = StoredFrames(fs)
    OBVIOUS
  <1>2. PICK a : a = [NewRow(o, "track") EXCEPT !.voice = v]
    OBVIOUS
  <1>3. a \in LibRow /\ a.org = o /\ a.voice = v
    BY <1>2, FreshRow DEF LibRow, Kinds
  <1>4. PICK row : row = [a EXCEPT !.project = p, !.frames = f]
    OBVIOUS
  <1>5. row \in LibRow /\ row.org = o /\ row.voice = v /\ row.project = p
    BY <1>1, <1>3, <1>4 DEF LibRow
  <1>6. RefOK(row)
    BY <1>5 DEF CreateTrack, ProjectRef, Visible, RefOK
  <1>7. AddRow(row)
    BY <1>1, <1>2, <1>4 DEF CreateTrack
  <1>8. QED BY <1>5, <1>6, <1>7, RowAdded

LEMMA UpdateInv ==
    ASSUME LibraryInv, NEW o \in Tenants, NEW i \in DOMAIN libRows,
           \/ \E b \in BOOLEAN : UpdateRule(o, i, b)
           \/ \E kind \in Kinds : DeleteRow(o, i, kind)
           \/ \E p \in LibProjects \union {NoRef}, fs \in FrameLists,
                fields \in SUBSET {"project", "frames"} : UpdateTrack(o, i, p, fs, fields)
    PROVE  LibraryInv'
  <1>1. PICK old : old = libRows[i]
    OBVIOUS
  <1>2. /\ old \in LibRow /\ RefOK(old) /\ old.project \in LibProjects \union {NoRef}
        /\ old.frames \in {StoredFrames(fs) : fs \in FrameLists} \union {<<>>}
    BY <1>1, RowAt
  <1>3. ASSUME NEW b \in BOOLEAN, UpdateRule(o, i, b) PROVE LibraryInv'
    <2>1. PICK row : row = [old EXCEPT !.enabled = b]
      OBVIOUS
    <2>2. row \in LibRow /\ RefOK(row)
      BY <1>2, <2>1 DEF LibRow, RefOK
    <2>3. libRows' = [libRows EXCEPT ![i] = row]
      BY <1>1, <1>3, <2>1 DEF UpdateRule
    <2>4. QED BY <2>2, <2>3, RowChanged
  <1>4. ASSUME NEW kind \in Kinds, DeleteRow(o, i, kind) PROVE LibraryInv'
    <2>1. PICK row : row = [old EXCEPT !.alive = FALSE]
      OBVIOUS
    <2>2. row \in LibRow /\ RefOK(row)
      BY <1>2, <2>1 DEF LibRow, RefOK
    <2>3. libRows' = [libRows EXCEPT ![i] = row]
      BY <1>1, <1>4, <2>1 DEF DeleteRow
    <2>4. QED BY <2>2, <2>3, RowChanged
  <1>5. ASSUME NEW p \in LibProjects \union {NoRef}, NEW fs \in FrameLists,
               NEW fields \in SUBSET {"project", "frames"}, UpdateTrack(o, i, p, fs, fields)
        PROVE  LibraryInv'
    <2>1. PICK q \in LibProjects \union {NoRef} : q = IF "project" \in fields THEN p ELSE old.project
      BY <1>2
    <2>2. PICK f \in {StoredFrames(g) : g \in FrameLists} \union {<<>>} :
             f = IF "frames" \in fields THEN StoredFrames(fs) ELSE old.frames
      BY <1>2
    <2>3. PICK row : row = [old EXCEPT !.project = q, !.frames = f]
      OBVIOUS
    <2>4. row \in LibRow /\ row.org = old.org /\ row.voice = old.voice /\ row.project = q
      BY <1>2, <2>1, <2>2, <2>3 DEF LibRow
    <2>5. old.org = o /\ ("project" \in fields => ProjectRef(o, p))
      <3>1. Owned(o, i, "track") /\ ("project" \in fields => ProjectRef(o, p))
        BY <1>5, Zenon DEF UpdateTrack
      <3>2. QED BY <1>1, <3>1 DEF Owned
    <2>6. RefOK(row)
      <3>1. CASE "project" \in fields
        <4>1. ProjectRef(o, q)
          BY <2>1, <2>5, <3>1
        <4>2. QED BY <1>2, <2>4, <2>5, <4>1 DEF ProjectRef, RefOK
      <3>2. CASE "project" \notin fields
        <4>1. q = old.project
          BY <2>1, <3>2
        <4>2. QED BY <1>2, <2>4, <4>1 DEF RefOK
      <3>3. QED BY <3>1, <3>2
    <2>7. libRows' = [libRows EXCEPT ![i].project = q, ![i].frames = f]
      BY <1>1, <1>5, <2>1, <2>2, Zenon DEF UpdateTrack
    <2>8. libRows' = [libRows EXCEPT ![i] = row]
      BY <1>1, <2>3, <2>7
    <2>9. QED BY <2>4, <2>6, <2>8, RowChanged
  <1>6. QED BY <1>3, <1>4, <1>5

\* No sequence of creations and updates of any organizations makes a row refer
\* to another organization's voice or project (_get_voice,
\* _validate_project_scope), and whatever frames a client sends, a track keeps
\* them in order (_validate_keyframes).
THEOREM LibraryIsOwned == LibrarySpec => []LibraryOwnsItsRefs
  <1>1. LibraryInit => LibraryInv
    BY DEF LibraryInit, LibraryInv
  <1>2. LibraryInv /\ [LibraryNext]_libraryVars => LibraryInv'
    <2> SUFFICES ASSUME LibraryInv, [LibraryNext]_libraryVars PROVE LibraryInv'
      OBVIOUS
    <2>1. ASSUME NEW o \in Tenants, NEW v \in LibVoices \union {NoRef}, CreatePreset(o, v) \/ CreateRule(o, v)
          PROVE  LibraryInv'
      BY <2>1, CreateInv
    <2>2. ASSUME NEW o \in Tenants, NEW v \in LibVoices, NEW p \in LibProjects \union {NoRef},
                 NEW fs \in FrameLists, CreateTrack(o, v, p, fs)
          PROVE  LibraryInv'
      BY <2>2, CreateTrackInv
    <2>3. ASSUME NEW o \in Tenants, NEW i \in DOMAIN libRows,
                 \/ \E b \in BOOLEAN : UpdateRule(o, i, b)
                 \/ \E kind \in Kinds : DeleteRow(o, i, kind)
                 \/ \E p \in LibProjects \union {NoRef}, fs \in FrameLists,
                      fields \in SUBSET {"project", "frames"} : UpdateTrack(o, i, p, fs, fields)
          PROVE  LibraryInv'
      BY <2>3, UpdateInv
    <2>4. CASE UNCHANGED libRows
      BY <2>4 DEF LibraryInv, RefOK
    <2>5. (\E v \in LibVoices : DropVoice(v)) \/ UNCHANGED libraryVars => UNCHANGED libRows
      BY DEF DropVoice, libraryVars
    <2>6. QED BY <2>1, <2>2, <2>3, <2>4, <2>5 DEF LibraryNext
  <1>3. LibraryInv => LibraryOwnsItsRefs
    <2> SUFFICES ASSUME LibraryInv PROVE RefsOwned /\ FramesInOrder
      BY DEF LibraryOwnsItsRefs
    <2>1. RefsOwned
      BY DEF LibraryInv, RefOK, RefsOwned
    <2>2. ASSUME NEW i \in DOMAIN libRows PROVE InOrder(libRows[i].frames)
      <3>1. libRows[i].frames \in {StoredFrames(fs) : fs \in FrameLists} \union {<<>>}
        BY RowAt
      <3>2. InOrder(<<>>)
        BY DEF InOrder
      <3>3. QED BY <3>1, <3>2, StoredInOrder
    <2>3. QED BY <2>1, <2>2 DEF FramesInOrder, InOrder
  <1>4. QED BY <1>1, <1>2, <1>3, PTL DEF LibrarySpec

-----------------------------------------------------------------------------
\* Productions.  A capture reads one voice after another while owners go on
\* revoking; whatever it has loaded was not revoked before it began.
PlanCast == [name : Names, aliases : SUBSET Names, voice : Actors]
CastEntry == [name : Names, aliases : SUBSET Names, voice : Actors, rules : Nat]
PlanOrNone == Plans \union {"none"}
CaptureRec == [pc : {"idle", "rules", "cast", "accepted", "refused"}, began : Nat,
               plan : PlanOrNone, rules : Nat, cast : Seq(CastEntry)]
SnapshotRec == [bound : BOOLEAN, began : Nat, rules : Nat, plan : PlanOrNone, cast : Seq(CastEntry)]
\* v was not revoked when the n-th edit had been made.
ClearAt(v, n) == studio[v].revokedAt > 0 => studio[v].revokedAt > n
BoundClear(cast, n) == n <= edits /\ ClearAt("narrator", n) /\ \A i \in DOMAIN cast : ClearAt(cast[i].voice, n)
CaptureInv == /\ studio \in [Actors -> [rules : Nat, revokedAt : Nat]] /\ edits \in Nat
              /\ capture \in CaptureRec /\ snapshot \in SnapshotRec
              /\ capture.pc \in {"rules", "cast"} =>
                   capture.plan \in Plans /\ BoundClear(capture.cast, capture.began)
              /\ snapshot.bound => BoundClear(snapshot.cast, snapshot.began)

LEMMA CaptureFields ==
    ASSUME NEW c \in CaptureRec
    PROVE  /\ c.began \in Nat /\ c.plan \in PlanOrNone /\ c.rules \in Nat /\ c.cast \in Seq(CastEntry)
           /\ c.pc \in {"idle", "rules", "cast", "accepted", "refused"}
  BY DEF CaptureRec

LEMMA NoCaptureFields ==
    NoCapture \in CaptureRec /\ NoCapture.pc = "idle" /\ NoCapture.cast = <<>>
  <1>1. <<>> \in Seq(CastEntry) /\ "none" \in PlanOrNone
    BY DEF PlanOrNone
  <1>2. QED BY <1>1 DEF CaptureRec, NoCapture

LEMMA CastOfPlan ==
    ASSUME NEW p \in Plans, NEW i \in 1..Len(p.cast)
    PROVE  p.cast[i] \in PlanCast
  <1>1. p.cast \in Seq(PlanCast)
    BY ProductionAssumption DEF PlanCast
  <1>2. QED BY <1>1

\* A refusal, or the end of a capture.
LEMMA CaptureEnds ==
    ASSUME CaptureInv, NEW q \in {"accepted", "refused"}, capture' = [NoCapture EXCEPT !.pc = q],
           UNCHANGED <<studio, edits, snapshot>>
    PROVE  CaptureInv'
  <1>1. PICK c : c = [NoCapture EXCEPT !.pc = q]
    OBVIOUS
  <1>2. c \in CaptureRec /\ c.pc = q
    BY <1>1, NoCaptureFields DEF CaptureRec
  <1>3. capture' = c
    BY <1>1
  <1>4. QED BY <1>2, <1>3 DEF CaptureInv, BoundClear, ClearAt

LEMMA SubmitRenderInv ==
    ASSUME CaptureInv, NEW p \in Plans, SubmitRender(p)
    PROVE  CaptureInv'
  <1>1. CASE Revoked("narrator")
    BY <1>1, CaptureEnds DEF SubmitRender, Refuse
  <1>2. CASE ~Revoked("narrator")
    <2>1. PICK c : c = [NoCapture EXCEPT !.pc = "rules", !.began = edits, !.plan = p]
      OBVIOUS
    <2>2. capture' = c /\ UNCHANGED <<studio, edits, snapshot>>
      BY <1>2, <2>1 DEF SubmitRender
    <2>3. edits \in Nat /\ p \in PlanOrNone
      BY DEF CaptureInv, PlanOrNone
    <2>4. c.pc = "rules" /\ c.began = edits /\ c.plan = p /\ c.cast = <<>> /\ c \in CaptureRec
      <3>1. NoCapture \in CaptureRec /\ NoCapture.cast = <<>>
        BY NoCaptureFields
      <3>2. QED BY <2>1, <2>3, <3>1 DEF CaptureRec
    <2>5. BoundClear(c.cast, c.began)
      BY <1>2, <2>3, <2>4 DEF BoundClear, ClearAt, Revoked
    <2>6. QED BY <2>2, <2>4, <2>5 DEF CaptureInv, BoundClear, ClearAt
  <1>3. QED BY <1>1, <1>2

LEMMA CaptureNarratorInv ==
    ASSUME CaptureInv, CaptureNarrator
    PROVE  CaptureInv'
  <1>1. CASE ~PlanValid(capture.plan)
    BY <1>1, CaptureEnds DEF CaptureNarrator, Refuse
  <1>2. CASE PlanValid(capture.plan)
    <2>1. PICK c : c = [capture EXCEPT !.pc = "cast", !.rules = studio["narrator"].rules]
      OBVIOUS
    <2>2. capture' = c /\ UNCHANGED <<studio, edits, snapshot>> /\ capture.pc = "rules"
      BY <1>2, <2>1 DEF CaptureNarrator
    <2>3. studio["narrator"].rules \in Nat /\ capture \in CaptureRec
      BY ProductionAssumption DEF CaptureInv
    <2>4. c \in CaptureRec /\ c.plan = capture.plan /\ c.cast = capture.cast /\ c.began = capture.began
      BY <2>1, <2>3 DEF CaptureRec
    <2>5. QED BY <2>2, <2>4 DEF CaptureInv, BoundClear, ClearAt
  <1>3. QED BY <1>1, <1>2

LEMMA CaptureCastInv ==
    ASSUME CaptureInv, CaptureCast
    PROVE  CaptureInv'
  <1>1. PICK i : i = Len(capture.cast) + 1
    OBVIOUS
  <1>2. PICK from : from = capture.plan.cast[i]
    OBVIOUS
  <1>3. /\ capture.pc = "cast" /\ i <= Len(capture.plan.cast) /\ UNCHANGED <<studio, edits, snapshot>>
        /\ IF ~Loadable(from.voice) THEN Refuse
           ELSE capture' = [capture EXCEPT !.cast = Append(@,
                   [name |-> from.name, aliases |-> from.aliases, voice |-> from.voice,
                    rules |-> studio[from.voice].rules])]
    BY <1>1, <1>2 DEF CaptureCast
  <1>4. /\ capture \in CaptureRec /\ capture.plan \in Plans /\ BoundClear(capture.cast, capture.began)
        /\ capture.cast \in Seq(CastEntry) /\ capture.began \in Nat
    BY <1>3, CaptureFields DEF CaptureInv
  <1>5. from \in PlanCast
    BY <1>1, <1>2, <1>3, <1>4, CastOfPlan, ProductionAssumption
  <1>6. CASE ~Loadable(from.voice)
    BY <1>3, <1>6, CaptureEnds DEF Refuse
  <1>7. CASE Loadable(from.voice)
    <2>1. PICK e : e = [name |-> from.name, aliases |-> from.aliases, voice |-> from.voice,
                        rules |-> studio[from.voice].rules]
      OBVIOUS
    <2>2. e \in CastEntry /\ e.voice = from.voice /\ from.voice \in Actors
      BY <1>5, <2>1 DEF CaptureInv, PlanCast, CastEntry
    <2>3. PICK cast : cast = Append(capture.cast, e)
      OBVIOUS
    <2>4. PICK c : c = [capture EXCEPT !.cast = cast]
      OBVIOUS
    <2>5. capture' = c
      BY <1>3, <1>7, <2>1, <2>3, <2>4
    <2>6. /\ cast \in Seq(CastEntry)
          /\ \A k \in DOMAIN cast :
               (k \in DOMAIN capture.cast /\ cast[k] = capture.cast[k]) \/ cast[k] = e
      BY <1>4, <2>2, <2>3
    <2>7. /\ c \in CaptureRec /\ c.pc = "cast" /\ c.plan = capture.plan /\ c.began = capture.began
          /\ c.cast = cast
      BY <1>3, <1>4, <2>4, <2>6 DEF CaptureRec
    <2>8. ClearAt(e.voice, c.began)
      BY <1>7, <2>2 DEF ClearAt, Loadable, Revoked
    <2>9. BoundClear(c.cast, c.began)
      BY <1>4, <2>6, <2>7, <2>8 DEF BoundClear
    <2>10. QED BY <1>3, <1>4, <2>5, <2>7, <2>9 DEF CaptureInv, BoundClear, ClearAt
  <1>8. QED BY <1>6, <1>7

LEMMA AttachInv ==
    ASSUME CaptureInv, Attach
    PROVE  CaptureInv'
  <1>1. PICK s : s = [bound |-> TRUE, began |-> capture.began, rules |-> capture.rules,
                      plan |-> capture.plan, cast |-> capture.cast]
    OBVIOUS
  <1>2. PICK c : c = [NoCapture EXCEPT !.pc = "accepted"]
    OBVIOUS
  <1>3. capture.pc = "cast" /\ snapshot' = s /\ capture' = c /\ UNCHANGED <<studio, edits>>
    BY <1>1, <1>2 DEF Attach
  <1>4. s \in SnapshotRec /\ s.cast = capture.cast /\ s.began = capture.began
    BY <1>1, CaptureFields DEF CaptureInv, SnapshotRec
  <1>5. c \in CaptureRec /\ c.pc = "accepted"
    BY <1>2, NoCaptureFields DEF CaptureRec
  <1>6. QED BY <1>3, <1>4, <1>5 DEF CaptureInv, BoundClear, ClearAt

\* A revocation is one edit later than everything that has begun.
LEMMA EditInv ==
    ASSUME CaptureInv, NEW v \in Actors, Edit(v)
    PROVE  CaptureInv'
  <1>1. /\ edits' = edits + 1 /\ edits \in Nat /\ UNCHANGED <<capture, snapshot>>
        /\ studio \in [Actors -> [rules : Nat, revokedAt : Nat]]
        /\ capture \in CaptureRec /\ snapshot \in SnapshotRec
    BY DEF Edit, CaptureInv
  <1>2. studio' \in [Actors -> [rules : Nat, revokedAt : Nat]]
    BY <1>1 DEF Edit
  <1>3. \A u \in Actors : studio'[u].revokedAt = studio[u].revokedAt \/ studio'[u].revokedAt = edits + 1
    BY <1>1 DEF Edit
  <1>4. ASSUME NEW u \in Actors, NEW n \in Nat, n <= edits, ClearAt(u, n) PROVE ClearAt(u, n)'
    BY <1>1, <1>3, <1>4 DEF ClearAt
  <1>5. ASSUME NEW cast \in Seq(CastEntry), NEW n \in Nat, BoundClear(cast, n) PROVE BoundClear(cast, n)'
    <2>1. \A i \in DOMAIN cast : cast[i].voice \in Actors
      <3>1. \A i \in DOMAIN cast : cast[i] \in CastEntry
        OBVIOUS
      <3>2. QED BY <3>1 DEF CastEntry
    <2>2. ClearAt("narrator", n)' /\ \A i \in DOMAIN cast : ClearAt(cast[i].voice, n)'
      <3>1. ClearAt("narrator", n)'
        BY <1>4, <1>5, ProductionAssumption DEF BoundClear
      <3>2. ASSUME NEW i \in DOMAIN cast PROVE ClearAt(cast[i].voice, n)'
        <4>1. PICK u : u = cast[i].voice
          OBVIOUS
        <4>2. u \in Actors /\ ClearAt(u, n) /\ n <= edits
          BY <1>5, <2>1, <4>1 DEF BoundClear
        <4>3. ClearAt(u, n)'
          BY <1>4, <4>2
        <4>4. QED BY <4>1, <4>3
      <3>3. QED BY <3>1, <3>2
    <2>3. QED BY <1>1, <1>5, <2>2 DEF BoundClear
  <1>6. capture.pc \in {"rules", "cast"} => BoundClear(capture.cast, capture.began)'
    <2>1. PICK cast, n : cast = capture.cast /\ n = capture.began
      OBVIOUS
    <2>2. cast \in Seq(CastEntry) /\ n \in Nat
      BY <1>1, <2>1, CaptureFields
    <2>3. capture.pc \in {"rules", "cast"} => BoundClear(cast, n)'
      BY <1>5, <2>1, <2>2 DEF CaptureInv
    <2>4. cast = capture'.cast /\ n = capture'.began
      BY <1>1, <2>1
    <2>5. QED BY <2>3, <2>4 DEF BoundClear, ClearAt
  <1>7. snapshot.bound => BoundClear(snapshot.cast, snapshot.began)'
    <2>1. PICK cast, n : cast = snapshot.cast /\ n = snapshot.began
      OBVIOUS
    <2>2. cast \in Seq(CastEntry) /\ n \in Nat
      BY <1>1, <2>1 DEF SnapshotRec
    <2>3. snapshot.bound => BoundClear(cast, n)'
      BY <1>5, <2>1, <2>2 DEF CaptureInv
    <2>4. cast = snapshot'.cast /\ n = snapshot'.began
      BY <1>1, <2>1
    <2>5. QED BY <2>3, <2>4 DEF BoundClear, ClearAt
  <1>8. QED BY <1>1, <1>2, <1>6, <1>7 DEF CaptureInv

LEMMA CaptureQuiet ==
    ASSUME CaptureInv, UNCHANGED <<studio, edits, capture, snapshot>>
    PROVE  CaptureInv'
  BY DEF CaptureInv, BoundClear, ClearAt

LEMMA ProductionInitInv ==
    ASSUME ProductionInit
    PROVE  CaptureInv
  <1>1. /\ studio = [v \in Actors |-> [rules |-> 0, revokedAt |-> 0]]
        /\ edits = 0 /\ capture = NoCapture /\ snapshot = NoSnapshot
    BY DEF ProductionInit
  <1>2. <<>> \in Seq(CastEntry) /\ "none" \in PlanOrNone
    BY DEF PlanOrNone
  <1>3. snapshot \in SnapshotRec /\ snapshot.bound = FALSE
    BY <1>1, <1>2 DEF NoSnapshot, SnapshotRec
  <1>4. QED BY <1>1, <1>3, NoCaptureFields DEF CaptureInv

\* A capture and its snapshot hold no voice revoked before the submission.
THEOREM CaptureInvariant == ProductionSpec => []CaptureInv
  <1>1. ProductionInit => CaptureInv
    BY ProductionInitInv
  <1>2. CaptureInv /\ [ProductionNext]_productionVars => CaptureInv'
    <2> SUFFICES ASSUME CaptureInv, [ProductionNext]_productionVars PROVE CaptureInv'
      OBVIOUS
    <2>1. ASSUME NEW v \in Actors, Edit(v) PROVE CaptureInv'
      BY <2>1, EditInv
    <2>2. ASSUME NEW p \in Plans, SubmitRender(p) PROVE CaptureInv'
      BY <2>2, SubmitRenderInv
    <2>3. CASE CaptureNarrator \/ CaptureCast \/ Attach
      BY <2>3, CaptureNarratorInv, CaptureCastInv, AttachInv
    <2>4. CASE \/ \E t \in Manuscripts : PrepareStart(t)
               \/ PrepareSegment \/ RenderEnds \/ RenderAgain
      <3>1. UNCHANGED <<studio, edits, capture, snapshot>>
        BY <2>4 DEF PrepareStart, PrepareSegment, RenderEnds, RenderAgain
      <3>2. QED BY <3>1, CaptureQuiet
    <2>5. CASE UNCHANGED productionVars
      BY <2>5, CaptureQuiet DEF productionVars
    <2>6. QED BY <2>1, <2>2, <2>3, <2>4, <2>5 DEF ProductionNext
  <1>3. QED BY <1>1, <1>2, PTL DEF ProductionSpec

\* A revocation counts from the moment it commits: whatever its owners edit
\* while a submission is captured, the job's snapshot binds no voice that was
\* revoked before the submission arrived (attach_voice_snapshot).
THEOREM RevokedIsNotCaptured == ProductionSpec => []RevokedNotCaptured
  <1>1. CaptureInv => RevokedNotCaptured
    <2> SUFFICES ASSUME CaptureInv, snapshot.bound,
                        NEW v \in {"narrator"} \cup {c.voice : c \in Range(snapshot.cast)}, Revoked(v)
                 PROVE  studio[v].revokedAt > snapshot.began
      BY DEF RevokedNotCaptured
    <2>1. ClearAt(v, snapshot.began)
      BY DEF CaptureInv, BoundClear, Range
    <2>2. QED BY <2>1 DEF ClearAt, Revoked
  <1>2. QED BY <1>1, CaptureInvariant, PTL

-----------------------------------------------------------------------------
\* The cast of a capture follows the plan, entry by entry, and a job's snapshot
\* is bound for good.
Mirrors(cast, planned) ==
    \A i \in DOMAIN cast : /\ i \in DOMAIN planned /\ cast[i].name = planned[i].name
                           /\ cast[i].aliases = planned[i].aliases /\ cast[i].voice = planned[i].voice
CastInv == /\ capture.pc = "rules" => capture.cast = <<>>
           /\ capture.pc = "cast" => Mirrors(capture.cast, capture.plan.cast)
           /\ snapshot.bound => /\ capture.pc = "accepted" /\ snapshot.plan \in Plans
                                /\ Mirrors(snapshot.cast, snapshot.plan.cast)
                                /\ Len(snapshot.cast) = Len(snapshot.plan.cast)

\* A chapter being prepared: the segments passed so far are spoken, each by a
\* voice of its own plan.
SegRec == [of : Nat \X Nat, scene : Nat, kind : {"narration", "dialogue"}, speaker : Names \union {"?"}]
OutRec == [of : Seq(Nat \X Nat), kind : {"narration", "dialogue"}, speaker : Names \union {"?"},
           voice : Actors, rules : Nat, style : BOOLEAN]
RenderRec == [pc : {"idle", "prepare", "done"}, text : Manuscripts \union {<<>>}, todo : Seq(SegRec),
              next : Nat, out : Seq(OutRec)]
Distinct(q) == \A i, k \in DOMAIN q : q[i].of = q[k].of => q[i] = q[k]
CastVoice(o, seg) ==
    IF seg.kind = "narration" \/ Uncast(seg) THEN o.voice = "narrator"
    ELSE \E c \in Range(snapshot.plan.cast) :
            o.voice = c.voice /\ (seg.speaker = c.name \/ seg.speaker \in c.aliases)
SpeaksFor(o, seg) == /\ o.kind = seg.kind /\ o.speaker = seg.speaker
                  /\ o.style = (seg.scene \in snapshot.plan.scenes) /\ CastVoice(o, seg)
\* Every piece a segment was joined from is one it speaks rightly.
Rightly(o, todo) == \A x \in Range(o.of) : \E i \in DOMAIN todo : todo[i].of = x /\ SpeaksFor(o, todo[i])
LeftOut(seg) == seg.kind = "dialogue" /\ Uncast(seg) /\ snapshot.plan.skip
Told(todo, n) == FlattenSeq([i \in 1..n |-> IF LeftOut(todo[i]) THEN <<>> ELSE <<todo[i].of>>])
Strings(out) == FlattenSeq([i \in DOMAIN out |-> out[i].of])
RenderInv == /\ render \in RenderRec
             /\ render.pc # "idle" =>
                  /\ snapshot.bound /\ Distinct(render.todo) /\ render.next \in 1..(Len(render.todo) + 1)
                  /\ Strings(render.out) = Told(render.todo, render.next - 1)
                  /\ \A i \in DOMAIN render.out : Rightly(render.out[i], render.todo)
             /\ render.pc = "done" => render.next = Len(render.todo) + 1

LEMMA BoundRec ==
    ASSUME CaptureInv
    PROVE  /\ snapshot \in SnapshotRec /\ snapshot.rules \in Nat /\ snapshot.cast \in Seq(CastEntry)
           /\ capture \in CaptureRec /\ capture.cast \in Seq(CastEntry)
  BY CaptureFields DEF CaptureInv, SnapshotRec

LEMMA CastInvCaptures ==
    ASSUME CaptureInv, CastInv, CaptureCast
    PROVE  CastInv'
  <1>1. PICK n : n = Len(capture.cast)
    OBVIOUS
  <1>2. PICK planned : planned = capture.plan.cast
    OBVIOUS
  <1>3. /\ capture.pc = "cast" /\ n + 1 <= Len(planned) /\ UNCHANGED <<studio, edits, snapshot, render>>
        /\ IF ~Loadable(planned[n + 1].voice) THEN Refuse
           ELSE capture' = [capture EXCEPT !.cast = Append(@,
                   [name |-> planned[n + 1].name, aliases |-> planned[n + 1].aliases,
                    voice |-> planned[n + 1].voice, rules |-> studio[planned[n + 1].voice].rules])]
    BY <1>1, <1>2 DEF CaptureCast
  <1>4. ~snapshot.bound /\ Mirrors(capture.cast, planned)
    BY <1>2, <1>3 DEF CastInv
  <1>5. CASE ~Loadable(planned[n + 1].voice)
    <2>1. capture' = [NoCapture EXCEPT !.pc = "refused"]
      BY <1>3, <1>5 DEF Refuse
    <2>2. capture'.pc = "refused"
      BY <2>1 DEF NoCapture
    <2>3. QED BY <1>3, <1>4, <2>2 DEF CastInv
  <1>6. CASE Loadable(planned[n + 1].voice)
    <2>1. PICK e : e = [name |-> planned[n + 1].name, aliases |-> planned[n + 1].aliases,
                        voice |-> planned[n + 1].voice, rules |-> studio[planned[n + 1].voice].rules]
      OBVIOUS
    <2>2. e.name = planned[n + 1].name /\ e.aliases = planned[n + 1].aliases /\ e.voice = planned[n + 1].voice
      BY <2>1
    <2>3. PICK cast : cast = Append(capture.cast, e)
      OBVIOUS
    <2>4. capture' = [capture EXCEPT !.cast = cast]
      BY <1>3, <1>6, <2>1, <2>3
    <2>5. capture \in CaptureRec
      BY BoundRec
    <2>6. capture'.pc = "cast" /\ capture'.cast = cast /\ capture'.plan = capture.plan
      BY <1>3, <2>4, <2>5 DEF CaptureRec
    <2>7. capture.cast \in Seq(CastEntry)
      BY BoundRec
    <2>8. /\ n \in Nat /\ DOMAIN cast = 1..(n + 1) /\ cast[n + 1] = e
          /\ \A i \in 1..n : cast[i] = capture.cast[i] /\ i \in DOMAIN capture.cast
      <3>1. n \in Nat /\ DOMAIN capture.cast = 1..n
        BY <1>1, <2>7
      <3>2. QED BY <1>1, <2>3, <2>7, <3>1
    <2>9. planned \in Seq(PlanCast)
      <3>1. capture.plan \in Plans
        BY <1>3 DEF CaptureInv
      <3>2. QED BY <1>2, <3>1, ProductionAssumption DEF PlanCast
    <2>10. n + 1 \in DOMAIN planned
      BY <1>3, <2>8, <2>9
    <2>11. Mirrors(cast, planned)
      <3> SUFFICES ASSUME NEW i \in DOMAIN cast
                   PROVE  /\ i \in DOMAIN planned /\ cast[i].name = planned[i].name
                          /\ cast[i].aliases = planned[i].aliases /\ cast[i].voice = planned[i].voice
        BY Zenon DEF Mirrors
      <3>1. CASE i = n + 1
        BY <2>2, <2>8, <2>10, <3>1
      <3>2. CASE i # n + 1
        <4>1. i \in 1..n
          BY <2>8, <3>2
        <4>2. QED BY <1>4, <2>8, <4>1 DEF Mirrors
      <3>3. QED BY <3>1, <3>2
    <2>12. QED BY <1>2, <1>3, <1>4, <2>6, <2>11 DEF CastInv
  <1>7. QED BY <1>5, <1>6

LEMMA CastInvAttaches ==
    ASSUME CaptureInv, CastInv, Attach
    PROVE  CastInv'
  <1>1. /\ capture.pc = "cast" /\ Len(capture.cast) = Len(capture.plan.cast)
        /\ snapshot' = [bound |-> TRUE, began |-> capture.began, rules |-> capture.rules,
                        plan |-> capture.plan, cast |-> capture.cast]
        /\ capture' = [NoCapture EXCEPT !.pc = "accepted"]
    BY DEF Attach
  <1>2. capture.plan \in Plans /\ Mirrors(capture.cast, capture.plan.cast)
    BY <1>1 DEF CaptureInv, CastInv
  <1>3. snapshot'.plan = capture.plan /\ snapshot'.cast = capture.cast
    BY <1>1
  <1>4. capture'.pc = "accepted"
    BY <1>1 DEF NoCapture
  <1>5. Mirrors(snapshot'.cast, snapshot'.plan.cast) /\ Len(snapshot'.cast) = Len(snapshot'.plan.cast)
    BY <1>1, <1>2, <1>3
  <1>6. snapshot'.plan \in Plans
    BY <1>2, <1>3
  <1>7. QED BY <1>4, <1>5, <1>6 DEF CastInv

LEMMA CastInvSubmits ==
    ASSUME CaptureInv, CastInv,
           \/ \E v \in Actors : Edit(v)
           \/ \E p \in Plans : SubmitRender(p)
           \/ CaptureNarrator \/ UNCHANGED <<studio, edits, capture, snapshot>>
    PROVE  CastInv'
  <1>1. CASE (\E v \in Actors : Edit(v)) \/ UNCHANGED <<studio, edits, capture, snapshot>>
    <2>1. UNCHANGED <<capture, snapshot>>
      BY <1>1 DEF Edit
    <2>2. QED BY <2>1 DEF CastInv, Mirrors
  <1>2. ASSUME NEW p \in Plans, SubmitRender(p) PROVE CastInv'
    <2>1. UNCHANGED snapshot /\ ~snapshot.bound /\ capture'.pc \in {"refused", "rules"} /\ capture'.cast = <<>>
      <3>1. UNCHANGED snapshot /\ ~snapshot.bound
        BY <1>2, Zenon DEF SubmitRender
      <3>2. \/ capture' = [NoCapture EXCEPT !.pc = "refused"]
            \/ capture' = [NoCapture EXCEPT !.pc = "rules", !.began = edits, !.plan = p]
        BY <1>2, Zenon DEF SubmitRender, Refuse
      <3>3. capture'.pc \in {"refused", "rules"} /\ capture'.cast = <<>>
        BY <3>2 DEF NoCapture
      <3>4. QED BY <3>1, <3>3
    <2>2. QED BY <2>1 DEF CastInv
  <1>3. ASSUME CaptureNarrator PROVE CastInv'
    <2>1. UNCHANGED snapshot /\ capture.pc = "rules" /\ capture.cast = <<>> /\ ~snapshot.bound
      BY <1>3 DEF CaptureNarrator, CastInv
    <2>2. capture'.pc \in {"refused", "cast"} /\ capture'.cast = <<>>
      <3>1. capture \in CaptureRec
        BY BoundRec
      <3>2. \/ capture' = [NoCapture EXCEPT !.pc = "refused"]
            \/ capture' = [capture EXCEPT !.pc = "cast", !.rules = studio["narrator"].rules]
        BY <1>3 DEF CaptureNarrator, Refuse
      <3>3. CASE capture' = [NoCapture EXCEPT !.pc = "refused"]
        BY <3>3 DEF NoCapture
      <3>4. CASE capture' = [capture EXCEPT !.pc = "cast", !.rules = studio["narrator"].rules]
        BY <2>1, <3>1, <3>4 DEF CaptureRec
      <3>5. QED BY <3>2, <3>3, <3>4
    <2>3. QED BY <2>1, <2>2 DEF CastInv, Mirrors
  <1>4. QED BY <1>1, <1>2, <1>3

LEMMA CastInvariant == ProductionSpec => [](CaptureInv /\ CastInv)
  <1>1. ProductionInit => CastInv
    BY DEF ProductionInit, CastInv, NoCapture, NoSnapshot
  <1>2. CaptureInv /\ CastInv /\ [ProductionNext]_productionVars => CastInv'
    <2> SUFFICES ASSUME CaptureInv, CastInv, [ProductionNext]_productionVars PROVE CastInv'
      OBVIOUS
    <2>1. CASE (\E t \in Manuscripts : PrepareStart(t)) \/ PrepareSegment \/ RenderEnds \/ RenderAgain
               \/ UNCHANGED productionVars
      <3>1. UNCHANGED <<studio, edits, capture, snapshot>>
        BY <2>1 DEF PrepareStart, PrepareSegment, RenderEnds, RenderAgain, productionVars
      <3>2. QED BY <3>1, CastInvSubmits
    <2>2. QED BY <2>1, CastInvSubmits, CastInvCaptures, CastInvAttaches DEF ProductionNext
  <1>3. QED BY <1>1, <1>2, CaptureInvariant, PTL DEF ProductionSpec

-----------------------------------------------------------------------------
\* No two pieces of a text are the same: a piece knows its line and its part.
PiecesAt(text, i) == Pieces(text[i], i, ScenesBefore(text, i))
PiecesWithin(n, q) == q \in Seq(SegRec) /\ Distinct(q) /\ \A a \in DOMAIN q : q[a].of[1] <= n

LEMMA PiecesAre ==
    ASSUME NEW text \in Manuscripts, NEW i \in DOMAIN text
    PROVE  /\ PiecesAt(text, i) \in Seq(SegRec) /\ Distinct(PiecesAt(text, i))
           /\ \A a \in DOMAIN PiecesAt(text, i) : PiecesAt(text, i)[a].of[1] = i
  <1>1. PICK k : k = ScenesBefore(text, i)
    OBVIOUS
  <1>2. PICK line : line = text[i]
    OBVIOUS
  <1>3. /\ i \in Nat /\ line.kind \in {"plain", "break", "label", "quote"}
        /\ line.name \in Names \union {"?"}
    <2>1. text \in Seq([kind : {"plain", "break", "label", "quote"}, name : Names \union {"?"}])
      BY ProductionAssumption
    <2>2. ASSUME NEW X, text \in Seq(X) PROVE i \in Nat /\ line \in X
      BY <1>2, <2>2
    <2>3. i \in Nat /\ line \in [kind : {"plain", "break", "label", "quote"}, name : Names \union {"?"}]
      BY <2>1, <2>2, Zenon
    <2>4. QED BY <2>3
  <1>4. k \in Nat
    <2>1. IsFiniteSet(1..(i - 1))
      BY <1>3, FS_Interval
    <2>2. IsFiniteSet({j \in 1..(i - 1) : text[j].kind = "break"})
      BY <2>1, FS_Subset
    <2>3. QED BY <1>1, <2>2, FS_CardinalityType DEF ScenesBefore
  <1>5. ASSUME NEW part \in Nat, NEW kind \in {"narration", "dialogue"}, NEW who \in Names \union {"?"}
        PROVE  /\ Piece(k, i, part, kind, who) \in SegRec /\ Piece(k, i, part, kind, who).of[1] = i
               /\ Piece(k, i, part, kind, who).of = <<i, part>>
    BY <1>3, <1>4 DEF Piece, SegRec
  <1>6. PICK a : a = Piece(k, i, 1, IF line.kind = "quote" THEN "dialogue" ELSE "narration",
                           IF line.kind = "quote" THEN line.name ELSE "?")
    OBVIOUS
  <1>7. PICK b : b = Piece(k, i, 2, IF line.kind = "quote" THEN "narration" ELSE "dialogue",
                           IF line.kind = "quote" THEN "?" ELSE line.name)
    OBVIOUS
  <1>8. a \in SegRec /\ a.of[1] = i /\ a.of = <<i, 1>>
    BY <1>3, <1>5, <1>6
  <1>9. b \in SegRec /\ b.of[1] = i /\ b.of = <<i, 2>>
    BY <1>3, <1>5, <1>7
  <1>10. PICK q : q = PiecesAt(text, i)
    OBVIOUS
  <1>11. q = <<a>> \/ q = <<a, b>>
    <2>1. q = Pieces(line, i, k)
      BY <1>1, <1>2, <1>10 DEF PiecesAt
    <2>2. CASE line.kind \in {"plain", "break"}
      BY <1>6, <2>1, <2>2 DEF Pieces
    <2>3. CASE line.kind = "label"
      BY <1>6, <1>7, <2>1, <2>3 DEF Pieces
    <2>4. CASE line.kind = "quote"
      BY <1>6, <1>7, <2>1, <2>4 DEF Pieces
    <2>5. QED BY <1>3, <2>2, <2>3, <2>4
  <1>12. a.of # b.of
    BY <1>3, <1>8, <1>9
  <1>13. q \in Seq(SegRec) /\ \A x \in DOMAIN q : q[x] \in {a, b}
    <2>1. CASE q = <<a>>
      BY <1>8, <2>1
    <2>2. CASE q = <<a, b>>
      BY <1>8, <1>9, <2>2
    <2>3. QED BY <1>11, <2>1, <2>2
  <1>14. QED BY <1>8, <1>9, <1>10, <1>12, <1>13 DEF Distinct

LEMMA WithinFurther ==
    ASSUME NEW n \in Nat, NEW q, PiecesWithin(n, q), NEW r \in Seq(SegRec), Distinct(r),
           \A a \in DOMAIN r : r[a].of[1] = n + 1
    PROVE  PiecesWithin(n + 1, q \o r)
  <1>1. q \in Seq(SegRec)
    BY DEF PiecesWithin
  <1>2. PICK t : t = q \o r
    OBVIOUS
  <1>3. t \in Seq(SegRec)
    BY <1>1, <1>2
  <1>4. \A x \in DOMAIN t : \/ \E a \in DOMAIN q : t[x] = q[a]
                            \/ \E a \in DOMAIN r : t[x] = r[a]
    <2>1. SUFFICES ASSUME NEW x \in DOMAIN t
                   PROVE  \/ \E a \in DOMAIN q : t[x] = q[a]
                          \/ \E a \in DOMAIN r : t[x] = r[a]
      OBVIOUS
    <2>2. CASE x <= Len(q)
      <3>1. x \in DOMAIN q /\ t[x] = q[x]
        BY <1>1, <1>2, <2>2
      <3>2. QED BY <3>1
    <2>3. CASE x > Len(q)
      <3>1. x - Len(q) \in DOMAIN r /\ t[x] = r[x - Len(q)]
        BY <1>1, <1>2, <2>3
      <3>2. QED BY <3>1
    <2>4. x \in Nat /\ Len(q) \in Nat
      BY <1>1, <1>3
    <2>5. QED BY <2>2, <2>3, <2>4
  <1>5. ASSUME NEW a \in DOMAIN q PROVE q[a].of[1] \in Nat /\ q[a].of[1] <= n
    <2>1. q[a] \in SegRec
      BY <1>1
    <2>2. q[a].of \in Nat \X Nat
      BY <2>1 DEF SegRec
    <2>3. QED BY <2>2 DEF PiecesWithin
  <1>6. \A x \in DOMAIN t : t[x].of[1] <= n + 1
    BY <1>4, <1>5
  <1>7. ASSUME NEW x \in DOMAIN t, NEW y \in DOMAIN t, t[x].of = t[y].of PROVE t[x] = t[y]
    <2>1. CASE (\E a \in DOMAIN q : t[x] = q[a]) /\ (\E a \in DOMAIN q : t[y] = q[a])
      BY <1>7, <2>1 DEF PiecesWithin, Distinct
    <2>2. CASE (\E a \in DOMAIN r : t[x] = r[a]) /\ (\E a \in DOMAIN r : t[y] = r[a])
      BY <1>7, <2>2 DEF Distinct
    <2>3. CASE (\E a \in DOMAIN q : t[x] = q[a]) /\ (\E a \in DOMAIN r : t[y] = r[a])
      <3>1. t[x].of[1] <= n /\ t[x].of[1] \in Nat /\ t[y].of[1] = n + 1
        BY <1>5, <2>3
      <3>2. QED BY <1>7, <3>1
    <2>4. CASE (\E a \in DOMAIN r : t[x] = r[a]) /\ (\E a \in DOMAIN q : t[y] = q[a])
      <3>1. t[y].of[1] <= n /\ t[y].of[1] \in Nat /\ t[x].of[1] = n + 1
        BY <1>5, <2>4
      <3>2. QED BY <1>7, <3>1
    <2>5. QED BY <1>4, <2>1, <2>2, <2>3, <2>4
  <1>8. QED BY <1>2, <1>3, <1>6, <1>7 DEF PiecesWithin, Distinct

LEMMA DetectedApart ==
    ASSUME NEW text \in Manuscripts
    PROVE  Detected(text) \in Seq(SegRec) /\ Distinct(Detected(text))
  <1> DEFINE First(n) == [i \in 1..n |-> PiecesAt(text, i)]
             S == {n \in Nat : n <= Len(text) => PiecesWithin(n, FlattenSeq(First(n)))}
  <1>1. Len(text) \in Nat /\ DOMAIN text = 1..Len(text)
    BY ProductionAssumption
  <1>2. ASSUME NEW n \in 0..Len(text) PROVE First(n) \in Seq(Seq(SegRec)) /\ Len(First(n)) = n
    <2>1. \A i \in 1..n : PiecesAt(text, i) \in Seq(SegRec)
      BY <1>1, PiecesAre
    <2>2. QED BY <1>1, <2>1
  <1>3. 0 \in S
    <2>1. FlattenSeq(First(0)) = <<>>
      <3>1. First(0) = <<>>
        OBVIOUS
      <3>2. QED BY <3>1, StrungNone
    <2>2. PiecesWithin(0, <<>>)
      BY DEF PiecesWithin, Distinct
    <2>3. QED BY <2>1, <2>2
  <1>4. ASSUME NEW n \in Nat, n \in S PROVE n + 1 \in S
    <2> SUFFICES ASSUME n + 1 <= Len(text) PROVE PiecesWithin(n + 1, FlattenSeq(First(n + 1)))
      OBVIOUS
    <2>1. PiecesWithin(n, FlattenSeq(First(n)))
      BY <1>1, <1>4
    <2>2. PICK ss : ss = First(n)
      OBVIOUS
    <2>3. PICK ts : ts = First(n + 1)
      OBVIOUS
    <2>4. ss \in Seq(Seq(SegRec)) /\ Len(ss) = n /\ ts \in Seq(Seq(SegRec)) /\ Len(ts) = n + 1
      BY <1>1, <1>2, <2>2, <2>3
    <2>5. \A i \in 1..Len(ss) : ts[i] = ss[i]
      BY <2>2, <2>3, <2>4
    <2>6. ts[Len(ts)] = PiecesAt(text, n + 1)
      BY <2>3, <2>4
    <2>7. FlattenSeq(ts) = FlattenSeq(ss) \o PiecesAt(text, n + 1)
      BY <2>4, <2>5, <2>6, StrungFurther
    <2>8. n + 1 \in DOMAIN text
      BY <1>1
    <2>9. PiecesWithin(n + 1, FlattenSeq(ss) \o PiecesAt(text, n + 1))
      BY <2>1, <2>2, <2>8, PiecesAre, WithinFurther
    <2>10. QED BY <2>3, <2>7, <2>9
  <1>5. Detected(text) = FlattenSeq(First(Len(text)))
    BY <1>1 DEF Detected, PiecesAt
  <1> HIDE DEF S, First
  <1>6. Nat \subseteq S
    BY <1>3, <1>4, Induction
  <1>7. PiecesWithin(Len(text), FlattenSeq(First(Len(text))))
    BY <1>1, <1>6 DEF S
  <1>8. QED BY <1>5, <1>7 DEF PiecesWithin

-----------------------------------------------------------------------------
\* A cast voice, when the index has one.
GreatestIn(T) == CHOOSE i \in T : \A k \in T : k <= i

LEMMA GreatestIndex ==
    ASSUME NEW n \in Nat, NEW T \in SUBSET (1..n), T # {}
    PROVE  GreatestIn(T) \in T
  <1>1. PICK U : U = {n - i : i \in T}
    OBVIOUS
  <1>2. U \in SUBSET Nat /\ U # {}
    <2>1. \A i \in T : n - i \in Nat
      OBVIOUS
    <2>2. QED BY <1>1, <2>1
  <1>3. PICK u \in U : \A w \in U : u <= w
    BY <1>2, Least
  <1>4. PICK i \in T : u = n - i
    BY <1>1
  <1>5. ASSUME NEW k \in T PROVE k <= i
    <2>1. n - i <= n - k
      BY <1>1, <1>3, <1>4
    <2>2. i \in Nat /\ k \in Nat
      OBVIOUS
    <2>3. QED BY <2>1, <2>2
  <1>6. \E x \in T : \A k \in T : k <= x
    BY <1>5
  <1>7. QED BY <1>6 DEF GreatestIn

Called(c, who) == who = c.name \/ who \in c.aliases
LEMMA CastForFinds ==
    ASSUME CaptureInv, CastInv, snapshot.bound, NEW who, NEW seg, seg.speaker = who
    PROVE  /\ CastFor(who) = 0 <=> Uncast(seg)
           /\ CastFor(who) # 0 =>
                /\ snapshot.cast[CastFor(who)] \in CastEntry
                /\ \E c \in Range(snapshot.plan.cast) :
                     snapshot.cast[CastFor(who)].voice = c.voice /\ Called(c, who)
  <1>1. PICK cast : cast = snapshot.cast
    OBVIOUS
  <1>2. PICK planned : planned = snapshot.plan.cast
    OBVIOUS
  <1>3. cast \in Seq(CastEntry) /\ planned \in Seq(PlanCast) /\ Len(cast) = Len(planned) /\ Mirrors(cast, planned)
    <2>1. cast \in Seq(CastEntry)
      BY <1>1, BoundRec
    <2>2. snapshot.plan \in Plans
      BY DEF CastInv
    <2>3. planned \in Seq(PlanCast)
      BY <1>2, <2>2, ProductionAssumption DEF PlanCast
    <2>4. QED BY <1>1, <1>2, <2>1, <2>3 DEF CastInv
  <1>4. PICK n : n = Len(cast)
    OBVIOUS
  <1>5. n \in Nat /\ DOMAIN cast = 1..n /\ DOMAIN planned = 1..n
    BY <1>3, <1>4
  <1>6. PICK named : named = {i \in DOMAIN cast : who = cast[i].name \/ who \in cast[i].aliases}
    OBVIOUS
  <1>7. CastFor(who) = IF named = {} THEN 0 ELSE GreatestIn(named)
    BY <1>1, <1>6 DEF CastFor, GreatestIn
  <1>8. named \in SUBSET (1..n)
    BY <1>5, <1>6
  <1>9. \A i \in 1..n : cast[i].name = planned[i].name /\ cast[i].aliases = planned[i].aliases
                        /\ cast[i].voice = planned[i].voice
    BY <1>3, <1>5 DEF Mirrors
  <1>10. named = {i \in 1..n : Called(planned[i], who)}
    BY <1>5, <1>6, <1>9 DEF Called
  <1>11. Uncast(seg) <=> named = {}
    <2>1. Uncast(seg) <=> \A c \in Range(planned) : ~Called(c, who)
      BY <1>2 DEF Uncast, Called
    <2>2. Range(planned) = {planned[i] : i \in 1..n}
      BY <1>5 DEF Range
    <2>3. QED BY <1>10, <2>1, <2>2
  <1>12. CASE named = {}
    BY <1>7, <1>11, <1>12
  <1>13. CASE named # {}
    <2>1. PICK i : i = GreatestIn(named)
      OBVIOUS
    <2>2. i \in named
      BY <1>5, <1>8, <1>13, <2>1, GreatestIndex
    <2>3. CastFor(who) = i /\ i \in 1..n /\ i # 0 /\ Called(planned[i], who)
      BY <1>5, <1>7, <1>10, <1>13, <2>1, <2>2
    <2>4. cast[i] \in CastEntry /\ cast[i].voice = planned[i].voice
      BY <1>3, <1>5, <1>9, <2>3
    <2>5. planned[i] \in Range(planned)
      BY <1>5, <2>3 DEF Range
    <2>6. QED BY <1>1, <1>2, <1>11, <1>13, <2>3, <2>4, <2>5
  <1>14. QED BY <1>12, <1>13

LEMMA PreparedSpeaks ==
    ASSUME CaptureInv, CastInv, snapshot.bound, NEW seg \in SegRec
    PROVE  /\ Prepared(seg) \in OutRec /\ Prepared(seg).of = <<seg.of>> /\ SpeaksFor(Prepared(seg), seg)
           /\ Dropped(seg) <=> LeftOut(seg)
  <1>1. PICK who : who = seg.speaker
    OBVIOUS
  <1>2. PICK c : c = CastFor(who)
    OBVIOUS
  <1>3. PICK id : id = Identity(seg)
    OBVIOUS
  <1>4. /\ seg.of \in Nat \X Nat /\ seg.kind \in {"narration", "dialogue"}
        /\ seg.speaker \in Names \union {"?"}
    BY DEF SegRec
  <1>5. /\ c = 0 <=> Uncast(seg)
        /\ c # 0 => /\ snapshot.cast[c] \in CastEntry
                    /\ \E e \in Range(snapshot.plan.cast) : snapshot.cast[c].voice = e.voice /\ Called(e, who)
    BY <1>1, <1>2, CastForFinds
  <1>6. id = IF seg.kind = "dialogue" /\ c # 0
             THEN [voice |-> snapshot.cast[c].voice,
                   rules |-> IF snapshot.cast[c].rules = 0 THEN snapshot.rules ELSE snapshot.cast[c].rules]
             ELSE [voice |-> "narrator", rules |-> snapshot.rules]
    <2>1. CASE seg.kind = "dialogue"
      BY <1>1, <1>2, <1>3, <2>1, Zenon DEF Identity, Narrated
    <2>2. CASE seg.kind # "dialogue"
      BY <1>3, <2>2 DEF Identity, Narrated
    <2>3. QED BY <2>1, <2>2
  <1>7. snapshot.rules \in Nat /\ "narrator" \in Actors
    BY BoundRec, ProductionAssumption
  <1>8. id.voice \in Actors /\ id.rules \in Nat
    <2>1. CASE seg.kind = "dialogue" /\ c # 0
      <3>1. snapshot.cast[c].voice \in Actors /\ snapshot.cast[c].rules \in Nat
        BY <1>5, <2>1 DEF CastEntry
      <3>2. QED BY <1>6, <1>7, <2>1, <3>1
    <2>2. CASE ~(seg.kind = "dialogue" /\ c # 0)
      BY <1>6, <1>7, <2>2
    <2>3. QED BY <2>1, <2>2
  <1>9. PICK style \in BOOLEAN : style = (seg.scene \in snapshot.plan.scenes)
    <2>1. CASE seg.scene \in snapshot.plan.scenes
      <3>1. TRUE \in BOOLEAN /\ TRUE = (seg.scene \in snapshot.plan.scenes)
        BY <2>1
      <3>2. QED BY <3>1
    <2>2. CASE seg.scene \notin snapshot.plan.scenes
      <3>1. FALSE \in BOOLEAN /\ FALSE = (seg.scene \in snapshot.plan.scenes)
        BY <2>2
      <3>2. QED BY <3>1
    <2>3. QED BY <2>1, <2>2
  <1>10. PICK o : o = [of |-> <<seg.of>>, kind |-> seg.kind, speaker |-> seg.speaker,
                       voice |-> id.voice, rules |-> id.rules, style |-> style]
    OBVIOUS
  <1>11. Prepared(seg) = o
    BY <1>3, <1>9, <1>10, Zenon DEF Prepared, Style
  <1>12. /\ o \in OutRec /\ o.of = <<seg.of>> /\ o.kind = seg.kind /\ o.speaker = seg.speaker
         /\ o.voice = id.voice /\ o.style = style
    <2>1. <<seg.of>> \in Seq(Nat \X Nat)
      BY <1>4
    <2>2. QED BY <1>4, <1>8, <1>10, <2>1 DEF OutRec
  <1>13. CastVoice(o, seg)
    <2>1. CASE seg.kind = "narration" \/ Uncast(seg)
      BY <1>5, <1>6, <1>12, <2>1 DEF CastVoice
    <2>2. CASE ~(seg.kind = "narration" \/ Uncast(seg))
      <3>1. c # 0 /\ seg.kind = "dialogue"
        BY <1>4, <1>5, <2>2
      <3>2. o.voice = snapshot.cast[c].voice
        BY <1>6, <1>12, <3>1
      <3>3. QED BY <1>1, <1>5, <2>2, <3>1, <3>2, Zenon DEF CastVoice, Called
    <2>3. QED BY <2>1, <2>2
  <1>14. SpeaksFor(o, seg)
    BY <1>9, <1>12, <1>13, Zenon DEF SpeaksFor
  <1>15. Dropped(seg) <=> LeftOut(seg)
    BY <1>1, <1>2, <1>5, Zenon DEF Dropped, LeftOut
  <1>16. QED BY <1>11, <1>12, <1>14, <1>15

\* A segment is joined to the last one or follows it: what is covered grows by
\* its pieces and every piece stays with a voice that speaks it rightly.
LEMMA StringsFurther ==
    ASSUME NEW out \in Seq(OutRec), NEW new \in OutRec
    PROVE  Strings(Append(out, new)) = Strings(out) \o new.of /\ Strings(out) \in Seq(Nat \X Nat)
  <1>1. PICK n : n = Len(out)
    OBVIOUS
  <1>2. PICK more : more = Append(out, new)
    OBVIOUS
  <1>3. n \in Nat /\ DOMAIN out = 1..n /\ DOMAIN more = 1..(n + 1) /\ more[n + 1] = new
        /\ \A i \in 1..n : more[i] = out[i]
    BY <1>1, <1>2
  <1>4. \A o \in OutRec : o.of \in Seq(Nat \X Nat)
    BY DEF OutRec
  <1>5. \A i \in 1..n : out[i] \in OutRec
    BY <1>3
  <1>6. PICK ss : ss = [i \in DOMAIN out |-> out[i].of]
    OBVIOUS
  <1>7. PICK ts : ts = [i \in DOMAIN more |-> more[i].of]
    OBVIOUS
  <1>8. ss \in Seq(Seq(Nat \X Nat)) /\ Len(ss) = n
    BY <1>3, <1>4, <1>5, <1>6
  <1>9. ts \in Seq(Seq(Nat \X Nat)) /\ Len(ts) = n + 1
    <2>1. \A i \in 1..(n + 1) : more[i] \in OutRec
      BY <1>3, <1>5
    <2>2. QED BY <1>3, <1>4, <1>7, <2>1
  <1>10. /\ \A i \in 1..Len(ss) : ts[i] = ss[i]
         /\ ts[Len(ts)] = new.of
    BY <1>3, <1>6, <1>7, <1>8, <1>9
  <1>11. FlattenSeq(ts) = FlattenSeq(ss) \o new.of
    <2>1. Len(ts) = Len(ss) + 1
      BY <1>8, <1>9
    <2>2. FlattenSeq(ts) = FlattenSeq(ss) \o ts[Len(ts)]
      BY <1>8, <1>9, <1>10, <2>1, StrungFurther
    <2>3. QED BY <1>10, <2>2
  <1>12. FlattenSeq(ss) \in Seq(Nat \X Nat)
    BY <1>8, StrungType
  <1>13. QED BY <1>2, <1>6, <1>7, <1>11, <1>12 DEF Strings

LEMMA Coalesced ==
    ASSUME NEW out \in Seq(OutRec), NEW new \in OutRec, NEW todo,
           \A i \in DOMAIN out : Rightly(out[i], todo), Rightly(new, todo)
    PROVE  /\ Coalesce(out, new) \in Seq(OutRec)
           /\ Strings(Coalesce(out, new)) = Strings(out) \o new.of
           /\ \A i \in DOMAIN Coalesce(out, new) : Rightly(Coalesce(out, new)[i], todo)
  <1>1. PICK n : n = Len(out)
    OBVIOUS
  <1>2. n \in Nat /\ DOMAIN out = 1..n
    BY <1>1
  <1>3. new.of \in Seq(Nat \X Nat)
    BY DEF OutRec
  <1>4. CASE out # <<>> /\ Joins(Last(out), new)
    <2>1. PICK last : last = Last(out)
      OBVIOUS
    <2>2. PICK front : front = Front(out)
      OBVIOUS
    <2>3. n # 0 /\ last = out[n] /\ last \in OutRec
      BY <1>1, <1>2, <1>4, <2>1 DEF Last
    <2>4. front = SubSeq(out, 1, n - 1)
      BY <1>1, <2>2 DEF Front
    <2>5. front \in Seq(OutRec) /\ Len(front) = n - 1 /\ \A i \in 1..(n - 1) : front[i] = out[i]
      BY <1>1, <1>2, <2>3, <2>4
    <2>6. out = Append(front, last)
      BY <1>1, <1>2, <2>3, <2>5
    <2>7. last.of \in Seq(Nat \X Nat)
      BY <2>3 DEF OutRec
    <2>8. PICK of : of = last.of \o new.of
      OBVIOUS
    <2>9. of \in Seq(Nat \X Nat)
      BY <1>3, <2>7, <2>8
    <2>10. PICK both : both = [new EXCEPT !.of = of]
      OBVIOUS
    <2>11. /\ both \in OutRec /\ both.of = of /\ both.kind = new.kind /\ both.speaker = new.speaker
           /\ both.voice = new.voice /\ both.style = new.style
      BY <2>9, <2>10 DEF OutRec
    <2>12. Coalesce(out, new) = Append(front, both)
      BY <1>4, <2>1, <2>2, <2>8, <2>10, Zenon DEF Coalesce
    <2>13. Strings(Append(front, both)) = Strings(out) \o new.of
      <3>1. Strings(Append(front, both)) = Strings(front) \o of /\ Strings(front) \in Seq(Nat \X Nat)
        BY <2>5, <2>11, StringsFurther
      <3>2. Strings(out) = Strings(front) \o last.of
        BY <2>3, <2>5, <2>6, StringsFurther
      <3>3. PICK a : a = Strings(front)
        OBVIOUS
      <3>4. PICK b : b = last.of
        OBVIOUS
      <3>5. PICK d : d = new.of
        OBVIOUS
      <3>6. a \in Seq(Nat \X Nat) /\ b \in Seq(Nat \X Nat) /\ d \in Seq(Nat \X Nat)
        BY <1>3, <2>7, <3>1, <3>3, <3>4, <3>5
      <3>7. PICK X : X = Nat \X Nat
        OBVIOUS
      <3>8. a \o (b \o d) = (a \o b) \o d
        <4>1. a \in Seq(X) /\ b \in Seq(X) /\ d \in Seq(X)
          BY <3>6, <3>7
        <4>2. QED BY <4>1, ConcatAssociative
      <3>9. QED BY <2>8, <3>1, <3>2, <3>3, <3>4, <3>5, <3>8
    <2>14. Rightly(both, todo)
      <3> SUFFICES ASSUME NEW x \in Range(both.of)
                   PROVE  \E i \in DOMAIN todo : todo[i].of = x /\ SpeaksFor(both, todo[i])
        BY Zenon DEF Rightly
      <3>1. both.of = last.of \o new.of
        BY <2>8, <2>11
      <3>2. x \in Range(last.of) \/ x \in Range(new.of)
        <4>1. ASSUME NEW X, NEW p \in Seq(X), NEW q \in Seq(X), NEW y \in Range(p \o q)
              PROVE  y \in Range(p) \/ y \in Range(q)
          <5>1. PICK k \in DOMAIN (p \o q) : y = (p \o q)[k]
            BY DEF Range
          <5>2. k \in 1..(Len(p) + Len(q)) /\ Len(p) \in Nat /\ Len(q) \in Nat
            OBVIOUS
          <5>3. CASE k <= Len(p)
            <6>1. k \in DOMAIN p /\ y = p[k]
              BY <5>1, <5>2, <5>3
            <6>2. QED BY <6>1 DEF Range
          <5>4. CASE k > Len(p)
            <6>1. k - Len(p) \in DOMAIN q /\ y = q[k - Len(p)]
              BY <5>1, <5>2, <5>4
            <6>2. QED BY <6>1 DEF Range
          <5>5. QED BY <5>2, <5>3, <5>4
        <4>2. QED BY <1>3, <2>7, <3>1, <4>1
      <3>3. \A seg : SpeaksFor(last, seg) => SpeaksFor(both, seg)
        BY <1>4, <2>1, <2>11 DEF Joins, SpeaksFor, CastVoice
      <3>4. \A seg : SpeaksFor(new, seg) => SpeaksFor(both, seg)
        BY <2>11 DEF SpeaksFor, CastVoice
      <3>5. Rightly(last, todo)
        BY <1>2, <2>3
      <3>6. QED BY <3>2, <3>3, <3>4, <3>5 DEF Rightly
    <2>15. PICK more : more = Append(front, both)
      OBVIOUS
    <2>16. more \in Seq(OutRec) /\ \A i \in DOMAIN more : more[i] = both \/ \E k \in DOMAIN out : more[i] = out[k]
      <3>1. more \in Seq(OutRec) /\ DOMAIN more = 1..n /\ more[n] = both
            /\ \A i \in 1..(n - 1) : more[i] = front[i]
        BY <1>2, <2>3, <2>5, <2>11, <2>15
      <3>2. QED BY <1>2, <2>5, <3>1
    <2>17. QED BY <2>12, <2>13, <2>14, <2>15, <2>16
  <1>5. CASE ~(out # <<>> /\ Joins(Last(out), new))
    <2>1. PICK more : more = Append(out, new)
      OBVIOUS
    <2>2. Coalesce(out, new) = more
      BY <1>5, <2>1, Zenon DEF Coalesce
    <2>3. more \in Seq(OutRec) /\ \A i \in DOMAIN more : more[i] = new \/ \E k \in DOMAIN out : more[i] = out[k]
      <3>1. more \in Seq(OutRec) /\ DOMAIN more = 1..(n + 1) /\ more[n + 1] = new
            /\ \A i \in 1..n : more[i] = out[i]
        BY <1>1, <1>2, <2>1
      <3>2. QED BY <1>2, <3>1
    <2>4. Strings(more) = Strings(out) \o new.of
      BY <2>1, StringsFurther
    <2>5. QED BY <2>2, <2>3, <2>4
  <1>6. QED BY <1>4, <1>5

LEMMA ToldFurther ==
    ASSUME NEW todo \in Seq(SegRec), NEW n \in 1..Len(todo)
    PROVE  /\ Told(todo, n - 1) \in Seq(Nat \X Nat)
           /\ Told(todo, n) = Told(todo, n - 1) \o (IF LeftOut(todo[n]) THEN <<>> ELSE <<todo[n].of>>)
  <1> DEFINE Part(i) == IF LeftOut(todo[i]) THEN <<>> ELSE <<todo[i].of>>
  <1>1. ASSUME NEW i \in 1..Len(todo) PROVE Part(i) \in Seq(Nat \X Nat)
    <2>1. todo[i] \in SegRec
      OBVIOUS
    <2>2. todo[i].of \in Nat \X Nat
      BY <2>1 DEF SegRec
    <2>3. CASE LeftOut(todo[i])
      BY <2>3
    <2>4. CASE ~LeftOut(todo[i])
      BY <2>2, <2>4
    <2>5. QED BY <2>3, <2>4
  <1>2. Told(todo, n - 1) = FlattenSeq([i \in 1..(n - 1) |-> Part(i)])
    BY DEF Told
  <1>3. Told(todo, n) = FlattenSeq([i \in 1..n |-> Part(i)])
    BY DEF Told
  <1> HIDE DEF Part
  <1>4. PICK ss : ss = [i \in 1..(n - 1) |-> Part(i)]
    OBVIOUS
  <1>5. PICK ts : ts = [i \in 1..n |-> Part(i)]
    OBVIOUS
  <1>6. n \in Nat /\ n - 1 \in Nat /\ Len(todo) \in Nat /\ n <= Len(todo)
    OBVIOUS
  <1>7. \A i \in 1..n : Part(i) \in Seq(Nat \X Nat)
    BY <1>1, <1>6
  <1>8. ss \in Seq(Seq(Nat \X Nat)) /\ Len(ss) = n - 1
    BY <1>4, <1>6, <1>7
  <1>9. ts \in Seq(Seq(Nat \X Nat)) /\ Len(ts) = n /\ ts[n] = Part(n)
    BY <1>5, <1>6, <1>7
  <1>10. \A i \in 1..Len(ss) : ts[i] = ss[i]
    BY <1>4, <1>5, <1>6, <1>8
  <1>11. Len(ts) = Len(ss) + 1 /\ ts[Len(ts)] = Part(n)
    BY <1>6, <1>8, <1>9
  <1>12. FlattenSeq(ts) = FlattenSeq(ss) \o ts[Len(ts)]
    BY <1>8, <1>9, <1>10, <1>11, StrungFurther
  <1>13. FlattenSeq(ss) \in Seq(Nat \X Nat)
    BY <1>8, StrungType
  <1>14. QED BY <1>2, <1>3, <1>4, <1>5, <1>11, <1>12, <1>13 DEF Part

LEMMA RenderFields ==
    ASSUME NEW r \in RenderRec
    PROVE  /\ r.pc \in {"idle", "prepare", "done"} /\ r.todo \in Seq(SegRec) /\ r.next \in Nat
           /\ r.out \in Seq(OutRec) /\ r.text \in Manuscripts \union {<<>>}
  BY DEF RenderRec

\* What RenderInv asks once a chapter is being prepared.
Rendered(r) == /\ snapshot.bound /\ Distinct(r.todo) /\ r.next \in 1..(Len(r.todo) + 1)
               /\ Strings(r.out) = Told(r.todo, r.next - 1)
               /\ \A i \in DOMAIN r.out : Rightly(r.out[i], r.todo)
               /\ r.pc = "done" => r.next = Len(r.todo) + 1

LEMMA RenderInvAgain ==
    ASSUME NEW r \in RenderRec, r.pc # "idle" => Rendered(r), render' = r, UNCHANGED snapshot
    PROVE  RenderInv'
  <1>1. CASE r.pc = "idle"
    BY <1>1 DEF RenderInv
  <1>2. CASE r.pc # "idle"
    <2>1. Rendered(r)
      BY <1>2
    <2>2. Rendered(r)'
      BY <2>1 DEF Rendered, Strings, Told, LeftOut, Rightly, SpeaksFor, CastVoice, Uncast, Distinct
    <2>3. QED BY <1>2, <2>2 DEF RenderInv, Rendered
  <1>3. QED BY <1>1, <1>2

LEMMA PrepareStartInv ==
    ASSUME CaptureInv, CastInv, RenderInv, NEW text \in Manuscripts, PrepareStart(text)
    PROVE  RenderInv'
  <1>1. PICK todo : todo = IF snapshot.plan.auto /\ Detected(text) # <<>> THEN Detected(text)
                           ELSE <<Piece(0, 0, 1, "narration", "?")>>
    OBVIOUS
  <1>2. PICK r : r = [pc |-> "prepare", text |-> text, next |-> 1, out |-> <<>>, todo |-> todo]
    OBVIOUS
  <1>3. snapshot.bound /\ render' = r /\ UNCHANGED snapshot
    BY <1>1, <1>2 DEF PrepareStart
  <1>4. todo \in Seq(SegRec) /\ Distinct(todo)
    <2>1. CASE todo = Detected(text)
      BY <2>1, DetectedApart
    <2>2. CASE todo = <<Piece(0, 0, 1, "narration", "?")>>
      <3>1. Piece(0, 0, 1, "narration", "?") \in SegRec
        BY DEF Piece, SegRec
      <3>2. PICK p \in SegRec : p = Piece(0, 0, 1, "narration", "?")
        BY <3>1
      <3>3. QED BY <2>2, <3>2 DEF Distinct
    <2>3. QED BY <1>1, <2>1, <2>2
  <1>5. r.pc = "prepare" /\ r.text = text /\ r.next = 1 /\ r.out = <<>> /\ r.todo = todo
    BY <1>2
  <1>6. r \in RenderRec
    <2>1. PICK T : T = Manuscripts \union {<<>>}
      OBVIOUS
    <2>2. PICK S : S = Seq(SegRec)
      OBVIOUS
    <2>3. PICK O : O = Seq(OutRec)
      OBVIOUS
    <2>4. <<>> \in O /\ text \in T /\ todo \in S /\ 1 \in Nat
      BY <1>4, <2>1, <2>2, <2>3
    <2>5. r \in [pc : {"idle", "prepare", "done"}, text : T, todo : S, next : Nat, out : O]
      BY <1>2, <2>4
    <2>6. QED BY <2>1, <2>2, <2>3, <2>5, Zenon DEF RenderRec
  <1>7. Strings(<<>>) = <<>> /\ Told(todo, 1 - 1) = <<>>
    <2>1. [i \in DOMAIN <<>> |-> (<<>>)[i].of] = <<>>
      OBVIOUS
    <2>2. [i \in 1..(1 - 1) |-> IF LeftOut(todo[i]) THEN <<>> ELSE <<todo[i].of>>] = <<>>
      OBVIOUS
    <2>3. QED BY <2>1, <2>2, StrungNone DEF Strings, Told
  <1>8. Rendered(r)
    BY <1>3, <1>4, <1>5, <1>7 DEF Rendered
  <1>9. QED BY <1>3, <1>6, <1>8, RenderInvAgain

Onward(a, m, o) == [a EXCEPT !.next = m, !.out = o]
LEMMA RenderMoves ==
    ASSUME NEW a \in RenderRec, NEW m \in Nat, NEW o \in Seq(OutRec)
    PROVE  /\ Onward(a, m, o) \in RenderRec /\ Onward(a, m, o).pc = a.pc /\ Onward(a, m, o).next = m
           /\ Onward(a, m, o).out = o /\ Onward(a, m, o).todo = a.todo
  <1>0. PICK b : b = Onward(a, m, o)
    OBVIOUS
  <1>1. PICK T : T = Manuscripts \union {<<>>}
    OBVIOUS
  <1>2. PICK S : S = Seq(SegRec)
    OBVIOUS
  <1>3. PICK O : O = Seq(OutRec)
    OBVIOUS
  <1>4. a \in [pc : {"idle", "prepare", "done"}, text : T, todo : S, next : Nat, out : O] /\ o \in O
    BY <1>1, <1>2, <1>3, Zenon DEF RenderRec
  <1>5. /\ b \in [pc : {"idle", "prepare", "done"}, text : T, todo : S, next : Nat, out : O]
        /\ b.pc = a.pc /\ b.next = m /\ b.out = o /\ b.todo = a.todo
    BY <1>0, <1>4 DEF Onward
  <1>6. QED BY <1>0, <1>1, <1>2, <1>3, <1>5, Zenon DEF RenderRec

LEMMA PrepareSegmentInv ==
    ASSUME CaptureInv, CastInv, RenderInv, PrepareSegment
    PROVE  RenderInv'
  <1>1. PICK todo : todo = render.todo
    OBVIOUS
  <1>2. PICK n : n = render.next
    OBVIOUS
  <1>3. PICK seg : seg = todo[n]
    OBVIOUS
  <1>4. PICK old : old = render.out
    OBVIOUS
  <1>5. PICK out : out = IF Dropped(seg) THEN old ELSE Coalesce(old, Prepared(seg))
    OBVIOUS
  <1>6. PICK r : r = Onward(render, n + 1, out)
    OBVIOUS
  <1>7. render.pc = "prepare" /\ n <= Len(todo) /\ render' = r /\ UNCHANGED snapshot
    BY <1>1, <1>2, <1>3, <1>4, <1>5, <1>6, Zenon DEF PrepareSegment, Onward
  <1>8. render \in RenderRec /\ todo \in Seq(SegRec) /\ n \in Nat /\ old \in Seq(OutRec)
    BY <1>1, <1>2, <1>4, RenderFields DEF RenderInv
  <1>9. /\ snapshot.bound /\ Distinct(todo) /\ n \in 1..(Len(todo) + 1) /\ Strings(old) = Told(todo, n - 1)
        /\ \A i \in DOMAIN old : Rightly(old[i], todo)
    BY <1>1, <1>2, <1>4, <1>7 DEF RenderInv
  <1>10. n \in 1..Len(todo) /\ n \in DOMAIN todo /\ seg \in SegRec
    BY <1>3, <1>7, <1>8, <1>9
  <1>11. /\ Told(todo, n - 1) \in Seq(Nat \X Nat)
         /\ Told(todo, n) = Told(todo, n - 1) \o (IF LeftOut(seg) THEN <<>> ELSE <<seg.of>>)
    BY <1>3, <1>8, <1>10, ToldFurther
  <1>12. /\ Prepared(seg) \in OutRec /\ Prepared(seg).of = <<seg.of>> /\ SpeaksFor(Prepared(seg), seg)
         /\ Dropped(seg) <=> LeftOut(seg)
    BY <1>9, <1>10, PreparedSpeaks
  <1>13. out \in Seq(OutRec) /\ Strings(out) = Told(todo, n) /\ \A i \in DOMAIN out : Rightly(out[i], todo)
    <2>1. CASE Dropped(seg)
      <3>1. out = old /\ LeftOut(seg)
        BY <1>5, <1>12, <2>1
      <3>2. Told(todo, n) = Told(todo, n - 1)
        <4>1. PICK X : X = Nat \X Nat
          OBVIOUS
        <4>2. PICK q : q = Told(todo, n - 1)
          OBVIOUS
        <4>3. q \in Seq(X) /\ Told(todo, n) = q \o <<>>
          BY <1>11, <3>1, <4>1, <4>2
        <4>4. q \o <<>> = q
          BY <4>3, ConcatEmptySeq
        <4>5. QED BY <4>2, <4>3, <4>4
      <3>3. QED BY <1>8, <1>9, <3>1, <3>2
    <2>2. CASE ~Dropped(seg)
      <3>1. PICK new : new = Prepared(seg)
        OBVIOUS
      <3>2. new \in OutRec /\ new.of = <<seg.of>> /\ SpeaksFor(new, seg) /\ out = Coalesce(old, new) /\ ~LeftOut(seg)
        BY <1>5, <1>12, <2>2, <3>1
      <3>3. Rightly(new, todo)
        <4> SUFFICES ASSUME NEW x \in Range(new.of)
                     PROVE  \E i \in DOMAIN todo : todo[i].of = x /\ SpeaksFor(new, todo[i])
          BY Zenon DEF Rightly
        <4>1. x = seg.of
          BY <3>2 DEF Range
        <4>2. QED BY <1>3, <1>10, <3>2, <4>1
      <3>4. /\ Coalesce(old, new) \in Seq(OutRec) /\ Strings(Coalesce(old, new)) = Strings(old) \o new.of
            /\ \A i \in DOMAIN Coalesce(old, new) : Rightly(Coalesce(old, new)[i], todo)
        BY <1>8, <1>9, <3>2, <3>3, Coalesced
      <3>5. Told(todo, n) = Strings(old) \o new.of
        BY <1>9, <1>11, <3>2
      <3>6. QED BY <3>2, <3>4, <3>5
    <2>3. QED BY <2>1, <2>2
  <1>14. r \in RenderRec /\ r.pc = "prepare" /\ r.next = n + 1 /\ r.out = out /\ r.todo = todo
    <2>1. n + 1 \in Nat
      BY <1>8
    <2>2. /\ r \in RenderRec /\ r.pc = render.pc /\ r.next = n + 1 /\ r.out = out
          /\ r.todo = render.todo
      BY <1>6, <1>8, <1>13, <2>1, RenderMoves
    <2>3. QED BY <1>1, <1>7, <2>2
  <1>15. (n + 1) - 1 = n /\ n + 1 \in 1..(Len(todo) + 1)
    BY <1>8, <1>10
  <1>16. Rendered(r)
    BY <1>9, <1>13, <1>14, <1>15 DEF Rendered
  <1>17. QED BY <1>7, <1>14, <1>16, RenderInvAgain

LEMMA RenderStep ==
    ASSUME CaptureInv, CastInv, RenderInv, [ProductionNext]_productionVars
    PROVE  RenderInv'
  <1>1. CASE UNCHANGED <<snapshot, render>>
    <2>1. PICK r : r = render
      OBVIOUS
    <2>2. r \in RenderRec /\ (r.pc # "idle" => Rendered(r)) /\ render' = r
      BY <1>1, <2>1 DEF RenderInv, Rendered
    <2>3. QED BY <1>1, <2>2, RenderInvAgain
  <1>2. ASSUME NEW v \in Actors, Edit(v) PROVE UNCHANGED <<snapshot, render>>
    BY <1>2 DEF Edit
  <1>3. ASSUME NEW p \in Plans, SubmitRender(p) PROVE UNCHANGED <<snapshot, render>>
    BY <1>3, Zenon DEF SubmitRender
  <1>4. CaptureNarrator \/ CaptureCast => UNCHANGED <<snapshot, render>>
    BY Zenon DEF CaptureNarrator, CaptureCast
  <1>5. CASE Attach
    <2>1. render' = render /\ ~snapshot.bound
      BY <1>5 DEF Attach, CastInv
    <2>2. render \in RenderRec /\ render.pc = "idle"
      BY <2>1 DEF RenderInv
    <2>3. QED BY <2>1, <2>2 DEF RenderInv
  <1>6. CASE RenderEnds
    <2>1. PICK r : r = [render EXCEPT !.pc = "done"]
      OBVIOUS
    <2>2. render.pc = "prepare" /\ render.next > Len(render.todo) /\ render' = r /\ UNCHANGED snapshot
      BY <1>6, <2>1 DEF RenderEnds
    <2>3. render \in RenderRec /\ render.todo \in Seq(SegRec) /\ render.next \in Nat
      BY RenderFields DEF RenderInv
    <2>4. /\ r \in RenderRec /\ r.pc = "done" /\ r.todo = render.todo /\ r.next = render.next
          /\ r.out = render.out
      BY <2>1, <2>3 DEF RenderRec
    <2>5. render.next = Len(render.todo) + 1
      <3>1. render.next \in 1..(Len(render.todo) + 1)
        BY <2>2 DEF RenderInv
      <3>2. QED BY <2>2, <2>3, <3>1
    <2>6. Rendered(r)
      BY <2>2, <2>4, <2>5 DEF RenderInv, Rendered
    <2>7. QED BY <2>2, <2>4, <2>6, RenderInvAgain
  <1>7. CASE RenderAgain
    <2>1. render' = NoRender /\ UNCHANGED snapshot
      BY <1>7 DEF RenderAgain
    <2>2. NoRender \in RenderRec /\ NoRender.pc = "idle"
      BY DEF NoRender, RenderRec
    <2>3. QED BY <2>1, <2>2, RenderInvAgain
  <1>8. UNCHANGED productionVars => UNCHANGED <<snapshot, render>>
    BY DEF productionVars
  <1>9. QED
    BY <1>1, <1>2, <1>3, <1>4, <1>5, <1>6, <1>7, <1>8, PrepareStartInv, PrepareSegmentInv, Zenon
    DEF ProductionNext

LEMMA RenderSpeaks ==
    ASSUME RenderInv
    PROVE  CastSpeaks
  <1> SUFFICES ASSUME render.pc = "done" PROVE CastSpeaks
    BY DEF CastSpeaks
  <1>1. PICK todo : todo = render.todo
    OBVIOUS
  <1>2. /\ todo \in Seq(SegRec) /\ render.out \in Seq(OutRec) /\ Distinct(todo)
        /\ render.next = Len(todo) + 1 /\ Strings(render.out) = Told(todo, render.next - 1)
        /\ \A i \in DOMAIN render.out : Rightly(render.out[i], todo)
    BY <1>1, RenderFields DEF RenderInv
  <1>3. Covered = Wanted
    <2>1. Covered = Strings(render.out)
      BY DEF Covered, Strings
    <2>2. Len(todo) \in Nat /\ DOMAIN todo = 1..Len(todo)
      BY <1>2
    <2>3. Wanted = Told(todo, Len(todo))
      BY <1>1, <2>2 DEF Wanted, Told, LeftOut
    <2>4. render.next - 1 = Len(todo)
      BY <1>2, <2>2
    <2>5. QED BY <1>2, <2>1, <2>3, <2>4
  <1>4. ASSUME NEW out \in Range(render.out), NEW seg \in Range(todo), seg.of \in Range(out.of)
        PROVE  SpeaksFor(out, seg)
    <2>1. Rightly(out, todo)
      BY <1>2 DEF Range
    <2>2. PICK i \in DOMAIN todo : todo[i].of = seg.of /\ SpeaksFor(out, todo[i])
      BY <1>4, <2>1 DEF Rightly
    <2>3. PICK k \in DOMAIN todo : seg = todo[k]
      BY DEF Range
    <2>4. todo[i] = todo[k]
      BY <1>2, <2>2, <2>3 DEF Distinct
    <2>5. QED BY <2>2, <2>3, <2>4
  <1>5. QED BY <1>1, <1>3, <1>4, Zenon DEF CastSpeaks, SpeaksFor, CastVoice

\* Whatever text a job renders and whatever plan it was submitted with, a
\* prepared chapter speaks every piece of the text once and in order, except
\* the uncast dialogue the plan drops, each in the voice the plan lists for its
\* speaker or the narrator's, and none of these voices was revoked when the
\* submission arrived (detect_dialogue_segments, prepare_directed_segments,
\* attach_voice_snapshot).
THEOREM ProductionIsHonest == ProductionSpec => []ProductionHonest
  <1>1. ProductionInit => RenderInv
    BY DEF ProductionInit, RenderInv, NoRender, RenderRec
  <1>2. CaptureInv /\ CastInv /\ RenderInv /\ [ProductionNext]_productionVars => RenderInv'
    BY RenderStep
  <1>3. ProductionSpec => []RenderInv
    BY <1>1, <1>2, CastInvariant, PTL DEF ProductionSpec
  <1>4. RenderInv /\ RevokedNotCaptured => ProductionHonest
    BY RenderSpeaks DEF ProductionHonest
  <1>5. QED BY <1>3, <1>4, RevokedIsNotCaptured, PTL

-----------------------------------------------------------------------------
\* f adds up the numbers of s.
Sums(f, s) == f = [i \in 0..Len(s) |-> IF i = 0 THEN 0 ELSE f[i - 1] + s[i]]

LEMMA SumsExist ==
    ASSUME NEW s, Len(s) \in Nat
    PROVE  \E f : Sums(f, s)
  <1> DEFINE Good(n) == \E f : f = [i \in 0..n |-> IF i = 0 THEN 0 ELSE f[i - 1] + s[i]]
             S == {n \in Nat : Good(n)}
  <1>1. Good(0)
    <2> DEFINE f == [i \in 0..0 |-> 0]
    <2>1. f = [i \in 0..0 |-> IF i = 0 THEN 0 ELSE f[i - 1] + s[i]]
      OBVIOUS
    <2>2. QED BY <2>1
  <1>2. ASSUME NEW n \in Nat, Good(n) PROVE Good(n + 1)
    <2>1. PICK g : g = [i \in 0..n |-> IF i = 0 THEN 0 ELSE g[i - 1] + s[i]]
      BY <1>2
    <2> DEFINE f == [i \in 0..(n + 1) |-> IF i = n + 1 THEN g[n] + s[n + 1] ELSE g[i]]
    <2>2. \A i \in 0..(n + 1) : f[i] = IF i = 0 THEN 0 ELSE f[i - 1] + s[i]
      BY <2>1
    <2>3. f = [i \in 0..(n + 1) |-> IF i = 0 THEN 0 ELSE f[i - 1] + s[i]]
      BY <2>2
    <2>4. QED BY <2>3
  <1> HIDE DEF Good
  <1>3. 0 \in S /\ \A n \in Nat : n \in S => n + 1 \in S
    BY <1>1, <1>2
  <1>4. Nat \subseteq S
    BY <1>3, Induction
  <1>5. Good(Len(s))
    BY <1>4
  <1>6. QED BY <1>5 DEF Good, Sums

LEMMA SumIs ==
    ASSUME NEW s, Len(s) \in Nat
    PROVE  \E f : Sums(f, s) /\ Sum(s) = f[Len(s)]
  <1>1. Sums(CHOOSE f : Sums(f, s), s)
    BY SumsExist
  <1>2. Sum(s) = (CHOOSE f : Sums(f, s))[Len(s)]
    BY DEF Sum, Sums
  <1>3. QED BY <1>1, <1>2

LEMMA SumNone ==
    ASSUME NEW s, Len(s) = 0
    PROVE  Sum(s) = 0
  <1>1. PICK f : Sums(f, s) /\ Sum(s) = f[Len(s)]
    BY SumIs
  <1>2. QED BY <1>1 DEF Sums

LEMMA SumNatural ==
    ASSUME NEW s \in Seq(Nat)
    PROVE  Sum(s) \in Nat
  <1>1. PICK f : Sums(f, s) /\ Sum(s) = f[Len(s)]
    BY SumIs
  <1> DEFINE S == {n \in Nat : n <= Len(s) => f[n] \in Nat}
  <1>2. \A i \in 0..Len(s) : f[i] = IF i = 0 THEN 0 ELSE f[i - 1] + s[i]
    BY <1>1 DEF Sums
  <1>3. 0 \in S
    BY <1>2
  <1>4. ASSUME NEW n \in Nat, n \in S PROVE n + 1 \in S
    <2>1. CASE n + 1 <= Len(s)
      <3>1. f[n] \in Nat /\ s[n + 1] \in Nat /\ f[n + 1] = f[n] + s[n + 1]
        BY <1>2, <1>4, <2>1
      <3>2. QED BY <3>1
    <2>2. CASE ~(n + 1 <= Len(s))
      BY <2>2
    <2>3. QED BY <2>1, <2>2
  <1> HIDE DEF S
  <1>5. Nat \subseteq S
    BY <1>3, <1>4, Induction
  <1>6. QED BY <1>1, <1>5 DEF S

\* A list that goes one further adds up to its last number more.
LEMMA SumFurther ==
    ASSUME NEW s, NEW t, Len(s) \in Nat, Len(t) = Len(s) + 1,
           \A i \in 1..Len(s) : t[i] = s[i]
    PROVE  Sum(t) = Sum(s) + t[Len(t)]
  <1>1. PICK f : Sums(f, s) /\ Sum(s) = f[Len(s)]
    BY SumIs
  <1>2. PICK g : Sums(g, t) /\ Sum(t) = g[Len(t)]
    BY SumIs
  <1> DEFINE S == {n \in Nat : n <= Len(s) => g[n] = f[n]}
  <1>3. /\ \A i \in 0..Len(s) : f[i] = IF i = 0 THEN 0 ELSE f[i - 1] + s[i]
        /\ \A i \in 0..Len(t) : g[i] = IF i = 0 THEN 0 ELSE g[i - 1] + t[i]
    BY <1>1, <1>2 DEF Sums
  <1>4. 0 \in S
    BY <1>3
  <1>5. ASSUME NEW n \in Nat, n \in S PROVE n + 1 \in S
    BY <1>3, <1>5
  <1> HIDE DEF S
  <1>6. Nat \subseteq S
    BY <1>4, <1>5, Induction
  <1>7. g[Len(s)] = f[Len(s)]
    BY <1>6 DEF S
  <1>8. QED BY <1>1, <1>2, <1>3, <1>7

-----------------------------------------------------------------------------
\* Padding leaves at least half a second of quiet at both ends.
Quietly(s) == s \in Seq(Nat) /\ Len(s) % 2 = 1
Toned(s) == Quietly(s) /\ s[1] >= RoomToneMin /\ s[Len(s)] >= RoomToneMin

LEMMA QuietlyEnds ==
    ASSUME NEW s, Quietly(s)
    PROVE  Len(s) \in Nat /\ 1 <= Len(s) /\ 1 \in DOMAIN s /\ Len(s) \in DOMAIN s
  <1>1. Len(s) \in Nat /\ Len(s) # 0
    BY DEF Quietly
  <1>2. QED BY <1>1 DEF Quietly

LEMMA PaddingTones ==
    ASSUME NEW s, Quietly(s)
    PROVE  Toned(AddRoomTone(s))
  <1>1. s \in Seq(Nat) /\ Len(s) \in Nat /\ 1 \in DOMAIN s /\ Len(s) \in DOMAIN s
    BY QuietlyEnds DEF Quietly
  <1>2. PICK r : r = [s EXCEPT ![1] = @ + RoomToneMin]
    OBVIOUS
  <1>3. r \in Seq(Nat) /\ Len(r) = Len(s) /\ r[1] >= 5
    BY <1>1, <1>2 DEF RoomToneMin
  <1>4. PICK t : t = [r EXCEPT ![Len(s)] = @ + RoomToneMin]
    OBVIOUS
  <1>5. t \in Seq(Nat) /\ Len(t) = Len(s) /\ t[1] >= 5 /\ t[Len(s)] >= 5
    BY <1>1, <1>3, <1>4 DEF RoomToneMin
  <1>6. AddRoomTone(s) = t
    BY <1>2, <1>4 DEF AddRoomTone
  <1>7. QED BY <1>5, <1>6 DEF Toned, Quietly, RoomToneMin

\* What lies before and up to a stretch differs by its length.
LEMMA PeriodLasts ==
    ASSUME NEW s \in Seq(Nat), NEW i \in 1..Len(s)
    PROVE  /\ Sum(SubSeq(s, 1, i)) = Sum(SubSeq(s, 1, i - 1)) + s[i]
           /\ Sum(SubSeq(s, 1, i - 1)) \in Nat
  <1>1. PICK a : a = SubSeq(s, 1, i - 1)
    OBVIOUS
  <1>2. PICK b : b = SubSeq(s, 1, i)
    OBVIOUS
  <1>3. a \in Seq(Nat) /\ Len(a) = i - 1 /\ \A k \in 1..(i - 1) : a[k] = s[k]
    BY <1>1
  <1>4. Len(b) = i /\ \A k \in 1..i : b[k] = s[k]
    BY <1>2
  <1>5. Len(a) \in Nat /\ Len(b) = Len(a) + 1 /\ b[Len(b)] = s[i]
    BY <1>3, <1>4
  <1>6. \A k \in 1..Len(a) : b[k] = a[k]
    <2>1. \A k \in 1..Len(a) : k \in 1..(i - 1) /\ k \in 1..i
      BY <1>3
    <2>2. QED BY <1>3, <1>4, <2>1
  <1>7. Sum(b) = Sum(a) + b[Len(b)]
    BY <1>5, <1>6, SumFurther
  <1>8. Sum(a) \in Nat
    BY <1>3, SumNatural
  <1>9. QED BY <1>1, <1>2, <1>5, <1>7, <1>8

\* Where quiet lies, and how long each stretch of it lasts.
Finds(periods, s) ==
    /\ DOMAIN periods = {k \in 1..Len(s) : k % 2 = 1 /\ s[k] > 0}
    /\ \A i \in DOMAIN periods : /\ periods[i].start = Sum(SubSeq(s, 1, i - 1))
                                 /\ periods[i].end = Sum(SubSeq(s, 1, i))
                                 /\ periods[i].end - periods[i].start = s[i]

LEMMA SilenceFound ==
    ASSUME NEW s, Quietly(s)
    PROVE  Finds(SilencePeriods(s), s)
  <1>0. PICK periods : periods = SilencePeriods(s)
    OBVIOUS
  <1>1. s \in Seq(Nat)
    BY DEF Quietly
  <1>2. DOMAIN s = 1..Len(s)
    BY <1>1
  <1>3. /\ DOMAIN periods = {k \in 1..Len(s) : k % 2 = 1 /\ s[k] > 0}
        /\ \A i \in DOMAIN periods : /\ periods[i].start = Sum(SubSeq(s, 1, i - 1))
                                     /\ periods[i].end = Sum(SubSeq(s, 1, i))
    BY <1>0, <1>2 DEF SilencePeriods
  <1>4. ASSUME NEW i \in DOMAIN periods PROVE periods[i].end - periods[i].start = s[i]
    <2>1. i \in 1..Len(s) /\ s[i] \in Nat
      BY <1>1, <1>3
    <2>2. Sum(SubSeq(s, 1, i)) = Sum(SubSeq(s, 1, i - 1)) + s[i] /\ Sum(SubSeq(s, 1, i - 1)) \in Nat
      BY <1>1, <2>1, PeriodLasts
    <2>3. QED BY <1>3, <2>1, <2>2
  <1>5. QED BY <1>0, <1>3, <1>4 DEF Finds

LEMMA ToneJudged ==
    ASSUME NEW ch, Toned(ch.sound)
    PROVE  CheckRoomTone(ch).passed <=> /\ ch.sound[1] <= RoomToneMax
                                        /\ ch.sound[Len(ch.sound)] <= RoomToneMax
  <1>1. PICK s : s = ch.sound
    OBVIOUS
  <1>2. PICK periods : periods = SilencePeriods(s)
    OBVIOUS
  <1>3. Toned(s) /\ Quietly(s)
    BY <1>1 DEF Toned
  <1>4. PICK n : n = Len(s)
    OBVIOUS
  <1>5. /\ s \in Seq(Nat) /\ n \in Nat /\ 1 <= n /\ n % 2 = 1
        /\ s[1] \in Nat /\ s[n] \in Nat /\ s[1] >= 5 /\ s[n] >= 5
    BY <1>3, <1>4, QuietlyEnds DEF Toned, Quietly, RoomToneMin
  <1>6. /\ DOMAIN periods = {k \in 1..n : k % 2 = 1 /\ s[k] > 0}
        /\ \A i \in DOMAIN periods : /\ periods[i].start = Sum(SubSeq(s, 1, i - 1))
                                     /\ periods[i].end = Sum(SubSeq(s, 1, i))
                                     /\ periods[i].end - periods[i].start = s[i]
    <2>1. Finds(periods, s)
      BY <1>2, <1>3, SilenceFound
    <2>2. QED BY <1>4, <2>1 DEF Finds
  <1>7. 1 \in DOMAIN periods /\ n \in DOMAIN periods
    <2>1. 1 % 2 = 1 /\ 1 \in 1..n /\ n \in 1..n /\ s[1] > 0 /\ s[n] > 0
      BY <1>5
    <2>2. QED BY <1>5, <1>6, <2>1
  <1>8. \A i \in DOMAIN periods : i \in Nat /\ 1 <= i /\ i <= n
    BY <1>5, <1>6
  <1>9. periods[1].start = 0
    <2>1. Len(SubSeq(s, 1, 1 - 1)) = 0
      BY <1>5
    <2>2. Sum(SubSeq(s, 1, 1 - 1)) = 0
      BY <2>1, SumNone
    <2>3. QED BY <1>6, <1>7, <2>2
  <1>10. PICK d : d = Duration(ch)
    OBVIOUS
  <1>11. d \in Nat /\ periods[n].end = d /\ d >= 5
    <2>1. SubSeq(s, 1, n) = s
      BY <1>4, <1>5
    <2>2. Sum(s) \in Nat /\ d = Sum(s)
      BY <1>1, <1>5, <1>10, SumNatural DEF Duration
    <2>3. n \in 1..Len(s)
      BY <1>4, <1>5
    <2>4. Sum(SubSeq(s, 1, n)) = Sum(SubSeq(s, 1, n - 1)) + s[n] /\ Sum(SubSeq(s, 1, n - 1)) \in Nat
      BY <1>5, <2>3, PeriodLasts
    <2>5. periods[n].end = Sum(SubSeq(s, 1, n))
      BY <1>6, <1>7
    <2>6. Sum(s) >= 5
      <3>1. PICK x : x = Sum(SubSeq(s, 1, n - 1))
        OBVIOUS
      <3>2. x \in Nat /\ Sum(s) = x + s[n]
        BY <2>1, <2>4, <3>1
      <3>3. QED BY <1>5, <3>2
    <2>7. QED BY <2>1, <2>2, <2>5, <2>6
  <1>12. PICK head : head = {i \in DOMAIN periods : /\ periods[i].start <= 1
                                                    /\ \A k \in DOMAIN periods : i <= k}
    OBVIOUS
  <1>13. PICK tail : tail = {i \in DOMAIN periods : /\ periods[i].end >= d - 1
                                                    /\ \A k \in DOMAIN periods : k <= i}
    OBVIOUS
  <1>14. head = {1}
    <2>1. 1 \in head
      BY <1>7, <1>8, <1>9, <1>12
    <2>2. \A i \in head : i = 1
      BY <1>7, <1>8, <1>12
    <2>3. QED BY <2>1, <2>2
  <1>15. tail = {n}
    <2>1. n \in tail
      BY <1>7, <1>8, <1>11, <1>13
    <2>2. \A i \in tail : i = n
      BY <1>5, <1>7, <1>8, <1>13
    <2>3. QED BY <2>1, <2>2
  <1>16. (ToneOk(periods, head) <=> s[1] <= RoomToneMax) /\ (ToneOk(periods, tail) <=> s[n] <= RoomToneMax)
    <2>1. (periods[1].end - periods[1].start) = s[1] /\ (periods[n].end - periods[n].start) = s[n]
      BY <1>6, <1>7
    <2>2. (s[1] \in 5..10 <=> s[1] <= 10) /\ (s[n] \in 5..10 <=> s[n] <= 10)
      <3>1. \A x \in Nat : x >= 5 => (x \in 5..10 <=> x <= 10)
        OBVIOUS
      <3>2. QED BY <1>5, <3>1
    <2>3. QED BY <1>14, <1>15, <2>1, <2>2 DEF ToneOk, RoomToneMin, RoomToneMax
  <1>17. CheckRoomTone(ch) = IF ToneOk(periods, head) /\ ToneOk(periods, tail)
                             THEN Check("room_tone", TRUE, "none") ELSE Blocked("room_tone")
    <2>1. ~(d < RoomToneMin)
      BY <1>11 DEF RoomToneMin
    <2>2. QED BY <1>1, <1>2, <1>10, <1>12, <1>13, <2>1, Zenon DEF CheckRoomTone
  <1>18. QED BY <1>1, <1>4, <1>16, <1>17 DEF Check, Blocked

-----------------------------------------------------------------------------
\* The first k chapters together.
Lead(book, k) == Sum([j \in 1..k |-> Duration(book[j])])
Quiet(book) == book \in Seq(Levels) /\ \A i \in DOMAIN book : Quietly(book[i].sound)
AllToned(book) == \A i \in DOMAIN book : Toned(book[i].sound)
\* The markers so far lie end to end from the start of the book.
Marked(atoms, book) ==
    /\ atoms \in Seq([index : Nat, start : Nat, end : Nat]) /\ Len(atoms) <= Len(book)
    /\ \A i \in DOMAIN atoms : atoms[i].start = Lead(book, i - 1) /\ atoms[i].end = Lead(book, i)

Narrating == {"idle", "narrated", "padded", "plain"}
Packaging == {"transcode", "markers", "metadata", "done"}
MasteringInv ==
    /\ MasteringTypeOK /\ Quiet(maBook) /\ Marked(maAtoms, maBook)
    /\ maPc = "padded" => AllToned(maBook)
    /\ maPc \in Narrating => maAtoms = <<>>
    /\ maPc \in Narrating \union {"probe", "failed"} => maTemp = {}
    /\ maPc \in Packaging \union {"probe"} => maBook # <<>>
    /\ maPc \in Packaging => Len(maAtoms) = Len(maBook)

LEMMA NarratedQuiet ==
    ASSUME NEW book \in Narrations
    PROVE  Quiet(book)
  <1>1. book \in Seq(Levels) /\ \A i \in DOMAIN book : Len(book[i].sound) % 2 = 1
    BY MasteringAssumption
  <1>2. ASSUME NEW i \in DOMAIN book PROVE book[i].sound \in Seq(Nat)
    <2>1. book[i] \in Levels
      BY <1>1
    <2>2. QED BY <2>1 DEF Levels
  <1>3. QED BY <1>1, <1>2 DEF Quiet, Quietly

PaddedBook(book) == [i \in DOMAIN book |-> [book[i] EXCEPT !.sound = AddRoomTone(@)]]
LEMMA PaddedQuiet ==
    ASSUME NEW book, Quiet(book), NEW padded, padded = PaddedBook(book)
    PROVE  Quiet(padded) /\ AllToned(padded) /\ Len(padded) = Len(book)
  <1>1. book \in Seq(Levels) /\ \A i \in DOMAIN book : Quietly(book[i].sound)
    BY DEF Quiet
  <1>2. ASSUME NEW ch \in Levels, Quietly(ch.sound), NEW new, new = [ch EXCEPT !.sound = AddRoomTone(@)]
        PROVE  new \in Levels /\ new.sound = AddRoomTone(ch.sound) /\ Toned(new.sound)
    <2>1. PICK tone : tone = AddRoomTone(ch.sound)
      OBVIOUS
    <2>2. Toned(tone) /\ tone \in Seq(Nat)
      BY <1>2, <2>1, PaddingTones DEF Toned, Quietly
    <2>3. new = [ch EXCEPT !.sound = tone]
      BY <1>2, <2>1
    <2>4. new \in Levels /\ new.sound = tone
      BY <2>2, <2>3 DEF Levels
    <2>5. QED BY <2>1, <2>2, <2>4
  <1>3. ASSUME NEW i \in DOMAIN book PROVE padded[i] \in Levels /\ Toned(padded[i].sound)
    <2>1. book[i] \in Levels /\ Quietly(book[i].sound)
      BY <1>1
    <2>2. padded[i] = [book[i] EXCEPT !.sound = AddRoomTone(@)]
      BY DEF PaddedBook
    <2>3. QED BY <1>2, <2>1, <2>2
  <1>4. /\ DOMAIN book = 1..Len(book) /\ Len(book) \in Nat
        /\ DOMAIN padded = DOMAIN book /\ padded = [i \in DOMAIN padded |-> padded[i]]
    BY <1>1 DEF PaddedBook
  <1>5. padded \in Seq(Levels) /\ Len(padded) = Len(book)
    <2>1. PICK n : n = Len(book)
      OBVIOUS
    <2>2. padded = [i \in 1..n |-> padded[i]] /\ n \in Nat
      BY <1>4, <2>1
    <2>3. \A i \in 1..n : padded[i] \in Levels
      BY <1>3, <1>4, <2>1
    <2>4. QED BY <2>1, <2>2, <2>3
  <1>6. QED BY <1>3, <1>4, <1>5 DEF Quiet, AllToned, Toned

LEMMA DurationNatural ==
    ASSUME NEW book, Quiet(book), NEW i \in DOMAIN book
    PROVE  Duration(book[i]) \in Nat
  <1>1. book[i].sound \in Seq(Nat)
    BY DEF Quiet, Quietly
  <1>2. QED BY <1>1, SumNatural DEF Duration

LEMMA LeadGrows ==
    ASSUME NEW book, Quiet(book), NEW k \in 1..Len(book)
    PROVE  /\ Lead(book, k - 1) \in Nat
           /\ Lead(book, k) = Lead(book, k - 1) + Duration(book[k])
  <1>1. book \in Seq(Levels)
    BY DEF Quiet
  <1>2. DOMAIN book = 1..Len(book) /\ Len(book) \in Nat
    BY <1>1
  <1>3. PICK a : a = [j \in 1..(k - 1) |-> Duration(book[j])]
    OBVIOUS
  <1>4. PICK b : b = [j \in 1..k |-> Duration(book[j])]
    OBVIOUS
  <1>5. \A j \in 1..k : Duration(book[j]) \in Nat
    BY <1>2, DurationNatural
  <1>6. a \in Seq(Nat) /\ Len(a) = k - 1
    BY <1>2, <1>3, <1>5
  <1>7. Len(b) = k /\ b[k] = Duration(book[k]) /\ \A j \in 1..Len(a) : b[j] = a[j]
    BY <1>2, <1>3, <1>4, <1>5, <1>6
  <1>8. Len(a) \in Nat /\ Len(b) = Len(a) + 1
    BY <1>6, <1>7
  <1>9. Sum(b) = Sum(a) + b[Len(b)]
    BY <1>7, <1>8, SumFurther
  <1>10. Sum(a) \in Nat
    BY <1>6, SumNatural
  <1>11. QED BY <1>3, <1>4, <1>7, <1>9, <1>10 DEF Lead

LEMMA LeadStarts ==
    ASSUME NEW book
    PROVE  Lead(book, 0) = 0
  <1>1. Len([j \in 1..0 |-> Duration(book[j])]) = 0
    OBVIOUS
  <1>2. QED BY <1>1, SumNone DEF Lead

\* The next marker goes where the last one ends.
LEMMA PlacedMarked ==
    ASSUME NEW atoms, NEW book, Quiet(book), Marked(atoms, book), Len(atoms) < Len(book)
    PROVE  Marked(Placed(atoms, book[Len(atoms) + 1]), book)
  <1> DEFINE Marker == [index : Nat, start : Nat, end : Nat]
  <1>1. /\ book \in Seq(Levels) /\ atoms \in Seq(Marker)
        /\ \A i \in DOMAIN atoms : atoms[i].start = Lead(book, i - 1) /\ atoms[i].end = Lead(book, i)
    BY DEF Quiet, Marked
  <1>2. PICK n : n = Len(atoms)
    OBVIOUS
  <1>3. n \in Nat /\ n + 1 \in 1..Len(book) /\ Len(book) \in Nat /\ DOMAIN atoms = 1..n
    BY <1>1, <1>2
  <1>4. PICK from : from = IF atoms = <<>> THEN 0 ELSE Last(atoms).end
    OBVIOUS
  <1>5. from = Lead(book, n)
    <2>1. CASE atoms = <<>>
      BY <1>2, <1>4, <2>1, LeadStarts
    <2>2. CASE atoms # <<>>
      <3>1. n \in DOMAIN atoms
        BY <1>1, <1>2, <1>3, <2>2
      <3>2. Last(atoms).end = Lead(book, n)
        BY <1>1, <1>2, <3>1 DEF Last
      <3>3. QED BY <1>4, <2>2, <3>2
    <2>3. QED BY <2>1, <2>2
  <1>6. PICK d : d = Duration(book[n + 1])
    OBVIOUS
  <1>7. from \in Nat /\ d \in Nat /\ from + d = Lead(book, n + 1)
    <2>1. Lead(book, n + 1) = Lead(book, (n + 1) - 1) + Duration(book[n + 1])
      BY <1>3, LeadGrows
    <2>2. Lead(book, (n + 1) - 1) \in Nat
      BY <1>3, LeadGrows
    <2>3. (n + 1) - 1 = n
      BY <1>3
    <2>4. n + 1 \in DOMAIN book
      BY <1>1, <1>3
    <2>5. d \in Nat
      BY <1>6, <2>4, DurationNatural
    <2>6. QED BY <1>5, <1>6, <2>1, <2>2, <2>3, <2>5
  <1>8. PICK m : m = [index |-> n, start |-> from, end |-> from + d]
    OBVIOUS
  <1>9. m \in Marker /\ m.start = from /\ m.end = from + d
    BY <1>3, <1>7, <1>8
  <1>10. PICK new : new = Append(atoms, m)
    OBVIOUS
  <1>11. Placed(atoms, book[Len(atoms) + 1]) = new
    BY <1>2, <1>4, <1>6, <1>8, <1>10 DEF Placed
  <1>12. /\ new \in Seq(Marker) /\ Len(new) = n + 1 /\ DOMAIN new = 1..(n + 1) /\ new[n + 1] = m
         /\ \A i \in 1..n : new[i] = atoms[i]
    <2> HIDE DEF Marker
    <2>1. QED BY <1>1, <1>2, <1>9, <1>10
  <1>13. ASSUME NEW i \in DOMAIN new
         PROVE  new[i].start = Lead(book, i - 1) /\ new[i].end = Lead(book, i)
    <2>1. CASE i = n + 1
      <3>1. i - 1 = n /\ new[i] = m
        BY <1>3, <1>12, <2>1
      <3>2. QED BY <1>5, <1>7, <1>9, <2>1, <3>1
    <2>2. CASE i # n + 1
      <3>1. i \in 1..n
        BY <1>3, <1>12, <2>2
      <3>2. QED BY <1>1, <1>3, <1>12, <3>1
    <2>3. QED BY <2>1, <2>2
  <1>14. Len(new) <= Len(book)
    BY <1>3, <1>12
  <1>15. QED BY <1>11, <1>12, <1>13, <1>14 DEF Marked

LEMMA NoneMarked ==
    ASSUME NEW book, Quiet(book)
    PROVE  Marked(<<>>, book)
  <1>1. Len(book) \in Nat
    BY DEF Quiet
  <1>2. QED BY <1>1 DEF Marked

LEMMA MasteringStarts == MasteringInit => MasteringInv
  <1> SUFFICES ASSUME MasteringInit PROVE MasteringInv
    OBVIOUS
  <1>1. Quiet(maBook)
    BY DEF MasteringInit, Quiet
  <1>2. Marked(maAtoms, maBook)
    BY <1>1, NoneMarked DEF MasteringInit
  <1>3. QED BY <1>1, <1>2 DEF MasteringInit, MasteringInv, MasteringTypeOK, Narrating, Packaging

LEMMA MasteringStep == MasteringInv /\ [MasteringNext]_masteringVars => MasteringInv'
  <1> SUFFICES ASSUME MasteringInv, [MasteringNext]_masteringVars PROVE MasteringInv'
    OBVIOUS
  <1> USE DEF MasteringInv
  <1>1. ASSUME NEW book \in Narrations, Narrate(book) PROVE MasteringInv'
    <2>1. maAtoms' = <<>> /\ maTemp' = {} /\ maPc' = "narrated" /\ maBook' = book
      BY <1>1 DEF Narrate, Narrating
    <2>2. Quiet(maBook')
      BY <2>1, NarratedQuiet
    <2>3. Marked(maAtoms', maBook')
      BY <2>1, <2>2, NoneMarked
    <2>4. QED BY <2>1, <2>2, <2>3 DEF MasteringTypeOK, Narrating, Packaging
  <1>2. ASSUME NEW pad \in BOOLEAN, PostProcess(pad) PROVE MasteringInv'
    <2>1. /\ maAtoms' = <<>> /\ maTemp' = {} /\ maPc' = IF pad THEN "padded" ELSE "plain"
          /\ maBook' = IF pad THEN [i \in DOMAIN maBook |-> [maBook[i] EXCEPT !.sound = AddRoomTone(@)]]
                       ELSE maBook
      BY <1>2 DEF PostProcess, Narrating
    <2>2. Quiet(maBook') /\ (maPc' = "padded" => AllToned(maBook'))
      <3>1. CASE pad
        BY <2>1, <3>1, PaddedQuiet DEF PaddedBook
      <3>2. CASE ~pad
        BY <2>1, <3>2
      <3>3. QED BY <3>1, <3>2
    <2>3. Marked(maAtoms', maBook')
      BY <2>1, <2>2, NoneMarked
    <2>4. maPc' \in {"padded", "plain"}
      BY <2>1
    <2>5. QED BY <2>1, <2>2, <2>3, <2>4 DEF MasteringTypeOK, Narrating, Packaging
  <1>3. ASSUME CheckBook PROVE MasteringInv'
    BY <1>3 DEF CheckBook, MasteringTypeOK, Narrating, Packaging
  <1>4. ASSUME ListChapters PROVE MasteringInv'
    BY <1>4 DEF ListChapters, Goes, MasteringTypeOK, Narrating, Packaging
  <1>5. ASSUME CleanUp PROVE MasteringInv'
    BY <1>5 DEF CleanUp, MasteringTypeOK, Narrating, Packaging
  <1>6. ASSUME NEW titles \in 0..3, AssembleM4b(titles) PROVE MasteringInv'
    BY <1>6 DEF AssembleM4b, Goes, MasteringTypeOK, Narrating, Packaging
  <1>7. ASSUME NEW ok \in BOOLEAN, ProbeChapter(ok) PROVE MasteringInv'
    <2>1. Marked(maAtoms', maBook)
      BY <1>7, PlacedMarked DEF ProbeChapter
    <2>2. maBook' = maBook /\ maTemp' = {} /\ maPc' \in {"probe", "failed"} /\ maBook # <<>>
      BY <1>7 DEF ProbeChapter, Goes
    <2>3. QED BY <2>1, <2>2 DEF MasteringTypeOK, Narrating, Packaging
  <1>8. ASSUME NEW ok \in BOOLEAN, Transcode(ok) PROVE MasteringInv'
    BY <1>8 DEF Transcode, Goes, MasteringTypeOK, Narrating, Packaging
  <1>9. ASSUME NEW ok \in BOOLEAN, EmbedChapterMarkers(ok) PROVE MasteringInv'
    BY <1>9 DEF EmbedChapterMarkers, Goes, MasteringTypeOK, Narrating, Packaging
  <1>10. ASSUME NEW ok \in BOOLEAN, EmbedMetadata(ok) PROVE MasteringInv'
    BY <1>10 DEF EmbedMetadata, Goes, MasteringTypeOK, Narrating, Packaging
  <1>11. CASE UNCHANGED masteringVars
    BY <1>11 DEF masteringVars, MasteringTypeOK
  <1>12. QED
    BY <1>1, <1>2, <1>3, <1>4, <1>5, <1>6, <1>7, <1>8, <1>9, <1>10, <1>11 DEF MasteringNext

LEMMA MasteringWhole == MasteringInv => MasteredWhole
  <1> SUFFICES ASSUME MasteringInv PROVE MasteredWhole
    OBVIOUS
  <1>1. PaddedToneJudged
    <2> SUFFICES ASSUME maPc = "padded", NEW i \in DOMAIN maBook
                 PROVE  CheckRoomTone(maBook[i]).passed
                        <=> /\ maBook[i].sound[1] - RoomToneMin <= RoomToneMax - RoomToneMin
                            /\ maBook[i].sound[Len(maBook[i].sound)] - RoomToneMin
                               <= RoomToneMax - RoomToneMin
      BY Zenon DEF PaddedToneJudged
    <2>1. PICK ch : ch = maBook[i]
      OBVIOUS
    <2>2. Toned(ch.sound) /\ Quietly(ch.sound)
      BY <2>1 DEF MasteringInv, AllToned, Toned
    <2>3. ch.sound[1] \in Nat /\ ch.sound[Len(ch.sound)] \in Nat
      <3>1. PICK s : s = ch.sound
        OBVIOUS
      <3>2. Quietly(s) /\ s \in Seq(Nat)
        BY <2>2, <3>1 DEF Quietly
      <3>3. 1 \in DOMAIN s /\ Len(s) \in DOMAIN s
        BY <3>2, QuietlyEnds
      <3>4. QED BY <3>1, <3>2, <3>3
    <2>4. CheckRoomTone(ch).passed <=> ch.sound[1] <= RoomToneMax /\ ch.sound[Len(ch.sound)] <= RoomToneMax
      BY <2>2, ToneJudged
    <2>5. \A x \in Nat : x <= 10 <=> x - 5 <= 10 - 5
      OBVIOUS
    <2>6. QED BY <2>1, <2>3, <2>4, <2>5 DEF RoomToneMin, RoomToneMax
  <1>2. AssemblyWhole
    <2>1. maPc = "failed" => maTemp = {}
      BY DEF MasteringInv
    <2>2. SUFFICES ASSUME maPc \in Packaging
                   PROVE  /\ Len(maAtoms) = Len(maBook)
                          /\ \A i \in DOMAIN maAtoms :
                               /\ maAtoms[i].start = Sum([j \in 1..(i - 1) |-> Duration(maBook[j])])
                               /\ maAtoms[i].end - maAtoms[i].start = Duration(maBook[i])
                          /\ Last(maAtoms).end = Sum([j \in DOMAIN maBook |-> Duration(maBook[j])])
      BY <2>1 DEF AssemblyWhole, Packaging
    <2>3. /\ maBook \in Seq(Levels) /\ Quiet(maBook) /\ maBook # <<>> /\ Len(maAtoms) = Len(maBook)
          /\ maAtoms \in Seq([index : Nat, start : Nat, end : Nat])
          /\ \A i \in DOMAIN maAtoms : /\ maAtoms[i].start = Lead(maBook, i - 1)
                                       /\ maAtoms[i].end = Lead(maBook, i)
      BY <2>2 DEF MasteringInv, Quiet, Marked
    <2>4. PICK n : n = Len(maBook)
      OBVIOUS
    <2>5. n \in Nat /\ n # 0 /\ DOMAIN maBook = 1..n /\ DOMAIN maAtoms = 1..n
      BY <2>3, <2>4
    <2>6. ASSUME NEW i \in DOMAIN maAtoms
          PROVE  /\ maAtoms[i].start = Sum([j \in 1..(i - 1) |-> Duration(maBook[j])])
                 /\ maAtoms[i].end - maAtoms[i].start = Duration(maBook[i])
      <3>1. i \in 1..Len(maBook) /\ i \in DOMAIN maBook
        BY <2>4, <2>5
      <3>2. Lead(maBook, i) = Lead(maBook, i - 1) + Duration(maBook[i]) /\ Lead(maBook, i - 1) \in Nat
        BY <2>3, <3>1, LeadGrows
      <3>3. Duration(maBook[i]) \in Nat
        BY <2>3, <3>1, DurationNatural
      <3>4. maAtoms[i].end - maAtoms[i].start = Duration(maBook[i])
        BY <2>3, <3>2, <3>3
      <3>5. maAtoms[i].start = Sum([j \in 1..(i - 1) |-> Duration(maBook[j])])
        BY <2>3, Zenon DEF Lead
      <3>6. QED BY <3>4, <3>5
    <2>7. Last(maAtoms).end = Sum([j \in DOMAIN maBook |-> Duration(maBook[j])])
      <3>1. n \in DOMAIN maAtoms /\ Last(maAtoms) = maAtoms[n]
        BY <2>3, <2>4, <2>5 DEF Last
      <3>2. Last(maAtoms).end = Lead(maBook, n)
        BY <2>3, <3>1
      <3>3. QED BY <2>5, <3>2 DEF Lead
    <2>8. QED BY <2>3, <2>6, <2>7
  <1>3. QED BY <1>1, <1>2 DEF MasteredWhole

\* For every book and every way an ffmpeg step may fail, padding makes the
\* room tone of a spoken chapter pass exactly when the narration opens and
\* closes with at most half a second of quiet, a finished book is marked end
\* to end, chapter by chapter, and a failed assembly leaves no temporary file
\* (add_room_tone, check_room_tone, assemble_m4b).
THEOREM BooksAreMastered == MasteringSpec => []MasteredWhole
  <1>1. MasteringSpec => []MasteringInv
    BY MasteringStarts, MasteringStep, PTL DEF MasteringSpec
  <1>2. QED BY <1>1, MasteringWhole, PTL

-----------------------------------------------------------------------------
(* The catalog.  Where no two voices share a name there is one order to list   *)
(* them in, so the pages of a walk fit together.                               *)

Named(S) == IsFiniteSet(S) /\ \A v \in S : NameOf(v) \in Int
Apart(S) == \A v, w \in S : NameOf(v) = NameOf(w) => v = w
\* The first n of a list, or all of it.
Upto(n, q) == IF n < Len(q) THEN n ELSE Len(q)
First(q, n) == SubSeq(q, 1, Upto(n, q))

LEMMA OrderProperties ==
    ASSUME NEW S, Named(S), NEW q \in Orders(S)
    PROVE  /\ Cardinality(S) \in Nat /\ q \in Seq(S) /\ Len(q) = Cardinality(S)
           /\ DOMAIN q = 1..Cardinality(S) /\ \A i \in DOMAIN q : q[i] \in S
           /\ \A v \in S : \E i \in DOMAIN q : q[i] = v
           /\ \A i, j \in DOMAIN q : i < j => q[i] # q[j] /\ NameOf(q[i]) <= NameOf(q[j])
  <1>1. PICK n \in Nat : n = Cardinality(S)
    BY FS_CardinalityType DEF Named
  <1>2. q \in Bijection(1..n, S) /\ \A i, j \in DOMAIN q : i < j => NameOf(q[i]) <= NameOf(q[j])
    BY <1>1 DEF Orders
  <1>3. /\ q \in [1..n -> S] /\ \A i, j \in 1..n : q[i] = q[j] => i = j
        /\ \A v \in S : \E i \in 1..n : q[i] = v
    BY <1>2 DEF Bijection, Injection, Surjection, IsInjective
  <1>4. q \in Seq(S) /\ Len(q) = n
    BY <1>3
  <1>5. QED BY <1>1, <1>2, <1>3, <1>4

LEMMA OrderRange ==
    ASSUME NEW S, Named(S), NEW q \in Orders(S)
    PROVE  q \in Seq(S) /\ Len(q) = Cardinality(S) /\ Len(q) \in Nat /\ Range(q) = S
  <1>1. Range(q) = S
    BY OrderProperties DEF Range
  <1>2. QED BY <1>1, OrderProperties

LEMMA ConcatAt ==
    ASSUME NEW V, NEW p \in Seq(V), NEW q \in Seq(V)
    PROVE  /\ p \o q \in Seq(V) /\ Len(p \o q) = Len(p) + Len(q)
           /\ \A i \in 1..(Len(p) + Len(q)) : (p \o q)[i] = IF i <= Len(p) THEN p[i] ELSE q[i - Len(p)]
  OBVIOUS

LEMMA RangeConcat ==
    ASSUME NEW V, NEW p \in Seq(V), NEW q \in Seq(V)
    PROVE  p \o q \in Seq(V) /\ Len(p \o q) = Len(p) + Len(q) /\ Range(p \o q) = Range(p) \union Range(q)
  <1>1. PICK m, n, s : m = Len(p) /\ n = Len(q) /\ s = p \o q
    OBVIOUS
  <1>2. /\ m \in Nat /\ n \in Nat /\ DOMAIN p = 1..m /\ DOMAIN q = 1..n
        /\ s \in Seq(V) /\ DOMAIN s = 1..(m + n) /\ Len(s) = m + n
    BY <1>1
  <1>3. \A i \in 1..(m + n) : s[i] = IF i <= m THEN p[i] ELSE q[i - m]
    BY <1>1, <1>2
  <1>4. ASSUME NEW i \in 1..(m + n) PROVE s[i] \in Range(p) \union Range(q)
    <2>1. CASE i <= m
      <3>1. i \in 1..m /\ s[i] = p[i]
        BY <1>2, <1>3, <2>1
      <3>2. QED BY <1>2, <3>1 DEF Range
    <2>2. CASE ~(i <= m)
      <3>1. i - m \in 1..n /\ s[i] = q[i - m]
        BY <1>2, <1>3, <2>2
      <3>2. QED BY <1>2, <3>1 DEF Range
    <2>3. QED BY <2>1, <2>2
  <1>5. ASSUME NEW i \in 1..m PROVE p[i] \in Range(s)
    <2>1. i \in 1..(m + n) /\ s[i] = p[i]
      BY <1>2, <1>3
    <2>2. QED BY <1>2, <2>1 DEF Range
  <1>6. ASSUME NEW i \in 1..n PROVE q[i] \in Range(s)
    <2>1. m + i \in 1..(m + n) /\ s[m + i] = q[i]
      BY <1>2, <1>3
    <2>2. QED BY <1>2, <2>1 DEF Range
  <1>7. Range(s) = Range(p) \union Range(q)
    BY <1>2, <1>4, <1>5, <1>6 DEF Range
  <1>8. QED BY <1>1, <1>2, <1>7

\* Two lists of voices whose names differ first differ nowhere.
LEMMA OneOrder ==
    ASSUME NEW S, Named(S), Apart(S), NEW q \in Orders(S), NEW r \in Orders(S)
    PROVE  q = r
  <1> DEFINE T == {i \in DOMAIN q : q[i] # r[i]}
  <1>1. PICK n \in Nat : n = Cardinality(S)
    BY OrderProperties
  <1>2. /\ DOMAIN q = 1..n /\ q \in Seq(S) /\ Len(q) = n /\ \A i \in 1..n : q[i] \in S
        /\ \A v \in S : \E i \in 1..n : q[i] = v
        /\ \A i, j \in 1..n : i < j => q[i] # q[j] /\ NameOf(q[i]) <= NameOf(q[j])
    <2>1. /\ q \in Seq(S) /\ Len(q) = Cardinality(S) /\ DOMAIN q = 1..Cardinality(S)
          /\ \A i \in DOMAIN q : q[i] \in S
          /\ \A v \in S : \E i \in DOMAIN q : q[i] = v
          /\ \A i, j \in DOMAIN q : i < j => q[i] # q[j] /\ NameOf(q[i]) <= NameOf(q[j])
      BY OrderProperties
    <2>2. DOMAIN q = 1..n
      BY <1>1, <2>1
    <2>3. QED BY <1>1, <2>1, <2>2, Zenon
  <1>3. /\ DOMAIN r = 1..n /\ r \in Seq(S) /\ Len(r) = n /\ \A i \in 1..n : r[i] \in S
        /\ \A v \in S : \E i \in 1..n : r[i] = v
        /\ \A i, j \in 1..n : i < j => r[i] # r[j] /\ NameOf(r[i]) <= NameOf(r[j])
    <2>1. /\ r \in Seq(S) /\ Len(r) = Cardinality(S) /\ DOMAIN r = 1..Cardinality(S)
          /\ \A i \in DOMAIN r : r[i] \in S
          /\ \A v \in S : \E i \in DOMAIN r : r[i] = v
          /\ \A i, j \in DOMAIN r : i < j => r[i] # r[j] /\ NameOf(r[i]) <= NameOf(r[j])
      BY OrderProperties
    <2>2. DOMAIN r = 1..n
      BY <1>1, <2>1
    <2>3. QED BY <1>1, <2>1, <2>2, Zenon
  <1>4. ASSUME T # {} PROVE FALSE
    <2>1. T \in SUBSET Nat
      BY <1>2
    <2>2. PICK k \in T : \A i \in T : k <= i
      BY <1>4, <2>1, Least
    <2>3. k \in 1..n /\ q[k] # r[k] /\ \A i \in 1..n : i < k => q[i] = r[i]
      BY <1>2, <2>1, <2>2
    <2>4. PICK m \in 1..n : r[m] = q[k]
      BY <1>2, <1>3, <2>3
    <2>5. PICK l \in 1..n : q[l] = r[k]
      BY <1>2, <1>3, <2>3
    <2>6. m > k
      <3>1. m # k
        BY <2>3, <2>4
      <3>2. ~(m < k)
        BY <1>2, <2>3, <2>4
      <3>3. QED BY <2>3, <3>1, <3>2
    <2>7. l > k
      <3>1. l # k
        BY <2>3, <2>5
      <3>2. ~(l < k)
        BY <1>3, <2>3, <2>5
      <3>3. QED BY <2>3, <3>1, <3>2
    <2>8. NameOf(r[k]) <= NameOf(r[m])
      BY <1>3, <2>3, <2>6
    <2>9. NameOf(q[k]) <= NameOf(q[l])
      BY <1>2, <2>3, <2>7
    <2>10. NameOf(q[k]) \in Int /\ NameOf(r[k]) \in Int
      BY <1>2, <1>3, <2>3 DEF Named
    <2>11. NameOf(q[k]) = NameOf(r[k])
      BY <2>4, <2>5, <2>8, <2>9, <2>10
    <2>12. q[k] \in S /\ r[k] \in S
      BY <1>2, <1>3, <2>3
    <2>13. QED BY <2>3, <2>11, <2>12 DEF Apart
  <1>5. \A i \in 1..n : q[i] = r[i]
    BY <1>2, <1>4
  <1>6. QED BY <1>2, <1>3, <1>5

LEMMA FirstProperties ==
    ASSUME NEW S, NEW q \in Seq(S), NEW n \in Nat
    PROVE  /\ Upto(n, q) \in 0..Len(q) /\ First(q, n) \in Seq(S) /\ Len(First(q, n)) = Upto(n, q)
           /\ \A i \in 1..Upto(n, q) : First(q, n)[i] = q[i]
  <1>1. PICK k : k = Upto(n, q)
    OBVIOUS
  <1>2. k \in 0..Len(q)
    BY <1>1 DEF Upto
  <1>3. \A i \in 1..k : q[i] \in S
    BY <1>2
  <1>4. /\ SubSeq(q, 1, k) \in Seq(S) /\ Len(SubSeq(q, 1, k)) = k
        /\ \A i \in 1..k : SubSeq(q, 1, k)[i] = q[i]
    BY <1>2, <1>3, SubSeqProperties
  <1>5. QED BY <1>1, <1>2, <1>4 DEF First

\* A page is what comes after the pages before it.
LEMMA PageProperties ==
    ASSUME NEW S, NEW q \in Seq(S), NEW page \in Nat, NEW per \in Nat \ {0}, NEW n \in Nat, n = page * per
    PROVE  /\ n + per = (page + 1) * per /\ Slice(q, page + 1, per) \in Seq(S)
           /\ Len(Slice(q, page + 1, per)) = Upto(n + per, q) - Upto(n, q)
           /\ \A i \in 1..(Upto(n + per, q) - Upto(n, q)) :
                 Slice(q, page + 1, per)[i] = q[Upto(n, q) + i]
  <1>1. n + per = (page + 1) * per /\ ((page + 1) - 1) * per = n
    OBVIOUS
  <1>2. PICK up : up = Upto(n + per, q)
    OBVIOUS
  <1>3. up \in 0..Len(q) /\ up = IF n + per < Len(q) THEN n + per ELSE Len(q)
    BY <1>2 DEF Upto
  <1>4. Slice(q, page + 1, per) = SubSeq(q, n + 1, up)
    BY <1>1, <1>3 DEF Slice
  <1>5. \A i \in (n + 1)..up : q[i] \in S
    BY <1>3
  <1>6. /\ SubSeq(q, n + 1, up) \in Seq(S)
        /\ Len(SubSeq(q, n + 1, up)) = IF n + 1 <= up THEN up - (n + 1) + 1 ELSE 0
        /\ \A i \in 1..(up - (n + 1) + 1) : SubSeq(q, n + 1, up)[i] = q[(n + 1) + i - 1]
    BY <1>3, <1>5, SubSeqProperties
  <1>7. PICK low : low = Upto(n, q)
    OBVIOUS
  <1>8. low = IF n < Len(q) THEN n ELSE Len(q)
    BY <1>7 DEF Upto
  <1>9. CASE n < Len(q)
    <2>1. low = n /\ n + 1 <= up
      BY <1>3, <1>8, <1>9
    <2>2. Len(SubSeq(q, n + 1, up)) = up - low
      BY <1>3, <1>6, <2>1
    <2>3. ASSUME NEW i \in 1..(up - low) PROVE SubSeq(q, n + 1, up)[i] = q[low + i]
      <3>1. i \in 1..(up - (n + 1) + 1) /\ (n + 1) + i - 1 = low + i
        BY <1>3, <2>1
      <3>2. QED BY <1>6, <3>1
    <2>4. QED BY <1>1, <1>2, <1>4, <1>6, <1>7, <2>2, <2>3
  <1>10. CASE ~(n < Len(q))
    <2>1. low = Len(q) /\ up = Len(q) /\ ~(n + 1 <= up)
      BY <1>3, <1>8, <1>10
    <2>2. Len(SubSeq(q, n + 1, up)) = up - low /\ up - low = 0
      BY <1>3, <1>6, <2>1
    <2>3. QED BY <1>1, <1>2, <1>4, <1>6, <1>7, <2>2
  <1>11. QED BY <1>9, <1>10

\* The first n and the page after them are the first n + per.
LEMMA PagesJoin ==
    ASSUME NEW S, NEW q \in Seq(S), NEW page \in Nat, NEW per \in Nat \ {0}, NEW n \in Nat, n = page * per
    PROVE  First(q, n) \o Slice(q, page + 1, per) = First(q, n + per)
  <1>1. PICK low, up : low = Upto(n, q) /\ up = Upto(n + per, q)
    OBVIOUS
  <1>2. low \in 0..up /\ up \in 0..Len(q)
    BY <1>1 DEF Upto
  <1>3. PICK a, b, c : a = First(q, n) /\ b = Slice(q, page + 1, per) /\ c = First(q, n + per)
    OBVIOUS
  <1>4. a \in Seq(S) /\ Len(a) = low /\ \A i \in 1..low : a[i] = q[i]
    BY <1>1, <1>3, FirstProperties
  <1>5. n + per \in Nat
    OBVIOUS
  <1>6. c \in Seq(S) /\ Len(c) = up /\ \A i \in 1..up : c[i] = q[i]
    BY <1>1, <1>3, <1>5, FirstProperties
  <1>7. b \in Seq(S) /\ Len(b) = up - low /\ \A i \in 1..(up - low) : b[i] = q[low + i]
    <2>1. /\ Slice(q, page + 1, per) \in Seq(S)
          /\ Len(Slice(q, page + 1, per)) = Upto(n + per, q) - Upto(n, q)
          /\ \A i \in 1..(Upto(n + per, q) - Upto(n, q)) :
                Slice(q, page + 1, per)[i] = q[Upto(n, q) + i]
      BY PageProperties
    <2>2. QED BY <1>1, <1>3, <2>1, Zenon
  <1>8. PICK ab : ab = a \o b
    OBVIOUS
  <1>8a. ab \in Seq(S) /\ Len(ab) = up /\ \A i \in 1..up : ab[i] = IF i <= low THEN a[i] ELSE b[i - low]
    <2>1. /\ a \o b \in Seq(S) /\ Len(a \o b) = Len(a) + Len(b)
          /\ \A i \in 1..(Len(a) + Len(b)) : (a \o b)[i] = IF i <= Len(a) THEN a[i] ELSE b[i - Len(a)]
      BY <1>4, <1>7, ConcatAt
    <2>2. Len(a) + Len(b) = up
      BY <1>2, <1>4, <1>7
    <2>3. QED BY <1>4, <1>8, <2>1, <2>2, Zenon
  <1>9. ASSUME NEW i \in 1..up PROVE ab[i] = c[i]
    <2>1. CASE i <= low
      BY <1>2, <1>4, <1>6, <1>8a, <2>1
    <2>2. CASE ~(i <= low)
      <3>1. i - low \in 1..(up - low) /\ low + (i - low) = i
        BY <1>2, <2>2
      <3>2. ab[i] = b[i - low]
        BY <1>8a, <2>2
      <3>3. QED BY <1>6, <1>7, <3>1, <3>2
    <2>3. QED BY <2>1, <2>2
  <1>10. ab = c
    BY <1>6, <1>8a, <1>9
  <1>11. QED BY <1>3, <1>8, <1>10

\* A reader of that many pages has passed them all.
LEMMA PagesSuffice ==
    ASSUME NEW total \in Nat, NEW per \in Nat \ {0}, NEW page \in Nat, page >= PagesFor(total, per)
    PROVE  page * per >= total
  <1>1. PICK pages : pages = (total + per - 1) \div per
    OBVIOUS
  <1>2. pages \in Int /\ pages * per + per > total + per - 1
    BY <1>1
  <1>3. page >= pages
    BY <1>1 DEF PagesFor
  <1>4. page * per >= pages * per
    BY <1>2, <1>3
  <1>5. QED BY <1>2, <1>4

Slugs == {e.slug : e \in CatSeeds}
AnyVoice == Slugs \union DOMAIN CityRows
WalkRec == [by : {"nobody", "endpoint", "service"}, org : CatOrgs \union {NoOrg}, per : Nat \ {0},
            page : Nat, pages : Int, got : Seq(AnyVoice), due : SUBSET AnyVoice, steady : BOOLEAN]
CloneRec == [org : CatOrgs \union {NoOrg}, row : {"none", "kept", "gone"}, audio : BOOLEAN,
             pc : {"idle", "stored", "emptied", "lost", "doomed"}]
RowsOK == /\ DOMAIN catRows \subseteq Slugs /\ IsFiniteSet(DOMAIN catRows)
          /\ \A s \in DOMAIN catRows : catRows[s].name \in Int
ClonesOK == catClone \in [CatClones -> CloneRec] /\ ClonesKept

Listed == StockListed(catWalk.org) \union (IF catWalk.by = "service" THEN CityListed(catWalk.org) ELSE {})
Passed == catWalk.page * catWalk.per
\* What the pages so far hold, from either reader.
ByEndpoint ==
    \E q \in Orders(StockListed(catWalk.org)) :
       /\ catWalk.got = First(q, Passed)
       /\ catWalk.pages = PagesFor(IF q = <<>> THEN 1 ELSE Len(q), catWalk.per)
Both(got, q, r, n) == /\ Len(got) = Upto(n, q) + Upto(n, r)
                      /\ Range(got) = Range(First(q, n)) \union Range(First(r, n))
ByService ==
    \E q \in Orders(StockListed(catWalk.org)), r \in Orders(CityListed(catWalk.org)) :
       /\ Both(catWalk.got, q, r, Passed)
       /\ catWalk.pages = PagesFor(Len(q) + Len(r), catWalk.per)
ReadOK == IF catWalk.by = "service" THEN ByService ELSE ByEndpoint
WalkOK == /\ catWalk.by # "nobody" /\ catWalk.due = Listed
          /\ catWalk.page = 0 => catWalk.got = <<>> /\ catWalk.pages = 1
          /\ catWalk.page > 0 /\ Apart(catWalk.due) => ReadOK
CatalogInv == RowsOK /\ ClonesOK /\ catWalk \in WalkRec /\ (catWalk.steady => WalkOK)

LEMMA WalkFields ==
    ASSUME catWalk \in WalkRec
    PROVE  /\ catWalk.by \in {"nobody", "endpoint", "service"} /\ catWalk.org \in CatOrgs \union {NoOrg}
           /\ catWalk.per \in Nat \ {0} /\ catWalk.page \in Nat /\ catWalk.pages \in Int
           /\ catWalk.got \in Seq(AnyVoice) /\ catWalk.due \subseteq AnyVoice /\ catWalk.steady \in BOOLEAN
  <1>1. PICK Q : Q = Seq(AnyVoice)
    OBVIOUS
  <1>2. QED BY <1>1 DEF WalkRec

LEMMA FetchedRec ==
    ASSUME NEW w \in WalkRec, NEW page \in Nat, NEW got \in Seq(AnyVoice), NEW pages \in Int,
           NEW new, new = [w EXCEPT !.page = page, !.got = got, !.pages = pages]
    PROVE  new \in WalkRec
  <1>1. PICK Q, B, O, P, D : /\ Q = Seq(AnyVoice) /\ B = {"nobody", "endpoint", "service"} /\ P = Nat \ {0}
                             /\ O = CatOrgs \union {NoOrg} /\ D = SUBSET AnyVoice
    OBVIOUS
  <1>2. w \in [by : B, org : O, per : P, page : Nat, pages : Int, got : Q, due : D, steady : BOOLEAN]
    BY <1>1 DEF WalkRec
  <1>3. got \in Q
    BY <1>1
  <1>4. new \in [by : B, org : O, per : P, page : Nat, pages : Int, got : Q, due : D, steady : BOOLEAN]
    BY <1>2, <1>3
  <1>5. QED BY <1>1, <1>4 DEF WalkRec

\* What is listed has names, and the two tables share no id.
LEMMA ListedNamed ==
    ASSUME RowsOK, NEW o
    PROVE  /\ Named(StockListed(o)) /\ Named(CityListed(o))
           /\ StockListed(o) \subseteq Slugs /\ CityListed(o) \subseteq DOMAIN CityRows
           /\ StockListed(o) \intersect CityListed(o) = {}
  <1>1. StockListed(o) \subseteq DOMAIN catRows /\ CityListed(o) \subseteq DOMAIN CityRows
    BY DEF StockListed, CityListed
  <1>2. DOMAIN catRows \subseteq Slugs /\ Slugs \intersect DOMAIN CityRows = {}
    BY CatalogAssumption DEF RowsOK, Slugs
  <1>3. IsFiniteSet(StockListed(o)) /\ IsFiniteSet(CityListed(o))
    BY <1>1, CatalogAssumption, FS_Subset DEF RowsOK
  <1>4. ASSUME NEW s \in StockListed(o) PROVE NameOf(s) \in Int
    BY <1>1 DEF RowsOK, NameOf
  <1>5. ASSUME NEW v \in CityListed(o) PROVE NameOf(v) \in Int
    <2>1. v \in DOMAIN CityRows /\ v \notin DOMAIN catRows
      BY <1>1, <1>2
    <2>2. QED BY <2>1, CatalogAssumption DEF NameOf
  <1>6. QED BY <1>1, <1>2, <1>3, <1>4, <1>5 DEF Named

LEMMA EndpointReads ==
    ASSUME RowsOK, catWalk \in WalkRec, catWalk.steady => WalkOK, FetchPage
    PROVE  catWalk' \in WalkRec /\ (catWalk'.steady => WalkOK')
  <1>1. PICK S : S = StockListed(catWalk.org)
    OBVIOUS
  <1>2. PICK q \in Orders(S) : Fetched(IF q = <<>> THEN 1 ELSE Len(q), Slice(q, catWalk.page + 1, catWalk.per))
    BY <1>1, Zenon DEF FetchPage
  <1>3. PICK page, per, rows, total, pages, got :
          /\ page = catWalk.page /\ per = catWalk.per /\ rows = Slice(q, page + 1, per)
          /\ total = (IF q = <<>> THEN 1 ELSE Len(q)) /\ pages = PagesFor(total, per)
          /\ got = catWalk.got \o rows
    OBVIOUS
  <1>4. page \in Nat /\ per \in Nat \ {0} /\ catWalk.got \in Seq(AnyVoice)
    BY <1>3, WalkFields
  <1>5. Named(S) /\ S \subseteq AnyVoice
    BY <1>1, ListedNamed DEF AnyVoice
  <1>6. q \in Seq(S) /\ Len(q) \in Nat
    BY <1>5, OrderProperties
  <1>7. rows \in Seq(S) /\ page * per \in Nat
    <2>1. PICK n : n = page * per
      OBVIOUS
    <2>2. n \in Nat
      BY <1>4, <2>1
    <2>3. QED BY <1>3, <1>4, <1>6, <2>1, <2>2, PageProperties
  <1>8. got \in Seq(AnyVoice)
    <2>1. rows \in Seq(AnyVoice)
      BY <1>5, <1>7
    <2>2. QED BY <1>3, <1>4, <2>1
  <1>9. pages \in Int
    BY <1>3, <1>4, <1>6 DEF PagesFor
  <1>10. catWalk' = [catWalk EXCEPT !.page = page + 1, !.got = got, !.pages = pages]
    BY <1>2, <1>3 DEF Fetched
  <1>11. catWalk' \in WalkRec
    <2>1. PICK next : next = page + 1
      OBVIOUS
    <2>2. next \in Nat /\ catWalk' = [catWalk EXCEPT !.page = next, !.got = got, !.pages = pages]
      BY <1>4, <1>10, <2>1
    <2>3. QED BY <1>8, <1>9, <2>2, FetchedRec
  <1>12. /\ catWalk'.by = "endpoint" /\ catWalk.by = "endpoint" /\ catWalk'.org = catWalk.org
         /\ catWalk'.due = catWalk.due /\ catWalk'.steady = catWalk.steady /\ catWalk'.per = per
         /\ catWalk'.page = page + 1 /\ catWalk'.got = got /\ catWalk'.pages = pages
         /\ catRows' = catRows
    BY <1>3, <1>10, WalkFields DEF FetchPage, WalkRec
  <1>13. ASSUME catWalk'.steady PROVE WalkOK'
    <2>1. WalkOK /\ catWalk.due = S
      BY <1>1, <1>12, <1>13 DEF WalkOK, Listed
    <2>2. Listed' = S
      BY <1>1, <1>12 DEF Listed, StockListed, InScope, CityListed
    <2>3. ASSUME Apart(catWalk.due) PROVE ByEndpoint'
      <3>1. PICK n : n = page * per
        OBVIOUS
      <3>2. n \in Nat
        BY <1>7, <3>1
      <3>3. catWalk.got = First(q, n)
        <4>1. CASE page = 0
          <5>1. n = 0 /\ catWalk.got = <<>>
            BY <1>3, <1>4, <2>1, <3>1, <4>1 DEF WalkOK
          <5>2. Len(First(q, n)) = 0 /\ First(q, n) \in Seq(S)
            BY <1>6, <3>2, <5>1, FirstProperties DEF Upto
          <5>3. QED BY <5>1, <5>2
        <4>2. CASE page # 0
          <5>1. ByEndpoint
            BY <1>3, <1>4, <1>12, <2>1, <2>3, <4>2 DEF WalkOK, ReadOK
          <5>2. PICK r \in Orders(S) : catWalk.got = First(r, n)
            BY <1>1, <1>3, <3>1, <5>1 DEF ByEndpoint, Passed
          <5>3. r = q
            BY <1>5, <2>1, <2>3, <5>2, OneOrder
          <5>4. QED BY <5>2, <5>3
        <4>3. QED BY <4>1, <4>2
      <3>4. got = First(q, n + per) /\ n + per = (page + 1) * per
        <4>1. First(q, n) \o Slice(q, page + 1, per) = First(q, n + per)
          BY <1>4, <1>6, <3>1, <3>2, PagesJoin
        <4>2. n + per = (page + 1) * per
          BY <1>4, <1>6, <3>1, <3>2, PageProperties
        <4>3. QED BY <1>3, <3>3, <4>1, <4>2
      <3>5. Passed' = n + per
        BY <1>12, <3>4 DEF Passed
      <3>6. Orders(StockListed(catWalk.org))' = Orders(S)
        BY <1>1, <1>12 DEF Orders, NameOf, StockListed, InScope
      <3>7. QED BY <1>3, <1>12, <3>4, <3>5, <3>6 DEF ByEndpoint
    <2>4. Apart(catWalk.due)' => Apart(catWalk.due)
      BY <1>12 DEF Apart, NameOf
    <2>5. page + 1 # 0
      BY <1>4
    <2>6. QED BY <1>12, <2>1, <2>2, <2>3, <2>4, <2>5 DEF WalkOK, ReadOK
  <1>14. QED BY <1>11, <1>13

LEMMA BothJoin ==
    ASSUME NEW S, NEW T, NEW q \in Seq(S), NEW r \in Seq(T), NEW page \in Nat, NEW per \in Nat \ {0},
           NEW n \in Nat, n = page * per, NEW V, NEW got \in Seq(V), S \subseteq V, T \subseteq V,
           Both(got, q, r, n)
    PROVE  Both(got \o (Slice(q, page + 1, per) \o Slice(r, page + 1, per)), q, r, n + per)
  <1>1. PICK a, b, c, d, e, f : /\ a = First(q, n) /\ b = Slice(q, page + 1, per) /\ c = First(q, n + per)
                                /\ d = First(r, n) /\ e = Slice(r, page + 1, per) /\ f = First(r, n + per)
    OBVIOUS
  <1>2. a \o b = c /\ d \o e = f
    BY <1>1, PagesJoin
  <1>3. a \in Seq(S) /\ b \in Seq(S) /\ d \in Seq(T) /\ e \in Seq(T)
    BY <1>1, FirstProperties, PageProperties
  <1>4. n + per \in Nat
    OBVIOUS
  <1>5. /\ Len(a) = Upto(n, q) /\ Len(c) = Upto(n + per, q)
        /\ Len(d) = Upto(n, r) /\ Len(f) = Upto(n + per, r)
    BY <1>1, <1>4, FirstProperties
  <1>6. a \in Seq(V) /\ b \in Seq(V) /\ d \in Seq(V) /\ e \in Seq(V)
    BY <1>3
  <1>7. Len(c) = Len(a) + Len(b) /\ Range(c) = Range(a) \union Range(b)
    BY <1>2, <1>6, RangeConcat
  <1>8. Len(f) = Len(d) + Len(e) /\ Range(f) = Range(d) \union Range(e)
    BY <1>2, <1>6, RangeConcat
  <1>9. b \o e \in Seq(V) /\ Len(b \o e) = Len(b) + Len(e) /\ Range(b \o e) = Range(b) \union Range(e)
    BY <1>6, RangeConcat
  <1>10. /\ Len(got \o (b \o e)) = Len(got) + Len(b \o e)
         /\ Range(got \o (b \o e)) = Range(got) \union Range(b \o e)
    <2>1. PICK be : be = b \o e
      OBVIOUS
    <2>2. Len(got \o be) = Len(got) + Len(be) /\ Range(got \o be) = Range(got) \union Range(be)
      <3>1. be \in Seq(V)
        BY <1>9, <2>1
      <3>2. QED BY <3>1, RangeConcat
    <2>3. QED BY <2>1, <2>2
  <1>11. Len(got) = Len(a) + Len(d) /\ Range(got) = Range(a) \union Range(d)
    BY <1>1, <1>5 DEF Both
  <1>12. Range(got \o (b \o e)) = Range(c) \union Range(f)
    BY <1>7, <1>8, <1>9, <1>10, <1>11
  <1>13. Len(a) \in Nat /\ Len(b) \in Nat /\ Len(d) \in Nat /\ Len(e) \in Nat
    BY <1>6
  <1>14. Len(got \o (b \o e)) = Len(c) + Len(f)
    BY <1>7, <1>8, <1>9, <1>10, <1>11, <1>13
  <1>15. QED BY <1>1, <1>5, <1>12, <1>14 DEF Both

LEMMA ServiceReads ==
    ASSUME RowsOK, catWalk \in WalkRec, catWalk.steady => WalkOK, FetchBoth
    PROVE  catWalk' \in WalkRec /\ (catWalk'.steady => WalkOK')
  <1>1. PICK S, T : S = StockListed(catWalk.org) /\ T = CityListed(catWalk.org)
    OBVIOUS
  <1>2. PICK q \in Orders(S), r \in Orders(T) :
          Fetched(Len(q) + Len(r), Slice(q, catWalk.page + 1, catWalk.per) \o Slice(r, catWalk.page + 1, catWalk.per))
    BY <1>1, Zenon DEF FetchBoth
  <1>3. PICK page, per, rows, pages, got :
          /\ page = catWalk.page /\ per = catWalk.per
          /\ rows = Slice(q, page + 1, per) \o Slice(r, page + 1, per)
          /\ pages = PagesFor(Len(q) + Len(r), per) /\ got = catWalk.got \o rows
    OBVIOUS
  <1>4. page \in Nat /\ per \in Nat \ {0} /\ catWalk.got \in Seq(AnyVoice)
    BY <1>3, WalkFields
  <1>5. Named(S) /\ Named(T) /\ S \subseteq AnyVoice /\ T \subseteq AnyVoice
    BY <1>1, ListedNamed DEF AnyVoice
  <1>6. q \in Seq(S) /\ r \in Seq(T) /\ Len(q) \in Nat /\ Len(r) \in Nat
    BY <1>5, OrderProperties
  <1>7. PICK n : n = page * per
    OBVIOUS
  <1>8. n \in Nat
    BY <1>4, <1>7
  <1>9. Slice(q, page + 1, per) \in Seq(S) /\ Slice(r, page + 1, per) \in Seq(T) /\ n + per = (page + 1) * per
    <2>1. Slice(q, page + 1, per) \in Seq(S) /\ n + per = (page + 1) * per
      BY <1>4, <1>6, <1>7, <1>8, PageProperties
    <2>2. Slice(r, page + 1, per) \in Seq(T)
      BY <1>4, <1>6, <1>7, <1>8, PageProperties
    <2>3. QED BY <2>1, <2>2
  <1>10. got \in Seq(AnyVoice)
    <2>1. Slice(q, page + 1, per) \in Seq(AnyVoice) /\ Slice(r, page + 1, per) \in Seq(AnyVoice)
      BY <1>5, <1>9
    <2>2. QED BY <1>3, <1>4, <2>1
  <1>11. pages \in Int
    BY <1>3, <1>4, <1>6 DEF PagesFor
  <1>12. catWalk' = [catWalk EXCEPT !.page = page + 1, !.got = got, !.pages = pages]
    BY <1>2, <1>3 DEF Fetched
  <1>13. catWalk' \in WalkRec
    <2>1. PICK next : next = page + 1
      OBVIOUS
    <2>2. next \in Nat /\ catWalk' = [catWalk EXCEPT !.page = next, !.got = got, !.pages = pages]
      BY <1>4, <1>12, <2>1
    <2>3. QED BY <1>10, <1>11, <2>2, FetchedRec
  <1>14. /\ catWalk'.by = "service" /\ catWalk.by = "service" /\ catWalk'.org = catWalk.org
         /\ catWalk'.due = catWalk.due /\ catWalk'.steady = catWalk.steady /\ catWalk'.per = per
         /\ catWalk'.page = page + 1 /\ catWalk'.got = got /\ catWalk'.pages = pages
         /\ catRows' = catRows
    BY <1>3, <1>12, WalkFields DEF FetchBoth, WalkRec
  <1>15. ASSUME catWalk'.steady PROVE WalkOK'
    <2>1. WalkOK /\ catWalk.due = S \union T
      BY <1>1, <1>14, <1>15 DEF WalkOK, Listed
    <2>2. Listed' = S \union T
      BY <1>1, <1>14 DEF Listed, StockListed, InScope, CityListed
    <2>3. ASSUME Apart(catWalk.due) PROVE ByService'
      <3>1. Both(catWalk.got, q, r, n)
        <4>1. CASE page = 0
          <5>1. n = 0 /\ catWalk.got = <<>>
            BY <1>3, <1>4, <1>7, <2>1, <4>1 DEF WalkOK
          <5>2. Upto(n, q) = 0 /\ Upto(n, r) = 0
            BY <1>6, <5>1 DEF Upto
          <5>3. First(q, n) = <<>> /\ First(r, n) = <<>>
            BY <5>2, SubSeqEmpty DEF First
          <5>4. Len(catWalk.got) = 0
            BY <5>1
          <5>5. QED BY <5>1, <5>2, <5>3, <5>4 DEF Both
        <4>2. CASE page # 0
          <5>1. ByService
            BY <1>3, <1>4, <1>14, <2>1, <2>3, <4>2 DEF WalkOK, ReadOK
          <5>2. PICK q2 \in Orders(S), r2 \in Orders(T) : Both(catWalk.got, q2, r2, n)
            BY <1>1, <1>3, <1>7, <5>1 DEF ByService, Passed
          <5>3. Apart(S) /\ Apart(T)
            BY <2>1, <2>3 DEF Apart
          <5>4. q2 = q /\ r2 = r
            BY <1>5, <5>2, <5>3, OneOrder
          <5>5. QED BY <5>2, <5>4
        <4>3. QED BY <4>1, <4>2
      <3>2. Both(got, q, r, n + per)
        BY <1>3, <1>4, <1>5, <1>6, <1>7, <1>8, <3>1, BothJoin
      <3>3. Passed' = n + per
        BY <1>9, <1>14 DEF Passed
      <3>4. Orders(StockListed(catWalk.org))' = Orders(S)
        BY <1>1, <1>14 DEF Orders, NameOf, StockListed, InScope
      <3>5. Orders(CityListed(catWalk.org))' = Orders(T)
        BY <1>1, <1>14 DEF Orders, NameOf, CityListed
      <3>6. QED BY <1>3, <1>14, <3>2, <3>3, <3>4, <3>5 DEF ByService
    <2>4. Apart(catWalk.due)' => Apart(catWalk.due)
      BY <1>14 DEF Apart, NameOf
    <2>5. page + 1 # 0
      BY <1>4
    <2>6. QED BY <1>14, <2>1, <2>2, <2>3, <2>4, <2>5 DEF WalkOK, ReadOK
  <1>16. QED BY <1>13, <1>15

\* A walk nobody steps, over a catalog that stays, is as it was.
LEMMA WalkRests ==
    ASSUME WalkOK, UNCHANGED catRows, catWalk' = catWalk
    PROVE  WalkOK'
  <1>1. Listed' = Listed
    BY DEF Listed, StockListed, InScope, CityListed
  <1>2. \A S : Orders(S)' = Orders(S) /\ Apart(S)' = Apart(S)
    BY DEF Orders, Apart, NameOf
  <1>3. ReadOK' = ReadOK
    BY <1>2 DEF ReadOK, ByService, ByEndpoint, Passed, StockListed, InScope, CityListed
  <1>4. QED BY <1>1, <1>2, <1>3 DEF WalkOK

LEMMA WalkStarts ==
    ASSUME RowsOK, NEW o \in CatOrgs, NEW by \in {"endpoint", "service"}, NEW p \in PerPages, StartWalk(by, o, p)
    PROVE  catWalk' \in WalkRec /\ WalkOK'
  <1>1. PICK per : per = Per(p)
    OBVIOUS
  <1>2. per \in Nat \ {0}
    <2>1. p \in Int
      BY CatalogAssumption
    <2>2. QED BY <1>1, <2>1 DEF Per
  <1>3. PICK due : due = StockListed(o) \union (IF by = "service" THEN CityListed(o) ELSE {})
    OBVIOUS
  <1>4. due \subseteq AnyVoice
    BY <1>3, ListedNamed DEF AnyVoice
  <1>5. catWalk' = [by |-> by, org |-> o, per |-> per, page |-> 0, pages |-> 1,
                    got |-> <<>>, due |-> due, steady |-> TRUE]
    BY <1>1, <1>3 DEF StartWalk, NoWalk
  <1>6. PICK Q : Q = Seq(AnyVoice)
    OBVIOUS
  <1>7. <<>> \in Q
    BY <1>6
  <1>8. catWalk' \in WalkRec
    BY <1>2, <1>4, <1>5, <1>6, <1>7 DEF WalkRec
  <1>9. catRows' = catRows
    BY DEF StartWalk
  <1>10. Listed' = due
    BY <1>3, <1>5, <1>9 DEF Listed, StockListed, InScope, CityListed
  <1>11. QED BY <1>5, <1>8, <1>10 DEF WalkOK

LEMMA SeedKeeps ==
    ASSUME CatalogInv, NEW e \in CatSeeds, SeedFromProvider(e)
    PROVE  CatalogInv'
  <1>1. /\ DOMAIN catRows' = DOMAIN catRows \union {e.slug}
        /\ \A s \in DOMAIN catRows' : catRows'[s].name = IF s # e.slug THEN catRows[s].name ELSE e.name
    BY DEF SeedFromProvider
  <1>2. RowsOK'
    <2>1. DOMAIN catRows' \subseteq Slugs
      BY <1>1 DEF CatalogInv, RowsOK, Slugs
    <2>2. IsFiniteSet(DOMAIN catRows')
      BY <1>1, FS_AddElement DEF CatalogInv, RowsOK
    <2>3. \A s \in DOMAIN catRows' : catRows'[s].name \in Int
      BY <1>1, CatalogAssumption DEF CatalogInv, RowsOK
    <2>4. QED BY <2>1, <2>2, <2>3 DEF RowsOK
  <1>3. ClonesOK'
    BY DEF SeedFromProvider, CatalogInv, ClonesOK, ClonesKept
  <1>4. PICK st \in BOOLEAN : st = (catWalk.steady /\ catRows' = catRows)
    BY WalkFields DEF CatalogInv
  <1>5. catWalk' = [catWalk EXCEPT !.steady = st]
    BY <1>4 DEF SeedFromProvider
  <1>6. catWalk' \in WalkRec
    <2>1. PICK Q : Q = Seq(AnyVoice)
      OBVIOUS
    <2>2. QED BY <1>5, <2>1 DEF WalkRec, CatalogInv
  <1>7. ASSUME catWalk'.steady PROVE WalkOK'
    <2>1. catWalk.steady /\ catRows' = catRows
      BY <1>4, <1>5, <1>7 DEF CatalogInv, WalkRec
    <2>2. PICK Q : Q = Seq(AnyVoice)
      OBVIOUS
    <2>3. catWalk' = catWalk
      BY <1>4, <1>5, <2>1, <2>2 DEF CatalogInv, WalkRec
    <2>4. WalkOK
      BY <2>1 DEF CatalogInv
    <2>5. QED BY <2>1, <2>3, <2>4, WalkRests
  <1>8. QED BY <1>2, <1>3, <1>6, <1>7 DEF CatalogInv

LEMMA CloneWritten ==
    ASSUME ClonesOK, NEW c \in CatClones, NEW new \in CloneRec, CloneStep(c, new),
           new.row = "kept" /\ new.pc \in {"idle", "stored"} => new.audio
    PROVE  ClonesOK' /\ UNCHANGED <<catRows, catWalk>>
  BY DEF CloneStep, ClonesOK, ClonesKept

LEMMA CloneKept ==
    ASSUME ClonesOK, NEW o \in CatOrgs, NEW c \in CatClones, NEW refused \in BOOLEAN,
           StoreClone(o, c) \/ DeleteCloneAudio(o, c, refused)
    PROVE  ClonesOK' /\ UNCHANGED <<catRows, catWalk>>
  <1>1. catClone[c] \in CloneRec
    BY DEF ClonesOK
  <1>2. CASE StoreClone(o, c)
    <2>1. PICK new : new = [NoClone EXCEPT !.org = o, !.audio = TRUE, !.pc = "stored"]
      OBVIOUS
    <2>2. new \in CloneRec /\ new.row = "none"
      BY <2>1 DEF CloneRec, NoClone
    <2>3. QED BY CloneWritten, <1>2, <2>1, <2>2 DEF StoreClone
  <1>3. CASE DeleteCloneAudio(o, c, refused)
    <2>1. PICK new : new = [catClone[c] EXCEPT !.audio = catClone[c].audio /\ refused, !.pc = "emptied"]
      OBVIOUS
    <2>2. new \in CloneRec /\ new.pc = "emptied"
      BY <1>1, <2>1 DEF CloneRec
    <2>3. QED BY CloneWritten, <1>3, <2>1, <2>2 DEF DeleteCloneAudio
  <1>4. QED BY <1>2, <1>3

LEMMA CloneRowKept ==
    ASSUME ClonesOK, NEW c \in CatClones, CommitClone(c) \/ DeleteCloneRow(c) \/ CloneRequestDies(c)
    PROVE  ClonesOK' /\ UNCHANGED <<catRows, catWalk>>
  <1>1. catClone[c] \in CloneRec
    BY DEF ClonesOK
  <1>2. CASE CommitClone(c)
    <2>1. PICK new : new = [catClone[c] EXCEPT !.row = "kept", !.pc = "idle", !.audio = TRUE]
      OBVIOUS
    <2>2. new \in CloneRec /\ new.audio
      BY <1>1, <2>1 DEF CloneRec
    <2>3. QED BY CloneWritten, <1>2, <2>1, <2>2 DEF CommitClone
  <1>3. CASE DeleteCloneRow(c)
    <2>1. PICK new : new = [catClone[c] EXCEPT !.row = "gone", !.pc = "idle"]
      OBVIOUS
    <2>2. new \in CloneRec /\ new.row = "gone"
      BY <1>1, <2>1 DEF CloneRec
    <2>3. QED BY CloneWritten, <1>3, <2>1, <2>2 DEF DeleteCloneRow
  <1>4. CASE CloneRequestDies(c)
    <2>1. PICK new : new = [catClone[c] EXCEPT !.pc = IF catClone[c].pc = "stored" THEN "lost" ELSE "doomed"]
      OBVIOUS
    <2>2. new \in CloneRec /\ new.pc \in {"lost", "doomed"}
      BY <1>1, <2>1 DEF CloneRec
    <2>3. QED BY CloneWritten, <1>4, <2>1, <2>2 DEF CloneRequestDies
  <1>5. QED BY <1>2, <1>3, <1>4

LEMMA CatalogStep ==
    ASSUME CatalogInv, [CatalogNext]_catalogVars
    PROVE  CatalogInv'
  <1>1. RowsOK /\ ClonesOK /\ catWalk \in WalkRec /\ (catWalk.steady => WalkOK)
    BY DEF CatalogInv
  <1>2. ASSUME UNCHANGED <<catRows, catWalk>>, ClonesOK' PROVE CatalogInv'
    <2>1. RowsOK'
      BY <1>1, <1>2 DEF RowsOK
    <2>2. WalkOK => WalkOK'
      BY <1>2, WalkRests
    <2>3. QED BY <1>1, <1>2, <2>1, <2>2 DEF CatalogInv
  <1>3. UNCHANGED catClone => ClonesOK'
    BY <1>1 DEF ClonesOK, ClonesKept
  <1>4. UNCHANGED catRows => RowsOK'
    BY <1>1 DEF RowsOK
  <1>5. ASSUME NEW o \in CatOrgs, NEW by \in {"endpoint", "service"}, NEW p \in PerPages, StartWalk(by, o, p)
        PROVE  CatalogInv'
    <2>1. catWalk' \in WalkRec /\ WalkOK'
      BY <1>1, <1>5, WalkStarts
    <2>2. QED BY <1>3, <1>4, <1>5, <2>1, Zenon DEF StartWalk, CatalogInv
  <1>6. CASE FetchPage
    <2>1. catWalk' \in WalkRec /\ (catWalk'.steady => WalkOK')
      BY <1>1, <1>6, EndpointReads
    <2>2. QED BY <1>3, <1>4, <1>6, <2>1, Zenon DEF FetchPage, CatalogInv
  <1>7. CASE FetchBoth
    <2>1. catWalk' \in WalkRec /\ (catWalk'.steady => WalkOK')
      BY <1>1, <1>7, ServiceReads
    <2>2. QED BY <1>3, <1>4, <1>7, <2>1, Zenon DEF FetchBoth, CatalogInv
  <1>8. ASSUME NEW o, NEW s, PreviewVoice(o, s, "plain") PROVE CatalogInv'
    BY <1>2, <1>3, <1>8, Zenon DEF PreviewVoice
  <1>9. ASSUME NEW o, NEW asked, NEW n, CompareVoices(o, asked, n) PROVE CatalogInv'
    BY <1>2, <1>3, <1>9, Zenon DEF CompareVoices
  <1>10. ASSUME NEW o \in CatOrgs, NEW c \in CatClones, NEW refused \in BOOLEAN,
                StoreClone(o, c) \/ DeleteCloneAudio(o, c, refused)
         PROVE  CatalogInv'
    BY <1>1, <1>2, <1>10, CloneKept
  <1>11. ASSUME NEW c \in CatClones, CommitClone(c) \/ DeleteCloneRow(c) \/ CloneRequestDies(c)
         PROVE  CatalogInv'
    BY <1>1, <1>2, <1>11, CloneRowKept
  <1>12. CASE UNCHANGED catalogVars
    BY <1>2, <1>3, <1>12, Zenon DEF catalogVars
  <1>13. QED BY <1>5, <1>6, <1>7, <1>8, <1>9, <1>10, <1>11, <1>12, SeedKeeps, Zenon DEF CatalogNext

LEMMA WalkIsComplete ==
    ASSUME CatalogInv
    PROVE  WalkComplete
  <1> SUFFICES ASSUME catWalk.steady, catWalk.page >= catWalk.pages, Apart(catWalk.due)
               PROVE  /\ Range(catWalk.got) = catWalk.due
                      /\ Len(catWalk.got) = Cardinality(catWalk.due)
                      /\ catWalk.by = "endpoint" =>
                           \A i, j \in DOMAIN catWalk.got :
                              i < j => NameOf(catWalk.got[i]) < NameOf(catWalk.got[j])
    BY DEF WalkComplete, Apart
  <1>1. RowsOK /\ catWalk \in WalkRec /\ WalkOK
    BY DEF CatalogInv
  <1>2. PICK S, T, page, per, n, got, pages :
          /\ S = StockListed(catWalk.org) /\ T = CityListed(catWalk.org) /\ page = catWalk.page
          /\ per = catWalk.per /\ n = page * per /\ got = catWalk.got /\ pages = catWalk.pages
    OBVIOUS
  <1>3. page \in Nat /\ per \in Nat \ {0} /\ n \in Nat /\ page >= pages /\ pages \in Int
    BY <1>1, <1>2, WalkFields
  <1>4. page # 0
    BY <1>1, <1>2, <1>3 DEF WalkOK
  <1>5. ReadOK /\ catWalk.due = S \union (IF catWalk.by = "service" THEN T ELSE {})
    BY <1>1, <1>2, <1>3, <1>4 DEF WalkOK, Listed
  <1>6. Named(S) /\ Named(T) /\ S \intersect T = {}
    BY <1>1, <1>2, ListedNamed
  <1>7. CASE catWalk.by = "service"
    <2>1. PICK q \in Orders(S), r \in Orders(T) : Both(got, q, r, n) /\ pages = PagesFor(Len(q) + Len(r), per)
      BY <1>2, <1>5, <1>7 DEF ReadOK, ByService, Passed
    <2>2. q \in Seq(S) /\ Len(q) = Cardinality(S) /\ Len(q) \in Nat /\ Range(q) = S
      BY <1>6, OrderRange
    <2>3. r \in Seq(T) /\ Len(r) = Cardinality(T) /\ Len(r) \in Nat /\ Range(r) = T
      BY <1>6, OrderRange
    <2>4. n >= Len(q) + Len(r)
      <3>1. Len(q) + Len(r) \in Nat
        BY <2>2, <2>3
      <3>2. QED BY <1>2, <1>3, <2>1, <3>1, PagesSuffice
    <2>5. Upto(n, q) = Len(q) /\ Upto(n, r) = Len(r)
      BY <1>3, <2>2, <2>3, <2>4 DEF Upto
    <2>6. First(q, n) = q /\ First(r, n) = r
      BY <2>2, <2>3, <2>5, SubSeqFull DEF First
    <2>7. Range(got) = S \union T /\ Len(got) = Cardinality(S) + Cardinality(T)
      BY <2>1, <2>2, <2>3, <2>5, <2>6 DEF Both
    <2>8. Cardinality(S \union T) = Cardinality(S) + Cardinality(T)
      <3>1. Cardinality(S \union T) = Cardinality(S) + Cardinality(T) - Cardinality(S \intersect T)
        BY <1>6, FS_Union DEF Named
      <3>2. Cardinality(S \intersect T) = 0
        BY <1>6, FS_EmptySet
      <3>3. QED BY <2>2, <2>3, <3>1, <3>2
    <2>9. QED BY <1>2, <1>5, <1>7, <2>7, <2>8
  <1>8. CASE catWalk.by # "service"
    <2>1. PICK q \in Orders(S) : got = First(q, n) /\ pages = PagesFor(IF q = <<>> THEN 1 ELSE Len(q), per)
      BY <1>2, <1>5, <1>8 DEF ReadOK, ByEndpoint, Passed
    <2>2. /\ q \in Seq(S) /\ Len(q) = Cardinality(S) /\ Len(q) \in Nat /\ Range(q) = S
          /\ \A i, j \in DOMAIN q : i < j => q[i] # q[j] /\ NameOf(q[i]) <= NameOf(q[j])
          /\ \A i \in DOMAIN q : q[i] \in S
      BY <1>6, OrderRange, OrderProperties
    <2>3. PICK total \in Nat : total = (IF q = <<>> THEN 1 ELSE Len(q)) /\ total >= Len(q)
      <3>1. CASE q = <<>>
        BY <3>1
      <3>2. CASE q # <<>>
        BY <2>2, <3>2
      <3>3. QED BY <3>1, <3>2
    <2>4. n >= Len(q)
      <3>1. n >= total
        BY <1>2, <1>3, <2>1, <2>3, PagesSuffice
      <3>2. QED BY <1>3, <2>2, <2>3, <3>1
    <2>5. Upto(n, q) = Len(q)
      BY <1>3, <2>2, <2>4 DEF Upto
    <2>6. got = q
      BY <2>1, <2>2, <2>5, SubSeqFull DEF First
    <2>7. S = catWalk.due
      BY <1>5, <1>8
    <2>8. ASSUME NEW i \in DOMAIN q, NEW j \in DOMAIN q, i < j PROVE NameOf(q[i]) < NameOf(q[j])
      <3>1. NameOf(q[i]) \in Int /\ NameOf(q[j]) \in Int
        BY <1>6, <2>2 DEF Named
      <3>2. NameOf(q[i]) # NameOf(q[j])
        BY <2>2, <2>7, <2>8 DEF Apart
      <3>3. QED BY <2>2, <2>8, <3>1, <3>2
    <2>9. QED BY <1>2, <2>2, <2>6, <2>7, <2>8
  <1>9. QED BY <1>7, <1>8

\* A reader who takes every page of a catalog that stays the same is shown
\* every voice of the organization once, the endpoints' reader in the order of
\* the names, whatever the page size and however many voices there are
\* (_paginate, VoiceCatalogService.list_voices); and a clone that is shown has
\* its audio, wherever its creation or deletion was cut off (create_clone,
\* delete_clone).
THEOREM CatalogIsServed == CatalogSpec => []CatalogServed
  <1>1. CatalogInit => CatalogInv
    <2> SUFFICES ASSUME CatalogInit PROVE CatalogInv
      OBVIOUS
    <2>1. RowsOK
      <3>1. DOMAIN catRows = {}
        BY DEF CatalogInit
      <3>2. QED BY <3>1, FS_EmptySet DEF RowsOK
    <2>2. NoClone \in CloneRec /\ NoClone.row = "none"
      BY DEF NoClone, CloneRec
    <2>3. ClonesOK
      BY <2>2 DEF CatalogInit, ClonesOK, ClonesKept
    <2>4. PICK Q : Q = Seq(AnyVoice)
      OBVIOUS
    <2>5. <<>> \in Q
      BY <2>4
    <2>6. catWalk \in WalkRec /\ ~catWalk.steady
      BY <2>4, <2>5 DEF CatalogInit, NoWalk, WalkRec
    <2>7. QED BY <2>1, <2>3, <2>6 DEF CatalogInv
  <1>2. CatalogInv => CatalogServed
    BY WalkIsComplete DEF CatalogInv, ClonesOK, CatalogServed
  <1>3. QED BY <1>1, <1>2, CatalogStep, PTL DEF CatalogSpec

-----------------------------------------------------------------------------
(* A segment is delivered.  What is put in order is the enabled rules and the  *)
(* usable keyframes: some order exists for every finite set of indices.        *)

Rankable(I, rank) == I \subseteq Nat /\ IsFiniteSet(I) /\ \A i \in I : rank[i] \in Int
InRank(q, I, rank) == /\ q \in Bijection(1..Cardinality(I), I)
                      /\ \A a, b \in DOMAIN q : a < b => Precedes(rank, q[a], q[b])

LEMMA OneFewer ==
    ASSUME NEW I, NEW rank, Rankable(I, rank), NEW m \in I
    PROVE  Rankable(I \ {m}, rank) /\ Cardinality(I) = Cardinality(I \ {m}) + 1 /\ Cardinality(I \ {m}) \in Nat
  <1>1. IsFiniteSet(I \ {m}) /\ Cardinality(I \ {m}) = Cardinality(I) - 1
    BY FS_RemoveElement DEF Rankable
  <1>2. Cardinality(I) \in Nat /\ Cardinality(I \ {m}) \in Nat
    BY <1>1, FS_CardinalityType DEF Rankable
  <1>3. QED BY <1>1, <1>2 DEF Rankable

LEMMA LastRanked ==
    ASSUME NEW I, NEW rank, Rankable(I, rank), I # {}
    PROVE  \E m \in I : \A k \in I \ {m} : Precedes(rank, k, m)
  <1> DEFINE Has(J) == \E m \in J : \A k \in J \ {m} : Precedes(rank, k, m)
             Good(n) == \A J \in SUBSET I : J # {} /\ Cardinality(J) = n => Has(J)
             S == {n \in Nat : Good(n)}
  <1>1. ASSUME NEW J \in SUBSET I PROVE Rankable(J, rank)
    BY FS_Subset DEF Rankable
  <1>2. Good(0)
    <2> SUFFICES ASSUME NEW J \in SUBSET I, J # {}, Cardinality(J) = 0 PROVE FALSE
      OBVIOUS
    <2>1. QED BY <1>1, FS_EmptySet DEF Rankable
  <1>3. ASSUME NEW n \in Nat, Good(n) PROVE Good(n + 1)
    <2> SUFFICES ASSUME NEW J \in SUBSET I, J # {}, Cardinality(J) = n + 1 PROVE Has(J)
      OBVIOUS
    <2>1. PICK x \in J : TRUE
      OBVIOUS
    <2>2. PICK K \in SUBSET I : K = J \ {x}
      OBVIOUS
    <2>3. Cardinality(K) = n
      BY <1>1, <2>2, OneFewer
    <2>4. CASE K = {}
      BY <2>1, <2>2, <2>4
    <2>5. CASE K # {}
      <3>1. PICK m \in K : \A k \in K \ {m} : Precedes(rank, k, m)
        BY <1>3, <2>3, <2>5
      <3>2. \A k \in J : k \in Nat /\ rank[k] \in Int
        BY <1>1 DEF Rankable
      <3>3. CASE Precedes(rank, x, m)
        <4>1. \A k \in J \ {m} : Precedes(rank, k, m)
          BY <2>2, <3>1, <3>3
        <4>2. QED BY <2>2, <4>1
      <3>4. CASE ~Precedes(rank, x, m)
        <4>1. Precedes(rank, m, x)
          BY <2>1, <2>2, <3>1, <3>2, <3>4 DEF Precedes
        <4>2. ASSUME NEW k \in J \ {x} PROVE Precedes(rank, k, x)
          <5>1. k = m \/ Precedes(rank, k, m)
            BY <2>2, <3>1
          <5>2. QED BY <2>2, <3>1, <3>2, <4>1, <5>1 DEF Precedes
        <4>3. QED BY <2>1, <4>2
      <3>5. QED BY <3>3, <3>4
    <2>6. QED BY <2>4, <2>5
  <1> HIDE DEF Good
  <1>4. 0 \in S /\ \A n \in Nat : n \in S => n + 1 \in S
    BY <1>2, <1>3
  <1>5. Nat \subseteq S
    BY <1>4, Induction
  <1>6. Cardinality(I) \in Nat
    BY FS_CardinalityType DEF Rankable
  <1>7. Good(Cardinality(I))
    BY <1>5, <1>6
  <1>8. QED BY <1>7 DEF Good

LEMMA RankFurther ==
    ASSUME NEW I, NEW rank, Rankable(I, rank), I # {},
           \A m \in I : \E q : InRank(q, I \ {m}, rank)
    PROVE  \E q : InRank(q, I, rank)
  <1>1. PICK m \in I : \A k \in I \ {m} : Precedes(rank, k, m)
    BY LastRanked
  <1>2. PICK K, n : K = I \ {m} /\ n = Cardinality(K)
    OBVIOUS
  <1>3. n \in Nat /\ Cardinality(I) = n + 1
    BY <1>2, OneFewer
  <1>4. PICK q : InRank(q, K, rank)
    BY <1>2
  <1>5. /\ q \in [1..n -> K] /\ \A a, b \in 1..n : q[a] = q[b] => a = b
        /\ \A k \in K : \E a \in 1..n : q[a] = k
        /\ \A a, b \in 1..n : a < b => Precedes(rank, q[a], q[b])
    BY <1>2, <1>4 DEF InRank, Bijection, Injection, Surjection, IsInjective
  <1>6. PICK p : p = [a \in 1..(n + 1) |-> IF a = n + 1 THEN m ELSE q[a]]
    OBVIOUS
  <1>7. p[n + 1] = m /\ \A a \in 1..n : p[a] = q[a] /\ p[a] \in K
    BY <1>3, <1>5, <1>6
  <1>8. \A a \in 1..(n + 1) : a = n + 1 \/ a \in 1..n
    BY <1>3
  <1>9. p \in [1..(n + 1) -> I]
    BY <1>2, <1>6, <1>7, <1>8
  <1>10. ASSUME NEW a \in 1..(n + 1), NEW b \in 1..(n + 1), p[a] = p[b] PROVE a = b
    BY <1>2, <1>5, <1>7, <1>8, <1>10
  <1>11. ASSUME NEW k \in I PROVE \E a \in 1..(n + 1) : p[a] = k
    <2>1. CASE k = m
      BY <1>3, <1>7, <2>1
    <2>2. CASE k # m
      <3>1. PICK a \in 1..n : q[a] = k
        BY <1>2, <1>5, <2>2
      <3>2. a \in 1..(n + 1) /\ p[a] = k
        BY <1>3, <1>7, <3>1
      <3>3. QED BY <3>2
    <2>3. QED BY <2>1, <2>2
  <1>12. ASSUME NEW a \in 1..(n + 1), NEW b \in 1..(n + 1), a < b PROVE Precedes(rank, p[a], p[b])
    <2>1. a \in 1..n
      BY <1>3, <1>12
    <2>2. CASE b = n + 1
      BY <1>1, <1>2, <1>7, <2>1, <2>2
    <2>3. CASE b # n + 1
      <3>1. b \in 1..n
        BY <1>8, <2>3
      <3>2. QED BY <1>5, <1>7, <1>12, <2>1, <3>1
    <2>4. QED BY <2>2, <2>3
  <1>13. p \in Bijection(1..(n + 1), I) /\ DOMAIN p = 1..(n + 1)
    BY <1>9, <1>10, <1>11 DEF Bijection, Injection, Surjection, IsInjective
  <1>14. InRank(p, I, rank)
    BY <1>3, <1>12, <1>13 DEF InRank
  <1>15. QED BY <1>14

LEMMA RankExists ==
    ASSUME NEW I, NEW rank, Rankable(I, rank)
    PROVE  \E q : InRank(q, I, rank)
  <1> DEFINE Good(n) == \A J \in SUBSET I : Cardinality(J) = n => \E q : InRank(q, J, rank)
             S == {n \in Nat : Good(n)}
  <1>1. ASSUME NEW J \in SUBSET I PROVE Rankable(J, rank)
    BY FS_Subset DEF Rankable
  <1>2. Good(0)
    <2> SUFFICES ASSUME NEW J \in SUBSET I, Cardinality(J) = 0 PROVE \E q : InRank(q, J, rank)
      OBVIOUS
    <2>1. J = {}
      BY <1>1, FS_EmptySet DEF Rankable
    <2>2. PICK q : q = [a \in 1..0 |-> 0]
      OBVIOUS
    <2>3. q \in Bijection(1..0, J) /\ DOMAIN q = 1..0
      BY <2>1, <2>2 DEF Bijection, Injection, Surjection, IsInjective
    <2>4. InRank(q, J, rank)
      BY <2>3 DEF InRank
    <2>5. QED BY <2>4
  <1>3. ASSUME NEW n \in Nat, Good(n) PROVE Good(n + 1)
    <2> SUFFICES ASSUME NEW J \in SUBSET I, Cardinality(J) = n + 1 PROVE \E q : InRank(q, J, rank)
      OBVIOUS
    <2>1. J # {}
      BY FS_EmptySet
    <2>2. ASSUME NEW m \in J PROVE \E q : InRank(q, J \ {m}, rank)
      <3>1. Rankable(J, rank)
        BY <1>1
      <3>2. Cardinality(J) = Cardinality(J \ {m}) + 1 /\ Cardinality(J \ {m}) \in Nat
        BY <3>1, OneFewer
      <3>3. Cardinality(J \ {m}) = n /\ J \ {m} \in SUBSET I
        BY <3>2
      <3>4. QED BY <1>3, <3>3
    <2>3. QED BY <1>1, <2>1, <2>2, RankFurther
  <1> HIDE DEF Good
  <1>4. 0 \in S /\ \A n \in Nat : n \in S => n + 1 \in S
    BY <1>2, <1>3
  <1>5. Nat \subseteq S
    BY <1>4, Induction
  <1>6. Cardinality(I) \in Nat
    BY FS_CardinalityType DEF Rankable
  <1>7. Good(Cardinality(I))
    BY <1>5, <1>6
  <1>8. QED BY <1>7 DEF Good

LEMMA RankedOrder ==
    ASSUME NEW I, NEW rank, Rankable(I, rank), NEW q, q = Ranked(I, rank)
    PROVE  /\ Cardinality(I) \in Nat /\ q \in Seq(I) /\ Len(q) = Cardinality(I) /\ DOMAIN q = 1..Len(q)
           /\ \A a \in DOMAIN q : q[a] \in I
           /\ \A i \in I : \E a \in DOMAIN q : q[a] = i
           /\ \A a, b \in DOMAIN q : a < b => Precedes(rank, q[a], q[b])
  <1>1. InRank(q, I, rank)
    BY RankExists DEF Ranked, InRank
  <1>2. PICK n \in Nat : n = Cardinality(I)
    BY FS_CardinalityType DEF Rankable
  <1>3. /\ q \in [1..n -> I] /\ \A i \in I : \E a \in 1..n : q[a] = i
        /\ \A a, b \in DOMAIN q : a < b => Precedes(rank, q[a], q[b])
    BY <1>1, <1>2 DEF InRank, Bijection, Injection, Surjection, IsInjective
  <1>4. q \in Seq(I) /\ Len(q) = n
    BY <1>3
  <1>5. QED BY <1>2, <1>3, <1>4

-----------------------------------------------------------------------------
(* Keyframes.  The value at a position lies between those around it.           *)

Usable(frames) == {<<Within(0, 4, f[1]), f[2]>> : f \in {g \in ToSet(frames) : g[1] # Malformed}}
Rising(pts) == \A a, b \in DOMAIN pts : a <= b => pts[a][1] <= pts[b][1]

LEMMA PointsRise ==
    ASSUME NEW frames \in Seq(Int \X Int), NEW pts, pts = Points(frames)
    PROVE  /\ pts \in Seq((0..4) \X Int) /\ Rising(pts) /\ ToSet(pts) = Usable(frames)
  <1>1. PICK I, at : /\ I = {i \in DOMAIN frames : frames[i][1] # Malformed}
                     /\ at = [i \in DOMAIN frames |-> Within(0, 4, frames[i][1])]
    OBVIOUS
  <1>2. PICK m \in Nat : DOMAIN frames = 1..m
    OBVIOUS
  <1>3. ASSUME NEW i \in DOMAIN frames
        PROVE  frames[i] \in Int \X Int /\ frames[i][1] \in Int /\ frames[i][2] \in Int /\ at[i] \in 0..4
    <2>1. frames[i] \in Int \X Int /\ frames[i][1] \in Int /\ frames[i][2] \in Int
      OBVIOUS
    <2>2. QED BY <1>1, <2>1 DEF Within
  <1>4. Rankable(I, at)
    <2>1. IsFiniteSet(1..m)
      BY FS_Interval
    <2>2. IsFiniteSet(I) /\ I \subseteq Nat
      BY <1>1, <1>2, <2>1, FS_Subset
    <2>3. QED BY <1>1, <1>3, <2>2 DEF Rankable
  <1>5. PICK order : order = Ranked(I, at)
    OBVIOUS
  <1>6. /\ DOMAIN order = 1..Len(order) /\ Len(order) \in Nat /\ \A a \in DOMAIN order : order[a] \in I
        /\ \A i \in I : \E a \in DOMAIN order : order[a] = i
        /\ \A a, b \in DOMAIN order : a < b => Precedes(at, order[a], order[b])
    BY <1>4, <1>5, RankedOrder
  <1>7. pts = [a \in DOMAIN order |-> <<at[order[a]], frames[order[a]][2]>>]
    BY <1>1, <1>5 DEF Points
  <1>8. ASSUME NEW a \in DOMAIN order
        PROVE  pts[a] = <<at[order[a]], frames[order[a]][2]>> /\ pts[a] \in (0..4) \X Int
    BY <1>1, <1>3, <1>6, <1>7
  <1>9. pts \in Seq((0..4) \X Int)
    <2>1. DOMAIN pts = 1..Len(order)
      BY <1>6, <1>7
    <2>2. pts \in [1..Len(order) -> (0..4) \X Int]
      BY <1>6, <1>7, <1>8
    <2>3. QED BY <1>6, <2>2
  <1>10. Rising(pts)
    <2> SUFFICES ASSUME NEW a \in DOMAIN order, NEW b \in DOMAIN order, a <= b
                 PROVE  pts[a][1] <= pts[b][1]
      BY <1>7 DEF Rising
    <2>1. pts[a][1] = at[order[a]] /\ pts[b][1] = at[order[b]]
      BY <1>8
    <2>2. at[order[a]] \in 0..4 /\ at[order[b]] \in 0..4
      BY <1>1, <1>3, <1>6
    <2>3. a = b \/ Precedes(at, order[a], order[b])
      BY <1>6
    <2>4. QED BY <2>1, <2>2, <2>3 DEF Precedes
  <1>11. ToSet(pts) = Usable(frames)
    <2>1. ASSUME NEW a \in DOMAIN order PROVE pts[a] \in Usable(frames)
      <3>1. frames[order[a]] \in ToSet(frames) /\ frames[order[a]][1] # Malformed
        BY <1>1, <1>6 DEF ToSet
      <3>2. at[order[a]] = Within(0, 4, frames[order[a]][1])
        BY <1>1, <1>6
      <3>3. QED BY <1>8, <3>1, <3>2 DEF Usable
    <2>2. ASSUME NEW f \in ToSet(frames), f[1] # Malformed
          PROVE  <<Within(0, 4, f[1]), f[2]>> \in ToSet(pts)
      <3>1. PICK i \in DOMAIN frames : frames[i] = f
        BY DEF ToSet
      <3>2. PICK a \in DOMAIN order : order[a] = i
        BY <1>1, <1>6, <2>2, <3>1
      <3>3. pts[a] = <<Within(0, 4, f[1]), f[2]>>
        BY <1>1, <1>8, <3>1, <3>2
      <3>4. QED BY <1>7, <3>3 DEF ToSet
    <2>3. QED BY <1>7, <2>1, <2>2 DEF ToSet, Usable
  <1>12. QED BY <1>9, <1>10, <1>11

Near(fs, at) == Nearest({f \in fs : f[1] <= at}, at) \union Nearest({f \in fs : f[1] >= at}, at)
Amid(fs, at, v) == /\ \E f \in Near(fs, at) : f[2] * Fine <= v
                   /\ \E f \in Near(fs, at) : v <= f[2] * Fine

LEMMA Greatest ==
    ASSUME NEW n \in Nat, NEW T \in SUBSET (1..n), T # {}
    PROVE  \E m \in T : \A k \in T : k <= m
  <1>1. PICK U : U = {n - i : i \in T}
    OBVIOUS
  <1>2. U \in SUBSET Nat /\ U # {}
    <2>1. \A i \in T : n - i \in Nat
      OBVIOUS
    <2>2. QED BY <1>1, <2>1
  <1>3. PICK u \in U : \A w \in U : u <= w
    BY <1>2, Least
  <1>4. PICK m \in T : u = n - m
    BY <1>1
  <1>5. ASSUME NEW k \in T PROVE k <= m
    <2>1. n - m <= n - k
      BY <1>1, <1>3, <1>4
    <2>2. QED BY <2>1
  <1>6. QED BY <1>5

\* Distances are compared by their squares.
LEMMA Squares ==
    ASSUME NEW a \in 0..4, NEW b \in 0..4, NEW at \in 0..4, (a <= at /\ b <= a) \/ (a >= at /\ b >= a)
    PROVE  (a - at) * (a - at) <= (b - at) * (b - at)
  <1>1. a \in {0, 1, 2, 3, 4} /\ b \in {0, 1, 2, 3, 4} /\ at \in {0, 1, 2, 3, 4}
    OBVIOUS
  <1>2. QED BY <1>1

LEMMA NearestBelow ==
    ASSUME NEW fs \in SUBSET ((0..4) \X Int), NEW at \in 0..4, NEW f \in fs, f[1] <= at,
           \A g \in fs : g[1] <= at => g[1] <= f[1]
    PROVE  f \in Near(fs, at)
  <1>1. \A g \in fs : g[1] \in 0..4
    OBVIOUS
  <1>2. ASSUME NEW g \in fs, g[1] <= at PROVE (f[1] - at) * (f[1] - at) <= (g[1] - at) * (g[1] - at)
    <2>1. f[1] \in 0..4 /\ g[1] \in 0..4 /\ g[1] <= f[1]
      BY <1>1, <1>2
    <2>2. QED BY <2>1, Squares
  <1>3. f \in Nearest({h \in fs : h[1] <= at}, at)
    BY <1>2 DEF Nearest
  <1>4. QED BY <1>3 DEF Near

LEMMA NearestAbove ==
    ASSUME NEW fs \in SUBSET ((0..4) \X Int), NEW at \in 0..4, NEW f \in fs, f[1] >= at,
           \A g \in fs : g[1] >= at => g[1] >= f[1]
    PROVE  f \in Near(fs, at)
  <1>1. \A g \in fs : g[1] \in 0..4
    OBVIOUS
  <1>2. ASSUME NEW g \in fs, g[1] >= at PROVE (f[1] - at) * (f[1] - at) <= (g[1] - at) * (g[1] - at)
    <2>1. f[1] \in 0..4 /\ g[1] \in 0..4 /\ g[1] >= f[1]
      BY <1>1, <1>2
    <2>2. QED BY <2>1, Squares
  <1>3. f \in Nearest({h \in fs : h[1] >= at}, at)
    BY <1>2 DEF Nearest
  <1>4. QED BY <1>3 DEF Near

\* An eased step goes from nothing to all of the way.
LEMMA EaseBounds ==
    ASSUME NEW s \in 1..4, NEW d \in 1..s, NEW curve
    PROVE  Ease(curve, d, s) \in 0..Fine /\ (d = s => Ease(curve, d, s) = Fine)
  <1>1. Fine \div 1 = 1728 /\ Fine \div 2 = 864 /\ Fine \div 3 = 576 /\ Fine \div 4 = 432
    BY DEF Fine
  <1>2. Fine \div 8 = 216 /\ Fine \div 27 = 64 /\ Fine \div 64 = 27
    BY DEF Fine
  <1>3. CASE s = 1
    <2>1. d = 1 /\ s * s * s = 1
      BY <1>3
    <2>2. QED BY <1>1, <1>3, <2>1 DEF Ease, Fine
  <1>4. CASE s = 2
    <2>1. (d = 1 \/ d = 2) /\ s * s * s = 8
      BY <1>4
    <2>2. QED BY <1>1, <1>2, <1>4, <2>1 DEF Ease, Fine
  <1>5. CASE s = 3
    <2>1. (d = 1 \/ d = 2 \/ d = 3) /\ s * s * s = 27
      BY <1>5
    <2>2. QED BY <1>1, <1>2, <1>5, <2>1 DEF Ease, Fine
  <1>6. CASE s = 4
    <2>1. (d = 1 \/ d = 2 \/ d = 3 \/ d = 4) /\ s * s * s = 64
      BY <1>6
    <2>2. QED BY <1>1, <1>2, <1>6, <2>1 DEF Ease, Fine
  <1>7. QED BY <1>3, <1>4, <1>5, <1>6

LEMMA Between2 ==
    ASSUME NEW a \in Int, NEW b \in Int, NEW e \in 0..Fine
    PROVE  /\ a * Fine + (b - a) * e \in Int
           /\ a * Fine <= a * Fine + (b - a) * e \/ b * Fine <= a * Fine + (b - a) * e
           /\ a * Fine + (b - a) * e <= a * Fine \/ a * Fine + (b - a) * e <= b * Fine
           /\ e = Fine => a * Fine + (b - a) * e = b * Fine
  <1>1. PICK F \in Nat : F = Fine
    BY DEF Fine
  <1>2. PICK x : x = (b - a) * e
    OBVIOUS
  <1>3. x \in Int /\ (b - a) * F = b * F - a * F
    BY <1>1, <1>2
  <1>4. CASE b >= a
    <2>1. 0 <= x /\ x <= (b - a) * F
      BY <1>1, <1>2, <1>4
    <2>2. QED BY <1>1, <1>2, <1>3, <2>1
  <1>5. CASE b < a
    <2>1. x <= 0 /\ (b - a) * F <= x
      BY <1>1, <1>2, <1>5
    <2>2. QED BY <1>1, <1>2, <1>3, <2>1
  <1>6. QED BY <1>4, <1>5

LEMMA EvaluateEnds ==
    ASSUME NEW pts, NEW at, NEW curve
    PROVE  /\ at <= pts[1][1] => Evaluate(pts, curve, at) = pts[1][2] * Fine
           /\ ~(at <= pts[1][1]) /\ at >= pts[Len(pts)][1] => Evaluate(pts, curve, at) = pts[Len(pts)][2] * Fine
  BY Zenon DEF Evaluate

LEMMA EvaluateStep ==
    ASSUME NEW pts, NEW at, ~(at <= pts[1][1]), ~(at >= pts[Len(pts)][1]), NEW h,
           h = CHOOSE k \in DOMAIN pts : pts[k][1] <= at /\ ~\E l \in DOMAIN pts : pts[l][1] <= at /\ l > k
    PROVE  Evaluate(pts, "step", at) = pts[h][2] * Fine
  BY Zenon DEF Evaluate

LEMMA EvaluateSpan ==
    ASSUME NEW pts, NEW at, ~(at <= pts[1][1]), ~(at >= pts[Len(pts)][1]), NEW curve, curve # "step",
           NEW spans, spans = {i \in 1..(Len(pts) - 1) : pts[i][1] <= at /\ at <= pts[i + 1][1]},
           NEW i, i = CHOOSE j \in spans : \A l \in spans : j <= l,
           ~(pts[i + 1][1] - pts[i][1] = 0)
    PROVE  Evaluate(pts, curve, at) =
             pts[i][2] * Fine
               + (pts[i + 1][2] - pts[i][2]) * Ease(curve, at - pts[i][1], pts[i + 1][1] - pts[i][1])
  BY Zenon DEF Evaluate

LEMMA EvaluateAmid ==
    ASSUME NEW pts \in Seq((0..4) \X Int), Rising(pts), pts # <<>>, NEW at \in 0..4, NEW curve
    PROVE  Evaluate(pts, curve, at) \in Int /\ Amid(ToSet(pts), at, Evaluate(pts, curve, at))
  <1>1. PICK n, v, fs : n = Len(pts) /\ v = Evaluate(pts, curve, at) /\ fs = ToSet(pts)
    OBVIOUS
  <1>2. n \in Nat \ {0} /\ DOMAIN pts = 1..n /\ 1 \in 1..n /\ n \in 1..n
    BY <1>1
  <1>3. \A i \in 1..n : pts[i] \in (0..4) \X Int /\ pts[i][1] \in 0..4 /\ pts[i][2] \in Int
    BY <1>2
  <1>4. \A i, k \in 1..n : i <= k => pts[i][1] <= pts[k][1]
    BY <1>2 DEF Rising
  <1>5. fs \subseteq (0..4) \X Int /\ \A i \in 1..n : pts[i] \in fs
    BY <1>1, <1>2, <1>3 DEF ToSet
  <1>6. \A f \in fs : \E i \in 1..n : f = pts[i]
    BY <1>1, <1>2 DEF ToSet
  <1>7. Fine \in Nat
    BY DEF Fine
  <1>8. ASSUME NEW f \in Near(fs, at), f[2] \in Int, v = f[2] * Fine
        PROVE  v \in Int /\ Amid(fs, at, v)
    <2>1. f[2] * Fine \in Int
      BY <1>7, <1>8
    <2>2. QED BY <1>8, <2>1 DEF Amid
  <1>9. CASE at <= pts[1][1]
    <2>1. v = pts[1][2] * Fine
      BY <1>1, <1>9, EvaluateEnds
    <2>2. \A f \in fs : f[1] >= at => f[1] >= pts[1][1]
      BY <1>2, <1>3, <1>4, <1>6
    <2>3. pts[1] \in Near(fs, at)
      BY <1>2, <1>3, <1>5, <1>9, <2>2, NearestAbove
    <2>4. QED BY <1>1, <1>2, <1>3, <1>8, <2>1, <2>3
  <1>10. CASE at > pts[1][1] /\ at >= pts[n][1]
    <2>1. v = pts[n][2] * Fine
      <3>1. ~(at <= pts[1][1]) /\ at >= pts[Len(pts)][1]
        BY <1>1, <1>2, <1>3, <1>10
      <3>2. QED BY <1>1, <3>1, EvaluateEnds, Zenon
    <2>2. \A f \in fs : f[1] <= at => f[1] <= pts[n][1]
      BY <1>2, <1>3, <1>4, <1>6
    <2>3. pts[n] \in Near(fs, at)
      BY <1>2, <1>3, <1>5, <1>10, <2>2, NearestBelow
    <2>4. QED BY <1>1, <1>2, <1>3, <1>8, <2>1, <2>3
  <1>11. CASE at > pts[1][1] /\ at < pts[n][1]
    <2>0. ~(at <= pts[1][1]) /\ ~(at >= pts[Len(pts)][1])
      BY <1>1, <1>2, <1>3, <1>11
    <2>1. PICK k \in 1..n : pts[k][1] <= at /\ \A l \in 1..n : pts[l][1] <= at => l <= k
      <3>1. PICK T : T = {i \in 1..n : pts[i][1] <= at}
        OBVIOUS
      <3>2. 1 \in T
        BY <1>2, <1>3, <1>11, <3>1
      <3>3. PICK k \in T : \A l \in T : l <= k
        BY <1>2, <3>1, <3>2, Greatest
      <3>4. QED BY <3>1, <3>3
    <2>2. CASE curve = "step"
      <3>2. PICK h : h = CHOOSE j \in DOMAIN pts : pts[j][1] <= at /\ ~\E l \in DOMAIN pts : pts[l][1] <= at /\ l > j
        OBVIOUS
      <3>3. h \in 1..n /\ pts[h][1] <= at /\ ~\E l \in 1..n : pts[l][1] <= at /\ l > h
        <4>1. ~\E l \in 1..n : pts[l][1] <= at /\ l > k
          BY <2>1
        <4>2. \E j \in DOMAIN pts : pts[j][1] <= at /\ ~\E l \in DOMAIN pts : pts[l][1] <= at /\ l > j
          BY <1>2, <2>1, <4>1
        <4>3. QED BY <1>2, <3>2, <4>2, Zenon
      <3>4. v = pts[h][2] * Fine
        BY <1>1, <2>0, <2>2, <3>2, EvaluateStep, Zenon
      <3>5. \A f \in fs : f[1] <= at => f[1] <= pts[h][1]
        <4>1. ASSUME NEW l \in 1..n, pts[l][1] <= at PROVE pts[l][1] <= pts[h][1]
          BY <1>4, <3>3, <4>1
        <4>2. QED BY <1>6, <4>1
      <3>6. pts[h] \in Near(fs, at)
        BY <1>5, <3>3, <3>5, NearestBelow
      <3>7. QED BY <1>1, <1>3, <1>8, <3>3, <3>4, <3>6
    <2>3. CASE curve # "step"
      <3>1. PICK spans : spans = {i \in 1..(n - 1) : pts[i][1] <= at /\ at <= pts[i + 1][1]}
        OBVIOUS
      <3>2. k \in spans
        <4>1. k # n
          BY <1>2, <1>3, <1>11, <2>1
        <4>2. k + 1 \in 1..n /\ k \in 1..(n - 1)
          BY <1>2, <4>1
        <4>3. ~(pts[k + 1][1] <= at)
          <5>1. PICK l \in 1..n : l = k + 1
            BY <4>2
          <5>2. ~(l <= k)
            BY <1>2, <5>1
          <5>3. ~(pts[l][1] <= at)
            BY <2>1, <5>2
          <5>4. QED BY <5>1, <5>3
        <4>4. at <= pts[k + 1][1]
          <5>1. PICK l \in 1..n : l = k + 1
            BY <4>2
          <5>2. PICK y \in 0..4 : y = pts[l][1]
            BY <1>3
          <5>3. ~(y <= at)
            BY <4>3, <5>1, <5>2
          <5>4. at <= y
            BY <5>3
          <5>5. QED BY <5>1, <5>2, <5>4
        <4>5. QED BY <2>1, <3>1, <4>2, <4>4
      <3>3. PICK i : i = CHOOSE j \in spans : \A l \in spans : j <= l
        OBVIOUS
      <3>4. i \in spans /\ \A l \in spans : i <= l
        <4>1. spans \in SUBSET Nat
          BY <1>2, <3>1
        <4>2. \E m \in spans : \A l \in spans : m <= l
          BY <3>2, <4>1, Least
        <4>3. QED BY <3>3, <4>2
      <3>5. i \in 1..(n - 1) /\ i \in 1..n /\ i + 1 \in 1..n /\ pts[i][1] <= at /\ at <= pts[i + 1][1]
        BY <1>2, <3>1, <3>4
      <3>6. pts[i][1] < at
        <4>1. CASE i = 1
          BY <1>3, <1>11, <3>5, <4>1
        <4>2. CASE i # 1
          <5>1. PICK j : j = i - 1
            OBVIOUS
          <5>2. j \in 1..(n - 1) /\ j \in 1..n /\ j + 1 = i /\ ~(i <= j)
            BY <1>2, <3>5, <4>2, <5>1
          <5>3. PICK x, y : x = pts[j][1] /\ y = pts[i][1] /\ x \in 0..4 /\ y \in 0..4 /\ x <= y /\ y <= at
            BY <1>3, <1>4, <3>5, <5>2
          <5>4. x <= at
            BY <5>3
          <5>5. ~(at <= y)
            BY <3>1, <3>4, <5>2, <5>3, <5>4
          <5>6. QED BY <5>3, <5>5
        <4>3. QED BY <4>1, <4>2
      <3>7. PICK a, b, p, q, s, d, e : /\ a = pts[i][2] /\ b = pts[i + 1][2] /\ p = pts[i][1] /\ q = pts[i + 1][1]
                                       /\ s = q - p /\ d = at - p /\ e = Ease(curve, d, s)
        OBVIOUS
      <3>8. a \in Int /\ b \in Int /\ p \in 0..4 /\ q \in 0..4 /\ s \in 1..4 /\ d \in 1..s
        <4>1. a \in Int /\ b \in Int /\ p \in 0..4 /\ q \in 0..4
          BY <1>3, <3>5, <3>7
        <4>2. p < at /\ at <= q
          BY <3>5, <3>6, <3>7
        <4>3. at \in 0..4
          OBVIOUS
        <4>4. s = q - p /\ d = at - p
          BY <3>7
        <4>5. QED BY ONLY <4>1, <4>2, <4>3, <4>4
      <3>9. e \in 0..Fine /\ (d = s => e = Fine)
        BY <3>7, <3>8, EaseBounds
      <3>10. v = a * Fine + (b - a) * e
        <4>1. ~(s = 0)
          BY <3>8
        <4>2. spans = {l \in 1..(Len(pts) - 1) : pts[l][1] <= at /\ at <= pts[l + 1][1]}
          BY <1>1, <3>1
        <4>3. QED BY <1>1, <2>0, <2>3, <3>3, <3>7, <4>1, <4>2, EvaluateSpan, Zenon
      <3>11. pts[i + 1] \in Near(fs, at)
        <4>1. ASSUME NEW l \in 1..n, pts[l][1] >= at PROVE pts[l][1] >= pts[i + 1][1]
          <5>1. ~(l <= i)
            <6>1. pts[l][1] \in 0..4 /\ pts[i][1] \in 0..4 /\ (l <= i => pts[l][1] <= pts[i][1])
              BY <1>3, <1>4, <3>5
            <6>2. QED BY <3>6, <4>1, <6>1
          <5>2. i + 1 <= l
            BY <3>5, <5>1
          <5>3. pts[i + 1][1] <= pts[l][1]
            BY <1>4, <3>5, <5>2
          <5>4. QED BY <1>3, <3>5, <5>3
        <4>2. \A f \in fs : f[1] >= at => f[1] >= pts[i + 1][1]
          BY <1>6, <4>1
        <4>3. pts[i + 1][1] >= at
          BY <1>3, <3>5
        <4>4. QED BY <1>5, <3>5, <4>2, <4>3, NearestAbove
      <3>12. CASE q = at
        <4>1. v = pts[i + 1][2] * Fine
          BY <3>7, <3>8, <3>9, <3>10, <3>12, Between2
        <4>2. QED BY <1>1, <1>3, <1>8, <3>5, <3>11, <4>1
      <3>13. CASE q # at
        <4>1. ASSUME NEW l \in 1..n, pts[l][1] <= at PROVE pts[l][1] <= pts[i][1]
          <5>1. ~(i + 1 <= l)
            <6>1. pts[l][1] \in 0..4 /\ (i + 1 <= l => q <= pts[l][1])
              BY <1>3, <1>4, <3>5, <3>7
            <6>2. at <= q
              BY <3>5, <3>7
            <6>3. QED BY <3>8, <3>13, <4>1, <6>1, <6>2
          <5>2. l <= i
            BY <3>5, <5>1
          <5>3. QED BY <1>4, <3>5, <5>2
        <4>2. \A f \in fs : f[1] <= at => f[1] <= pts[i][1]
          BY <1>6, <4>1
        <4>3. pts[i] \in Near(fs, at)
          BY <1>5, <3>5, <4>2, NearestBelow
        <4>4. /\ v \in Int /\ (a * Fine <= v \/ b * Fine <= v) /\ (v <= a * Fine \/ v <= b * Fine)
          BY <3>8, <3>9, <3>10, Between2
        <4>5. QED BY <1>1, <3>7, <3>11, <4>3, <4>4 DEF Amid
      <3>14. QED BY <3>12, <3>13
    <2>4. QED BY <2>2, <2>3
  <1>12. pts[1][1] \in 0..4 /\ pts[n][1] \in 0..4
    BY <1>2, <1>3
  <1>13. QED BY <1>9, <1>10, <1>11, <1>12

LEMMA WithinRises ==
    ASSUME NEW low \in Int, NEW high \in Int, low <= high, NEW v \in Int
    PROVE  /\ Within(low, high, v) \in Int
           /\ \A w \in Int : v <= w => Within(low, high, v) <= Within(low, high, w)
           /\ \A w \in Int : w <= v => Within(low, high, w) <= Within(low, high, v)
  BY DEF Within

LEMMA DrivenBetween ==
    ASSUME NEW t, t.frames \in Seq(Int \X Int), Points(t.frames) # <<>>, NEW at \in 0..4
    PROVE  Driven(t, at) \in Int /\ Between(t, at, Driven(t, at))
  <1>1. PICK pts : pts = Points(t.frames)
    OBVIOUS
  <1>2. pts \in Seq((0..4) \X Int) /\ Rising(pts) /\ ToSet(pts) = Frames(t)
    BY <1>1, PointsRise DEF Usable, Frames
  <1>3. PICK v : v = Evaluate(pts, t.curve, at)
    OBVIOUS
  <1>4. v \in Int /\ Amid(Frames(t), at, v)
    BY <1>1, <1>2, <1>3, EvaluateAmid
  <1>5. PICK low, high : low = PathMin(t.path) /\ high = PathMax(t.path)
    OBVIOUS
  <1>6. low \in Int /\ high \in Int /\ low <= high
    BY <1>5 DEF PathMin, PathMax, Fine
  <1>7. Driven(t, at) = Within(low, high, v)
    BY <1>1, <1>3, <1>5 DEF Driven
  <1>8. Neighbours(t, at) = Near(Frames(t), at)
    BY DEF Neighbours, Near, Before, After
  <1>9. ASSUME NEW f \in Near(Frames(t), at) PROVE f[2] * Fine \in Int
    <2>1. f \in ToSet(pts)
      BY <1>2, <1>9 DEF Near, Nearest
    <2>2. f \in (0..4) \X Int
      BY <1>2, <2>1 DEF ToSet
    <2>3. QED BY <2>2 DEF Fine
  <1>10. PICK f \in Near(Frames(t), at) : f[2] * Fine <= v
    BY <1>4 DEF Amid
  <1>11. PICK g \in Near(Frames(t), at) : v <= g[2] * Fine
    BY <1>4 DEF Amid
  <1>12. /\ Within(low, high, f[2] * Fine) <= Within(low, high, v)
         /\ Within(low, high, v) <= Within(low, high, g[2] * Fine)
    BY <1>4, <1>6, <1>9, <1>10, <1>11, WithinRises
  <1>13. Driven(t, at) \in Int
    BY <1>4, <1>6, <1>7, WithinRises
  <1>14. QED BY <1>5, <1>7, <1>8, <1>12, <1>13 DEF Between

-----------------------------------------------------------------------------
(* Functions defined by steps from 0.                                          *)

LEMMA UpTo ==
    ASSUME NEW N \in Nat, NEW S, 0 \in S, \A n \in 1..N : n - 1 \in S => n \in S
    PROVE  \A n \in 0..N : n \in S
  <1> DEFINE T == {n \in Nat : n <= N => n \in S}
  <1>1. 0 \in T
    OBVIOUS
  <1>2. ASSUME NEW n \in Nat, n \in T PROVE n + 1 \in T
    <2>1. CASE n + 1 <= N
      <3>1. n + 1 \in 1..N /\ (n + 1) - 1 = n /\ n \in S
        BY <1>2, <2>1
      <3>2. n + 1 \in S
        BY <3>1
      <3>3. QED BY <3>2
    <2>2. CASE ~(n + 1 <= N)
      BY <2>2
    <2>3. QED BY <2>1, <2>2
  <1>3. Nat \subseteq T
    BY <1>1, <1>2, Induction
  <1>4. QED BY <1>3

Iterates(f, N, x, step) == f = [n \in 0..N |-> IF n = 0 THEN x ELSE step[<<n, f[n - 1]>>]]

LEMMA Iterated ==
    ASSUME NEW X, NEW N \in Nat, NEW x \in X, NEW step \in [(1..N) \X X -> X]
    PROVE  \E f \in [0..N -> X] : Iterates(f, N, x, step)
  <1> DEFINE Is(f, m) == /\ f \in [0..m -> X] /\ f[0] = x
                         /\ \A n \in 1..m : f[n] = step[<<n, f[n - 1]>>]
             S == {m \in Nat : \E f : Is(f, m)}
  <1>1. 0 \in S
    <2>1. PICK f : f = [n \in 0..0 |-> x]
      OBVIOUS
    <2>2. Is(f, 0)
      BY <2>1
    <2>3. QED BY <2>2
  <1>2. ASSUME NEW m \in 1..N, m - 1 \in S PROVE m \in S
    <2>1. PICK k \in Nat : k = m - 1
      OBVIOUS
    <2>2. PICK g : Is(g, k)
      BY <1>2, <2>1
    <2>3. PICK y : y = step[<<m, g[k]>>]
      OBVIOUS
    <2>4. m \in Nat /\ y \in X /\ \A n \in 0..m : n = m \/ n \in 0..k
      BY <2>1, <2>2, <2>3
    <2>5. PICK f : f = [n \in 0..m |-> IF n = m THEN y ELSE g[n]]
      OBVIOUS
    <2>6. f[m] = y /\ \A n \in 0..k : f[n] = g[n]
      BY <2>1, <2>5
    <2>7. f \in [0..m -> X]
      BY <2>2, <2>4, <2>5
    <2>8. ASSUME NEW n \in 1..m PROVE f[n] = step[<<n, f[n - 1]>>]
      <3>1. CASE n = m
        BY <2>1, <2>3, <2>6, <3>1
      <3>2. CASE n # m
        <4>1. n \in 1..k /\ n \in 0..k /\ n - 1 \in 0..k
          BY <2>1, <3>2
        <4>2. g[n] = step[<<n, g[n - 1]>>]
          BY <2>2, <4>1
        <4>3. QED BY <2>6, <4>1, <4>2
      <3>3. QED BY <3>1, <3>2
    <2>9. f[0] = x
      BY <2>1, <2>2, <2>6
    <2>10. Is(f, m)
      BY <2>7, <2>8, <2>9
    <2>11. QED BY <2>4, <2>10
  <1>3. N \in S
    <2> HIDE DEF S
    <2>1. QED BY <1>1, <1>2, UpTo
  <1>4. PICK f : Is(f, N)
    BY <1>3
  <1>5. \A n \in 0..N : f[n] = IF n = 0 THEN x ELSE step[<<n, f[n - 1]>>]
    BY <1>4
  <1>6. f = [n \in 0..N |-> IF n = 0 THEN x ELSE step[<<n, f[n - 1]>>]]
    BY <1>4, <1>5
  <1>7. QED BY <1>4, <1>6 DEF Iterates

-----------------------------------------------------------------------------
(* Automation.  What a control is left with by a list of tracks, then by the   *)
(* scopes of a segment, one after the other.                                   *)

Settings == [Paths -> Int]
TracksOK(tracks) == tracks \in Seq(ToSet(tracks)) /\ \A t \in ToSet(tracks) : t.frames \in Seq(Int \X Int)
Automated(f, par, tracks, scope, key, at, wide) ==
    f = [n \in 0..Len(tracks) |->
           IF n = 0 THEN par
           ELSE IF Applies(tracks[n], scope, key, wide)
                THEN [f[n - 1] EXCEPT ![tracks[n].path] = Driven(tracks[n], at)]
                ELSE f[n - 1]]

LEMMA TrackAt ==
    ASSUME NEW tracks, TracksOK(tracks)
    PROVE  /\ Len(tracks) \in Nat /\ DOMAIN tracks = 1..Len(tracks)
           /\ \A n \in 1..Len(tracks) : tracks[n] \in ToSet(tracks) /\ tracks[n].frames \in Seq(Int \X Int)
  <1>1. Len(tracks) \in Nat /\ DOMAIN tracks = 1..Len(tracks)
    BY DEF TracksOK
  <1>2. \A n \in 1..Len(tracks) : tracks[n] \in ToSet(tracks)
    BY <1>1 DEF ToSet
  <1>3. QED BY <1>1, <1>2 DEF TracksOK

LEMMA AutomatedExists ==
    ASSUME NEW par \in Settings, NEW tracks, TracksOK(tracks), NEW scope, NEW key, NEW at \in 0..4, NEW wide
    PROVE  \E f : Automated(f, par, tracks, scope, key, at, wide)
  <1>1. PICK N \in Nat : N = Len(tracks)
    BY TrackAt
  <1>2. PICK step : step = [a \in (1..N) \X Settings |->
                              IF Applies(tracks[a[1]], scope, key, wide)
                              THEN [a[2] EXCEPT ![tracks[a[1]].path] = Driven(tracks[a[1]], at)]
                              ELSE a[2]]
    OBVIOUS
  <1>3. ASSUME NEW n \in 1..N, NEW s \in Settings
        PROVE  /\ step[<<n, s>>] = IF Applies(tracks[n], scope, key, wide)
                                   THEN [s EXCEPT ![tracks[n].path] = Driven(tracks[n], at)] ELSE s
               /\ step[<<n, s>>] \in Settings
    <2>1. step[<<n, s>>] = IF Applies(tracks[n], scope, key, wide)
                           THEN [s EXCEPT ![tracks[n].path] = Driven(tracks[n], at)] ELSE s
      BY <1>2
    <2>2. CASE Applies(tracks[n], scope, key, wide)
      <3>1. Driven(tracks[n], at) \in Int
        BY <1>1, <2>2, TrackAt, DrivenBetween DEF Applies
      <3>2. PICK d \in Int : d = Driven(tracks[n], at)
        BY <3>1
      <3>3. [s EXCEPT ![tracks[n].path] = d] \in Settings
        BY <3>2 DEF Settings
      <3>4. QED BY <2>1, <2>2, <3>2, <3>3
    <2>3. CASE ~Applies(tracks[n], scope, key, wide)
      BY <2>1, <2>3
    <2>4. QED BY <2>1, <2>2, <2>3
  <1>4. step \in [(1..N) \X Settings -> Settings]
    <2>1. \A a \in (1..N) \X Settings : step[a] \in Settings
      <3> SUFFICES ASSUME NEW a \in (1..N) \X Settings PROVE step[a] \in Settings
        OBVIOUS
      <3>1. PICK n \in 1..N, s \in Settings : a = <<n, s>>
        OBVIOUS
      <3>2. QED BY <1>3, <3>1
    <2>2. QED BY <1>2, <2>1
  <1>5. PICK f \in [0..N -> Settings] : Iterates(f, N, par, step)
    BY <1>4, Iterated
  <1>6. ASSUME NEW n \in 0..N
        PROVE  f[n] = IF n = 0 THEN par
                      ELSE IF Applies(tracks[n], scope, key, wide)
                           THEN [f[n - 1] EXCEPT ![tracks[n].path] = Driven(tracks[n], at)] ELSE f[n - 1]
    <2>1. f[n] = IF n = 0 THEN par ELSE step[<<n, f[n - 1]>>]
      BY <1>5 DEF Iterates
    <2>2. CASE n = 0
      BY <2>1, <2>2
    <2>3. CASE n # 0
      <3>1. n \in 1..N /\ f[n - 1] \in Settings
        BY <1>5, <2>3
      <3>2. step[<<n, f[n - 1]>>] = IF Applies(tracks[n], scope, key, wide)
                THEN [f[n - 1] EXCEPT ![tracks[n].path] = Driven(tracks[n], at)] ELSE f[n - 1]
        BY <1>3, <3>1
      <3>3. QED BY <2>1, <2>3, <3>2, Zenon
    <2>4. QED BY <2>2, <2>3
  <1>7. DOMAIN f = 0..N
    BY <1>5
  <1>8. f = [n \in 0..N |-> IF n = 0 THEN par
                            ELSE IF Applies(tracks[n], scope, key, wide)
                                 THEN [f[n - 1] EXCEPT ![tracks[n].path] = Driven(tracks[n], at)] ELSE f[n - 1]]
    BY <1>5, <1>6, <1>7
  <1>9. Automated(f, par, tracks, scope, key, at, wide)
    BY <1>1, <1>8, Zenon DEF Automated
  <1>10. QED BY <1>9

LEMMA AutomateIs ==
    ASSUME NEW par \in Settings, NEW tracks, TracksOK(tracks), NEW scope, NEW key, NEW at \in 0..4, NEW wide
    PROVE  \E f : /\ Automated(f, par, tracks, scope, key, at, wide)
                  /\ Automate(par, tracks, scope, key, at, wide) = f[Len(tracks)]
  <1>1. PICK f : f = CHOOSE g : Automated(g, par, tracks, scope, key, at, wide)
    OBVIOUS
  <1>2. Automated(f, par, tracks, scope, key, at, wide)
    BY <1>1, AutomatedExists
  <1>3. Automate(par, tracks, scope, key, at, wide) = f[Len(tracks)]
    BY <1>1, Zenon DEF Automate, Automated
  <1>4. QED BY <1>2, <1>3

\* The tracks of a scope that drive p.
Drives(t, p, scope, key, wide) == Applies(t, scope, key, wide) /\ t.path = p

AutomateLeaves(result, par, tracks, scope, key, at, wide, p) ==
    /\ result \in Settings
    /\ (\A n \in DOMAIN tracks : ~Drives(tracks[n], p, scope, key, wide)) => result[p] = par[p]
    /\ \A m \in DOMAIN tracks :
          /\ Drives(tracks[m], p, scope, key, wide)
          /\ \A k \in DOMAIN tracks : Drives(tracks[k], p, scope, key, wide) => k <= m
          => result[p] = Driven(tracks[m], at)

LEMMA AutomateLast ==
    ASSUME NEW par \in Settings, NEW tracks, TracksOK(tracks), NEW scope, NEW key, NEW at \in 0..4, NEW wide,
           NEW p \in Paths, NEW result, result = Automate(par, tracks, scope, key, at, wide)
    PROVE  AutomateLeaves(result, par, tracks, scope, key, at, wide, p)
  <1>1. PICK N \in Nat : N = Len(tracks) /\ DOMAIN tracks = 1..N
    BY TrackAt
  <1>2. PICK f : Automated(f, par, tracks, scope, key, at, wide) /\ result = f[N]
    BY <1>1, AutomateIs
  <1>3. PICK I : I = {n \in 1..N : Drives(tracks[n], p, scope, key, wide)}
    OBVIOUS
  <1>4. /\ f[0] = par
        /\ \A n \in 1..N : f[n] = IF Applies(tracks[n], scope, key, wide)
                                  THEN [f[n - 1] EXCEPT ![tracks[n].path] = Driven(tracks[n], at)] ELSE f[n - 1]
    <2>1. f = [n \in 0..N |-> IF n = 0 THEN par
                              ELSE IF Applies(tracks[n], scope, key, wide)
                                   THEN [f[n - 1] EXCEPT ![tracks[n].path] = Driven(tracks[n], at)] ELSE f[n - 1]]
      BY <1>1, <1>2, Zenon DEF Automated
    <2>2. ASSUME NEW n \in 0..N
          PROVE  f[n] = IF n = 0 THEN par
                        ELSE IF Applies(tracks[n], scope, key, wide)
                             THEN [f[n - 1] EXCEPT ![tracks[n].path] = Driven(tracks[n], at)] ELSE f[n - 1]
      BY <2>1, Zenon
    <2>3. \A n \in 1..N : n \in 0..N /\ n # 0
      OBVIOUS
    <2>4. 0 \in 0..N
      OBVIOUS
    <2>5. QED BY <2>2, <2>3, <2>4, Zenon
  <1>5. ASSUME NEW n \in 1..N, f[n - 1] \in Settings
        PROVE  /\ f[n] \in Settings
               /\ n \in I => f[n][p] = Driven(tracks[n], at)
               /\ n \notin I => f[n][p] = f[n - 1][p]
    <2>1. PICK s \in Settings : s = f[n - 1]
      BY <1>5
    <2>2. CASE Applies(tracks[n], scope, key, wide)
      <3>1. PICK d \in Int : d = Driven(tracks[n], at)
        BY <1>1, <2>2, TrackAt, DrivenBetween DEF Applies
      <3>2. f[n] = [s EXCEPT ![tracks[n].path] = d]
        BY <1>4, <2>1, <2>2, <3>1
      <3>3. f[n] \in Settings /\ tracks[n].path \in Paths
        BY <2>2, <3>2 DEF Settings, Applies
      <3>4. CASE tracks[n].path = p
        <4>1. n \in I /\ f[n][p] = d
          BY <1>3, <2>2, <3>2, <3>4 DEF Drives, Settings
        <4>2. QED BY <3>1, <3>3, <4>1
      <3>5. CASE tracks[n].path # p
        <4>1. n \notin I /\ f[n][p] = s[p]
          BY <1>3, <2>2, <3>2, <3>5 DEF Drives, Settings
        <4>2. QED BY <2>1, <3>3, <4>1
      <3>6. QED BY <3>4, <3>5
    <2>3. CASE ~Applies(tracks[n], scope, key, wide)
      <3>1. n \notin I /\ f[n] = s
        BY <1>3, <1>4, <2>1, <2>3 DEF Drives
      <3>2. QED BY <2>1, <3>1
    <2>4. QED BY <2>2, <2>3
  <1> DEFINE Left(n) == /\ f[n] \in Settings
                        /\ (\A k \in I : n < k) => f[n][p] = par[p]
                        /\ \A m \in I : m <= n /\ (\A k \in I : k <= n => k <= m) => f[n][p] = Driven(tracks[m], at)
             S == {n \in 0..N : Left(n)}
  <1>6. Left(0)
    BY <1>3, <1>4
  <1>7. ASSUME NEW n \in 1..N, Left(n - 1) PROVE Left(n)
    <2>1. f[n - 1] \in Settings
      BY <1>7
    <2>2. CASE n \in I
      <3>1. f[n] \in Settings /\ f[n][p] = Driven(tracks[n], at)
        BY <1>5, <2>1, <2>2
      <3>2. ~(\A k \in I : n < k)
        BY <2>2
      <3>3. ASSUME NEW m \in I, m <= n, \A k \in I : k <= n => k <= m PROVE m = n
        BY <1>3, <2>2, <3>3
      <3>4. QED BY <3>1, <3>2, <3>3
    <2>3. CASE n \notin I
      <3>1. f[n] \in Settings /\ f[n][p] = f[n - 1][p]
        BY <1>5, <2>1, <2>3
      <3>2. \A k \in I : (k <= n <=> k <= n - 1) /\ (n < k => n - 1 < k)
        BY <1>3, <2>3
      <3>3. (\A k \in I : n < k) => f[n][p] = par[p]
        BY <1>7, <3>1, <3>2
      <3>4. ASSUME NEW m \in I, m <= n, \A k \in I : k <= n => k <= m PROVE f[n][p] = Driven(tracks[m], at)
        BY <1>7, <3>1, <3>2, <3>4
      <3>5. QED BY <3>1, <3>3, <3>4
    <2>4. QED BY <2>2, <2>3
  <1>8. Left(N)
    <2> HIDE DEF Left
    <2>1. 0 \in S
      BY <1>6
    <2>2. ASSUME NEW n \in 1..N, n - 1 \in S PROVE n \in S
      BY <1>7, <2>2
    <2>3. N \in S
      <3> HIDE DEF S
      <3>1. QED BY <2>1, <2>2, UpTo
    <2>4. QED BY <2>3
  <1>9. f[N] \in Settings
    BY <1>8
  <1>10. (\A n \in 1..N : ~Drives(tracks[n], p, scope, key, wide)) => f[N][p] = par[p]
    BY <1>3, <1>8
  <1>11. ASSUME NEW m \in 1..N, Drives(tracks[m], p, scope, key, wide),
                \A k \in 1..N : Drives(tracks[k], p, scope, key, wide) => k <= m
         PROVE  f[N][p] = Driven(tracks[m], at)
    <2>1. m \in I /\ m <= N /\ \A k \in I : k <= N => k <= m
      BY <1>3, <1>11
    <2>2. QED BY <1>8, <2>1
  <1>12. QED BY <1>1, <1>2, <1>9, <1>10, <1>11 DEF AutomateLeaves

SegmentOK(seg) == TracksOK(seg.tracks) /\ seg.position \in 0..4
DirectedBy(f, seg, scopes) ==
    f = [n \in 0..Len(scopes) |->
           IF n = 0 THEN Neutral
           ELSE Automate(f[n - 1], seg.tracks, scopes[n][1], scopes[n][2], seg.position, scopes[n][3])]

LEMMA ScopesAre ==
    ASSUME NEW seg, NEW scopes, scopes = Scopes(seg)
    PROVE  /\ Len(scopes) \in Nat /\ Len(scopes) >= 4
           /\ scopes[3] = <<"scene", seg.scene, FALSE>> /\ scopes[4] = <<"sentence", seg.sentence, FALSE>>
           /\ IF seg.speaker = "?" THEN Len(scopes) = 4
              ELSE Len(scopes) = 5 /\ scopes[5] = <<"character", seg.speaker, FALSE>>
  <1>1. PICK a, b, c, d, e : /\ a = <<"chapter", seg.chapter, TRUE>> /\ b = <<"chapter", seg.chapter + 1, FALSE>>
                             /\ c = <<"scene", seg.scene, FALSE>> /\ d = <<"sentence", seg.sentence, FALSE>>
                             /\ e = <<"character", seg.speaker, FALSE>>
    OBVIOUS
  <1>2. scopes = <<a, b, c, d>> \o (IF seg.speaker = "?" THEN <<>> ELSE <<e>>)
    BY <1>1 DEF Scopes
  <1>3. PICK X : X = {a, b, c, d, e}
    OBVIOUS
  <1>4. PICK front : front = <<a, b, c, d>>
    OBVIOUS
  <1>5. front \in Seq(X) /\ Len(front) = 4 /\ front[3] = c /\ front[4] = d
    BY <1>3, <1>4
  <1>6. CASE seg.speaker = "?"
    <2>1. scopes = front \o <<>>
      BY <1>2, <1>4, <1>6
    <2>2. scopes = front
      BY <1>5, <2>1
    <2>3. Len(scopes) = 4 /\ scopes[3] = c /\ scopes[4] = d
      BY <1>5, <2>2
    <2>4. QED BY <1>1, <1>6, <2>3
  <1>7. CASE seg.speaker # "?"
    <2>1. scopes = front \o <<e>>
      BY <1>2, <1>4, <1>7
    <2>2. scopes = Append(front, e) /\ e \in X
      BY <1>3, <1>5, <2>1
    <2>3. /\ Len(scopes) = Len(front) + 1 /\ scopes[Len(front) + 1] = e
          /\ \A i \in 1..Len(front) : scopes[i] = front[i]
      <3>1. /\ Len(Append(front, e)) = Len(front) + 1 /\ Append(front, e)[Len(front) + 1] = e
            /\ \A i \in 1..Len(front) : Append(front, e)[i] = front[i]
        BY <1>5, <2>2, AppendProperties
      <3>2. QED BY <2>2, <3>1, Zenon
    <2>4. Len(scopes) = 5 /\ scopes[3] = c /\ scopes[4] = d /\ scopes[5] = e
      BY <1>5, <2>3
    <2>5. QED BY <1>1, <1>7, <2>4
  <1>8. QED BY <1>6, <1>7

LEMMA DirectedIs ==
    ASSUME NEW seg, SegmentOK(seg), NEW scopes, scopes = Scopes(seg)
    PROVE  \E f : DirectedBy(f, seg, scopes) /\ Directed(seg) = f[Len(scopes)]
  <1>1. PICK N \in Nat : N = Len(scopes)
    BY ScopesAre
  <1>2. PICK step : step = [a \in (1..N) \X Settings |->
            Automate(a[2], seg.tracks, scopes[a[1]][1], scopes[a[1]][2], seg.position, scopes[a[1]][3])]
    OBVIOUS
  <1>3. Neutral \in Settings /\ "rate" \in Paths
    BY DEF Neutral, Settings, Paths
  <1>4. ASSUME NEW n \in 1..N, NEW s \in Settings
        PROVE  /\ step[<<n, s>>] = Automate(s, seg.tracks, scopes[n][1], scopes[n][2], seg.position, scopes[n][3])
               /\ step[<<n, s>>] \in Settings
    <2>1. step[<<n, s>>] = Automate(s, seg.tracks, scopes[n][1], scopes[n][2], seg.position, scopes[n][3])
      BY <1>2
    <2>2. Automate(s, seg.tracks, scopes[n][1], scopes[n][2], seg.position, scopes[n][3]) \in Settings
      BY <1>3, AutomateLast DEF SegmentOK, AutomateLeaves
    <2>3. QED BY <2>1, <2>2
  <1>5. step \in [(1..N) \X Settings -> Settings]
    <2>1. \A a \in (1..N) \X Settings : step[a] \in Settings
      <3> SUFFICES ASSUME NEW a \in (1..N) \X Settings PROVE step[a] \in Settings
        OBVIOUS
      <3>1. PICK n \in 1..N, s \in Settings : a = <<n, s>>
        OBVIOUS
      <3>2. QED BY <1>4, <3>1
    <2>2. QED BY <1>2, <2>1
  <1>6. PICK g \in [0..N -> Settings] : Iterates(g, N, Neutral, step)
    BY <1>3, <1>5, Iterated
  <1>7. ASSUME NEW n \in 0..N
        PROVE  g[n] = IF n = 0 THEN Neutral
                      ELSE Automate(g[n - 1], seg.tracks, scopes[n][1], scopes[n][2], seg.position, scopes[n][3])
    <2>1. g[n] = IF n = 0 THEN Neutral ELSE step[<<n, g[n - 1]>>]
      BY <1>6 DEF Iterates
    <2>2. CASE n = 0
      BY <2>1, <2>2
    <2>3. CASE n # 0
      <3>1. n \in 1..N /\ g[n - 1] \in Settings
        BY <1>6, <2>3
      <3>2. step[<<n, g[n - 1]>>] =
              Automate(g[n - 1], seg.tracks, scopes[n][1], scopes[n][2], seg.position, scopes[n][3])
        BY <1>4, <3>1
      <3>3. QED BY <2>1, <2>3, <3>2, Zenon
    <2>4. QED BY <2>2, <2>3
  <1>8. g = [n \in 0..N |-> IF n = 0 THEN Neutral
               ELSE Automate(g[n - 1], seg.tracks, scopes[n][1], scopes[n][2], seg.position, scopes[n][3])]
    BY <1>6, <1>7
  <1>9. DirectedBy(g, seg, scopes)
    BY <1>1, <1>8, Zenon DEF DirectedBy
  <1>10. PICK f : f = CHOOSE h : DirectedBy(h, seg, scopes)
    OBVIOUS
  <1>11. DirectedBy(f, seg, scopes)
    BY <1>9, <1>10
  <1>12. Directed(seg) = f[Len(scopes)]
    BY <1>10, Zenon DEF Directed, DirectedBy
  <1>13. QED BY <1>11, <1>12

\* What drives p in one scope and in none after it is what p is left with.
DrivesAt(seg, k, p, scope) == Drives(seg.tracks[k], p, scope[1], scope[2], scope[3])

NoneAfter(seg, scopes, p, c) ==
    \A l \in 1..Len(scopes), k \in DOMAIN seg.tracks : DrivesAt(seg, k, p, scopes[l]) => l <= c
LastIn(seg, scopes, p, c, m) ==
    /\ m \in DOMAIN seg.tracks /\ DrivesAt(seg, m, p, scopes[c])
    /\ \A k \in DOMAIN seg.tracks : DrivesAt(seg, k, p, scopes[c]) => k <= m

LEMMA DirectedLast ==
    ASSUME NEW seg, SegmentOK(seg), NEW scopes, scopes = Scopes(seg), NEW p \in Paths,
           NEW c \in 1..Len(scopes), NEW m, LastIn(seg, scopes, p, c, m), NoneAfter(seg, scopes, p, c)
    PROVE  Directed(seg)[p] = Driven(seg.tracks[m], seg.position)
  <1>1. PICK N \in Nat : N = Len(scopes)
    BY ScopesAre
  <1>2. PICK f : DirectedBy(f, seg, scopes) /\ Directed(seg) = f[N]
    BY <1>1, DirectedIs
  <1>3. /\ f[0] = Neutral
        /\ \A n \in 1..N :
              f[n] = Automate(f[n - 1], seg.tracks, scopes[n][1], scopes[n][2], seg.position, scopes[n][3])
    <2>1. f = [n \in 0..N |-> IF n = 0 THEN Neutral
                 ELSE Automate(f[n - 1], seg.tracks, scopes[n][1], scopes[n][2], seg.position, scopes[n][3])]
      BY <1>1, <1>2, Zenon DEF DirectedBy
    <2>2. ASSUME NEW n \in 0..N
          PROVE  f[n] = IF n = 0 THEN Neutral
                 ELSE Automate(f[n - 1], seg.tracks, scopes[n][1], scopes[n][2], seg.position, scopes[n][3])
      BY <2>1, Zenon
    <2>3. \A n \in 1..N : n \in 0..N /\ n # 0
      OBVIOUS
    <2>4. 0 \in 0..N
      OBVIOUS
    <2>5. QED BY <2>2, <2>3, <2>4, Zenon
  <1>4. PICK v : v = Driven(seg.tracks[m], seg.position)
    OBVIOUS
  <1> DEFINE Left(n) == f[n] \in Settings /\ (c <= n => f[n][p] = v)
             S == {n \in 0..N : Left(n)}
  <1>5. Left(0)
    BY <1>1, <1>3 DEF Neutral, Settings
  <1>6. ASSUME NEW n \in 1..N, Left(n - 1) PROVE Left(n)
    <2>1. PICK s \in Settings : s = f[n - 1]
      BY <1>6
    <2>2. PICK scope, key, wide : scope = scopes[n][1] /\ key = scopes[n][2] /\ wide = scopes[n][3]
      OBVIOUS
    <2>3. f[n] = Automate(s, seg.tracks, scope, key, seg.position, wide)
      BY <1>3, <2>1, <2>2
    <2>4. TracksOK(seg.tracks) /\ seg.position \in 0..4
      BY DEF SegmentOK
    <2>5. /\ f[n] \in Settings
          /\ (\A k \in DOMAIN seg.tracks : ~Drives(seg.tracks[k], p, scope, key, wide)) => f[n][p] = s[p]
          /\ \A j \in DOMAIN seg.tracks :
                /\ Drives(seg.tracks[j], p, scope, key, wide)
                /\ \A k \in DOMAIN seg.tracks : Drives(seg.tracks[k], p, scope, key, wide) => k <= j
                => f[n][p] = Driven(seg.tracks[j], seg.position)
      <3>1. PICK tracks, at : tracks = seg.tracks /\ at = seg.position
        OBVIOUS
      <3>2. TracksOK(tracks) /\ at \in 0..4 /\ f[n] = Automate(s, tracks, scope, key, at, wide)
        BY <2>3, <2>4, <3>1
      <3>3. /\ f[n] \in Settings
            /\ (\A k \in DOMAIN tracks : ~Drives(tracks[k], p, scope, key, wide)) => f[n][p] = s[p]
            /\ \A j \in DOMAIN tracks :
                  /\ Drives(tracks[j], p, scope, key, wide)
                  /\ \A k \in DOMAIN tracks : Drives(tracks[k], p, scope, key, wide) => k <= j
                  => f[n][p] = Driven(tracks[j], at)
        <4>1. PICK after : after = f[n]
          OBVIOUS
        <4>2. after = Automate(s, tracks, scope, key, at, wide)
          BY <3>2, <4>1
        <4>3. /\ after \in Settings
              /\ (\A k \in DOMAIN tracks : ~Drives(tracks[k], p, scope, key, wide)) => after[p] = s[p]
              /\ \A j \in DOMAIN tracks :
                    /\ Drives(tracks[j], p, scope, key, wide)
                    /\ \A k \in DOMAIN tracks : Drives(tracks[k], p, scope, key, wide) => k <= j
                    => after[p] = Driven(tracks[j], at)
          <5>1. AutomateLeaves(after, s, tracks, scope, key, at, wide, p)
            BY <3>2, <4>2, AutomateLast, Zenon
          <5>2. QED BY <5>1, Zenon DEF AutomateLeaves
        <4>4. QED BY <4>1, <4>3, Zenon
      <3>4. QED BY <3>1, <3>3, Zenon
    <2>6. \A k : DrivesAt(seg, k, p, scopes[n]) <=> Drives(seg.tracks[k], p, scope, key, wide)
      BY <2>2 DEF DrivesAt
    <2>7. CASE n = c
      BY <1>4, <2>5, <2>6, <2>7 DEF LastIn
    <2>8. CASE n < c
      BY <2>5, <2>8
    <2>9. CASE c < n
      <3>1. \A k \in DOMAIN seg.tracks : ~Drives(seg.tracks[k], p, scope, key, wide)
        BY <1>1, <2>6, <2>9 DEF NoneAfter
      <3>2. f[n][p] = s[p]
        BY <2>5, <3>1
      <3>3. s[p] = v
        BY <1>1, <1>6, <2>1, <2>9
      <3>4. QED BY <2>5, <3>2, <3>3
    <2>10. QED BY <1>1, <2>7, <2>8, <2>9
  <1>7. Left(N)
    <2> HIDE DEF Left
    <2>1. 0 \in S
      BY <1>5
    <2>2. ASSUME NEW n \in 1..N, n - 1 \in S PROVE n \in S
      BY <1>6, <2>2
    <2>3. N \in S
      <3> HIDE DEF S
      <3>1. \A n \in 1..N : n - 1 \in S => n \in S
        BY <2>2
      <3>2. PICK U : U = S
        OBVIOUS
      <3>3. 0 \in U /\ \A n \in 1..N : n - 1 \in U => n \in U
        BY <2>1, <3>1, <3>2
      <3>4. N \in U
        <4>1. \A n \in 0..N : n \in U
          BY <3>3, UpTo, Zenon
        <4>2. QED BY <4>1
      <3>5. QED BY <3>2, <3>4
    <2>4. QED BY <2>3
  <1>8. QED BY <1>1, <1>2, <1>4, <1>7

KeyOf(seg, scope) == IF scope = "scene" THEN seg.scene ELSE IF scope = "sentence" THEN seg.sentence ELSE seg.speaker
Heard(seg, scope) == scope = "character" => seg.speaker # "?"

LEMMA ConcernsDrive ==
    ASSUME NEW t, t.frames \in Seq(Int \X Int), NEW seg, NEW scope \in DOMAIN Narrower, Heard(seg, scope), NEW p \in Paths
    PROVE  t.path = p /\ Concerns(t, seg, scope) <=> Drives(t, p, scope, KeyOf(seg, scope), FALSE)
  <1>1. PICK pts : pts = Points(t.frames)
    OBVIOUS
  <1>2. pts \in Seq((0..4) \X Int) /\ ToSet(pts) = Frames(t)
    BY <1>1, PointsRise DEF Usable, Frames
  <1>3. pts # <<>> <=> Frames(t) # {}
    <2>1. CASE pts = <<>>
      BY <1>2, <2>1 DEF ToSet
    <2>2. CASE pts # <<>>
      <3>1. 1 \in DOMAIN pts
        BY <1>2, <2>2
      <3>2. pts[1] \in ToSet(pts)
        BY <3>1 DEF ToSet
      <3>3. QED BY <1>2, <2>2, <3>2
    <2>3. QED BY <2>1, <2>2
  <1>4. scope \in {"scene", "sentence", "character"}
    BY DEF Narrower
  <1>5. CASE scope = "scene"
    BY <1>1, <1>3, <1>5 DEF Concerns, Drives, Applies, KeyOf
  <1>6. CASE scope = "sentence"
    BY <1>1, <1>3, <1>6 DEF Concerns, Drives, Applies, KeyOf
  <1>7. CASE scope = "character"
    BY <1>1, <1>3, <1>7 DEF Concerns, Drives, Applies, KeyOf, Heard
  <1>8. QED BY <1>4, <1>5, <1>6, <1>7

DrivenBy(seg, p, scope) == {i \in DOMAIN seg.tracks : seg.tracks[i].path = p /\ Concerns(seg.tracks[i], seg, scope)}

LastOf(I) == CHOOSE i \in I : \A k \in I : k <= i

LEMMA LastDriven ==
    ASSUME NEW seg, SegmentOK(seg), NEW p \in Paths, NEW scopes, scopes = Scopes(seg),
           NEW c \in 1..Len(scopes), NEW scope \in DOMAIN Narrower, Heard(seg, scope),
           scopes[c] = <<scope, KeyOf(seg, scope), FALSE>>,
           NEW mine, mine = DrivenBy(seg, p, scope), mine # {},
           NoneAfter(seg, scopes, p, c),
           NEW m, m = LastOf(mine)
    PROVE  Between(seg.tracks[m], seg.position, Directed(seg)[p])
  <1>1. PICK tracks, at, N : tracks = seg.tracks /\ at = seg.position /\ N = Len(tracks)
    OBVIOUS
  <1>2. TracksOK(tracks) /\ at \in 0..4 /\ N \in Nat /\ DOMAIN tracks = 1..N
    BY <1>1, TrackAt DEF SegmentOK
  <1>3. \A i \in 1..N : tracks[i].frames \in Seq(Int \X Int)
    BY <1>1, <1>2, TrackAt
  <1>4. ASSUME NEW i \in 1..N PROVE i \in mine <=> DrivesAt(seg, i, p, scopes[c])
    <2>1. PICK t : t = tracks[i]
      OBVIOUS
    <2>2. t.path = p /\ Concerns(t, seg, scope) <=> Drives(t, p, scope, KeyOf(seg, scope), FALSE)
      BY <1>3, <2>1, ConcernsDrive
    <2>3. i \in mine <=> t.path = p /\ Concerns(t, seg, scope)
      BY <1>1, <1>2, <2>1 DEF DrivenBy
    <2>4. scopes[c][1] = scope /\ scopes[c][2] = KeyOf(seg, scope) /\ scopes[c][3] = FALSE
      OBVIOUS
    <2>5. DrivesAt(seg, i, p, scopes[c]) <=> Drives(t, p, scope, KeyOf(seg, scope), FALSE)
      BY <1>1, <2>1, <2>4, Zenon DEF DrivesAt
    <2>6. QED BY <2>2, <2>3, <2>5
  <1>5. mine \in SUBSET (1..N)
    BY <1>1, <1>2 DEF DrivenBy
  <1>6. \E i \in mine : \A k \in mine : k <= i
    BY <1>2, <1>5, Greatest
  <1>7. m \in mine /\ \A k \in mine : k <= m
    BY <1>6, Zenon DEF LastOf
  <1>8. m \in 1..N /\ DrivesAt(seg, m, p, scopes[c]) /\ \A k \in 1..N : DrivesAt(seg, k, p, scopes[c]) => k <= m
    BY <1>4, <1>5, <1>7
  <1>9. Directed(seg)[p] = Driven(tracks[m], at)
    <2>1. m \in DOMAIN seg.tracks /\ \A k \in DOMAIN seg.tracks : DrivesAt(seg, k, p, scopes[c]) => k <= m
      BY <1>1, <1>2, <1>8
    <2>2. Directed(seg)[p] = Driven(seg.tracks[m], seg.position)
      <3>1. LastIn(seg, scopes, p, c, m)
        BY <1>8, <2>1 DEF LastIn
      <3>2. QED BY <3>1, DirectedLast
    <2>3. QED BY <1>1, <2>2
  <1>10. Points(tracks[m].frames) # <<>>
    BY <1>1, <1>8 DEF DrivesAt, Drives, Applies
  <1>11. Between(tracks[m], at, Driven(tracks[m], at))
    BY <1>2, <1>3, <1>8, <1>10, DrivenBetween
  <1>12. QED BY <1>1, <1>9, <1>11

LEMMA NarrowestDrives ==
    ASSUME SegmentOK(dSegment), dResult.parameters = Directed(dSegment)
    PROVE  NarrowestTrackDrives
  <1> SUFFICES ASSUME NEW p \in Paths, NEW scope \in DOMAIN Narrower,
                      Driving(p, {scope}) # {}, Driving(p, Narrower[scope]) = {}
               PROVE  Between(dSegment.tracks[CHOOSE i \in Driving(p, {scope}) : \A k \in Driving(p, {scope}) : k <= i],
                              dSegment.position, dResult.parameters[p])
    BY DEF NarrowestTrackDrives
  <1>1. PICK seg, scopes, N, mine : /\ seg = dSegment /\ scopes = Scopes(seg) /\ N = Len(scopes)
                                    /\ mine = Driving(p, {scope})
    OBVIOUS
  <1>2. SegmentOK(seg)
    BY <1>1
  <1>3. mine = {i \in DOMAIN seg.tracks : seg.tracks[i].path = p /\ Concerns(seg.tracks[i], seg, scope)}
    BY <1>1 DEF Driving
  <1>4. /\ N \in Nat /\ N >= 4
        /\ scopes[3] = <<"scene", seg.scene, FALSE>> /\ scopes[4] = <<"sentence", seg.sentence, FALSE>>
        /\ seg.speaker = "?" => N = 4
        /\ seg.speaker # "?" => N = 5 /\ scopes[5] = <<"character", seg.speaker, FALSE>>
    BY <1>1, ScopesAre
  <1>5. Heard(seg, scope)
    <2>1. PICK i \in DOMAIN seg.tracks : Concerns(seg.tracks[i], seg, scope)
      BY <1>1, <1>3
    <2>2. QED BY <2>1 DEF Heard, Concerns
  <1>6. \A other \in Narrower[scope], k \in DOMAIN seg.tracks :
           ~(seg.tracks[k].path = p /\ Concerns(seg.tracks[k], seg, other))
    BY <1>1 DEF Driving
  <1>7. \A k \in DOMAIN seg.tracks : seg.tracks[k].frames \in Seq(Int \X Int)
    BY <1>2, TrackAt DEF SegmentOK
  <1>8. ASSUME NEW other \in Narrower[scope], other \in DOMAIN Narrower, Heard(seg, other), NEW k \in DOMAIN seg.tracks
        PROVE  ~Drives(seg.tracks[k], p, other, KeyOf(seg, other), FALSE)
    <2>1. PICK t : t = seg.tracks[k]
      OBVIOUS
    <2>2. t.frames \in Seq(Int \X Int) /\ ~(t.path = p /\ Concerns(t, seg, other))
      BY <1>6, <1>7, <2>1
    <2>3. ~Drives(t, p, other, KeyOf(seg, other), FALSE)
      BY <1>8, <2>2, ConcernsDrive
    <2>4. QED BY <2>1, <2>3
  <1>9. scope \in {"scene", "sentence", "character"}
    BY DEF Narrower
  <1>10. ASSUME seg.speaker # "?", scope # "character", NEW k \in DOMAIN seg.tracks
         PROVE  ~DrivesAt(seg, k, p, scopes[5])
    <2>1. "character" \in Narrower[scope] /\ "character" \in DOMAIN Narrower
      BY <1>9, <1>10 DEF Narrower
    <2>2. ~Drives(seg.tracks[k], p, "character", seg.speaker, FALSE)
      BY <1>8, <1>10, <2>1 DEF Heard, KeyOf
    <2>3. scopes[5][1] = "character" /\ scopes[5][2] = seg.speaker /\ scopes[5][3] = FALSE
      <3>1. scopes[5] = <<"character", seg.speaker, FALSE>>
        BY <1>4, <1>10, Zenon
      <3>2. QED BY <3>1
    <2>4. QED BY <2>2, <2>3, Zenon DEF DrivesAt
  <1>11. ASSUME scope = "scene", NEW k \in DOMAIN seg.tracks PROVE ~DrivesAt(seg, k, p, scopes[4])
    <2>1. "sentence" \in Narrower[scope] /\ "sentence" \in DOMAIN Narrower
      BY <1>11 DEF Narrower
    <2>2. ~Drives(seg.tracks[k], p, "sentence", seg.sentence, FALSE)
      BY <1>8, <2>1 DEF Heard, KeyOf
    <2>3. scopes[4][1] = "sentence" /\ scopes[4][2] = seg.sentence /\ scopes[4][3] = FALSE
      BY <1>4
    <2>4. QED BY <2>2, <2>3, Zenon DEF DrivesAt
  <1>12. PICK m : m = LastOf(mine)
    OBVIOUS
  <1>13. \E c \in 1..N : /\ scopes[c] = <<scope, KeyOf(seg, scope), FALSE>>
                         /\ \A l \in 1..N, k \in DOMAIN seg.tracks : DrivesAt(seg, k, p, scopes[l]) => l <= c
    <2>1. CASE scope = "scene"
      <3>1. 3 \in 1..N /\ scopes[3] = <<scope, KeyOf(seg, scope), FALSE>>
        BY <1>4, <2>1 DEF KeyOf
      <3>2. ASSUME NEW l \in 1..N, NEW k \in DOMAIN seg.tracks, DrivesAt(seg, k, p, scopes[l]) PROVE l <= 3
        <4>1. l # 4
          BY <1>11, <2>1, <3>2
        <4>2. seg.speaker # "?" => l # 5
          BY <1>10, <2>1, <3>2
        <4>3. N = 4 \/ (N = 5 /\ seg.speaker # "?")
          BY <1>4
        <4>4. QED BY <4>1, <4>2, <4>3
      <3>3. QED BY <3>1, <3>2
    <2>2. CASE scope = "sentence"
      <3>1. 4 \in 1..N /\ scopes[4] = <<scope, KeyOf(seg, scope), FALSE>>
        BY <1>4, <2>2 DEF KeyOf
      <3>2. ASSUME NEW l \in 1..N, NEW k \in DOMAIN seg.tracks, DrivesAt(seg, k, p, scopes[l]) PROVE l <= 4
        <4>1. seg.speaker # "?" => l # 5
          BY <1>10, <2>2, <3>2
        <4>2. N = 4 \/ (N = 5 /\ seg.speaker # "?")
          BY <1>4
        <4>3. QED BY <4>1, <4>2
      <3>3. QED BY <3>1, <3>2
    <2>3. CASE scope = "character"
      <3>1. 5 \in 1..N /\ N = 5 /\ scopes[5] = <<scope, KeyOf(seg, scope), FALSE>>
        <4>1. seg.speaker # "?" /\ KeyOf(seg, scope) = seg.speaker
          BY <1>5, <2>3 DEF KeyOf, Heard
        <4>2. N = 5 /\ scopes[5] = <<"character", seg.speaker, FALSE>>
          BY <1>4, <4>1, Zenon
        <4>3. scopes[5] = <<scope, KeyOf(seg, scope), FALSE>>
          BY <2>3, <4>1, <4>2, Zenon
        <4>4. QED BY <4>2, <4>3
      <3>2. \A l \in 1..N : l <= 5
        BY <3>1
      <3>3. QED BY <3>1, <3>2
    <2>4. QED BY <1>9, <2>1, <2>2, <2>3
  <1>14. Between(seg.tracks[m], seg.position, Directed(seg)[p])
    <2>1. PICK c \in 1..N : /\ scopes[c] = <<scope, KeyOf(seg, scope), FALSE>>
                            /\ \A l \in 1..N, k \in DOMAIN seg.tracks : DrivesAt(seg, k, p, scopes[l]) => l <= c
      BY <1>13
    <2>2. mine # {} /\ scopes = Scopes(seg) /\ N = Len(scopes)
      BY <1>1
    <2>3. c \in 1..Len(scopes)
      BY <2>1, <2>2
    <2>4. \A l \in 1..Len(scopes), k \in DOMAIN seg.tracks : DrivesAt(seg, k, p, scopes[l]) => l <= c
      BY <2>1, <2>2, Zenon
    <2>5. NoneAfter(seg, scopes, p, c)
      BY <2>4, Zenon DEF NoneAfter
    <2>6. mine = DrivenBy(seg, p, scope)
      BY <1>3, Zenon DEF DrivenBy
    <2>7. QED BY <1>2, <1>5, <1>12, <2>1, <2>2, <2>3, <2>5, <2>6, LastDriven
  <1>15. QED BY <1>1, <1>12, <1>14, Zenon DEF LastOf

-----------------------------------------------------------------------------
(* The dictionary.  The best enabled rule comes first, is among those that a   *)
(* strength above zero selects, and what it leaves in evidence stays there.    *)

RulesOK(rules) == rules \in Seq(ToSet(rules)) /\ \A r \in ToSet(rules) : r.priority \in Int
BestRule(rules, i) ==
    /\ i \in DOMAIN rules /\ rules[i].enabled
    /\ \A k \in DOMAIN rules : rules[k].enabled =>
          rules[k].priority < rules[i].priority \/ (rules[k].priority = rules[i].priority /\ i <= k)

LEMMA BestFirst ==
    ASSUME NEW rules, RulesOK(rules), NEW b, b = ByPriority(rules)
    PROVE  /\ b \in Seq(ToSet(rules))
           /\ \A i : BestRule(rules, i) => Len(b) >= 1 /\ b[1] = rules[i]
  <1>1. PICK I, rank : /\ I = {i \in DOMAIN rules : rules[i].enabled}
                       /\ rank = [i \in DOMAIN rules |-> -rules[i].priority]
    OBVIOUS
  <1>2. PICK m \in Nat : DOMAIN rules = 1..m
    BY DEF RulesOK
  <1>3. \A i \in DOMAIN rules : rules[i] \in ToSet(rules) /\ rules[i].priority \in Int
    BY DEF RulesOK, ToSet
  <1>4. Rankable(I, rank)
    <2>1. IsFiniteSet(1..m)
      BY FS_Interval
    <2>2. IsFiniteSet(I) /\ I \subseteq Nat
      BY <1>1, <1>2, <2>1, FS_Subset
    <2>3. \A i \in I : rank[i] \in Int
      BY <1>1, <1>3
    <2>4. QED BY <2>2, <2>3 DEF Rankable
  <1>5. PICK order : order = Ranked(I, rank)
    OBVIOUS
  <1>6. /\ DOMAIN order = 1..Len(order) /\ Len(order) \in Nat /\ \A a \in DOMAIN order : order[a] \in I
        /\ \A i \in I : \E a \in DOMAIN order : order[a] = i
        /\ \A a, c \in DOMAIN order : a < c => Precedes(rank, order[a], order[c])
    BY <1>4, <1>5, RankedOrder
  <1>7. b = [a \in DOMAIN order |-> rules[order[a]]]
    BY <1>1, <1>5 DEF ByPriority
  <1>8. b \in [1..Len(order) -> ToSet(rules)]
    BY <1>1, <1>3, <1>6, <1>7
  <1>9. b \in Seq(ToSet(rules)) /\ Len(b) = Len(order)
    BY <1>6, <1>8
  <1>10. ASSUME NEW i, BestRule(rules, i) PROVE Len(b) >= 1 /\ b[1] = rules[i]
    <2>1. i \in I /\ i \in Nat
      BY <1>1, <1>2, <1>10 DEF BestRule
    <2>2. PICK a \in DOMAIN order : order[a] = i
      BY <1>6, <2>1
    <2>3. 1 \in DOMAIN order /\ Len(order) >= 1 /\ a \in Nat /\ a >= 1
      BY <1>6, <2>2
    <2>4. CASE a = 1
      BY <1>7, <1>9, <2>2, <2>3, <2>4
    <2>5. CASE a # 1
      <3>1. PICK k : k = order[1]
        OBVIOUS
      <3>2. k \in I /\ Precedes(rank, k, i)
        BY <1>6, <2>2, <2>3, <2>5, <3>1
      <3>3. k \in DOMAIN rules /\ i \in DOMAIN rules /\ rank[k] = -rules[k].priority /\ rank[i] = -rules[i].priority
        BY <1>1, <2>1, <3>2
      <3>4. rules[k].priority \in Int /\ rules[i].priority \in Int /\ k \in Nat
        BY <1>2, <1>3, <3>3
      <3>5. rules[k].priority < rules[i].priority \/ (rules[k].priority = rules[i].priority /\ i <= k)
        BY <1>1, <1>10, <3>2 DEF BestRule
      <3>6. rules[i].priority < rules[k].priority \/ (rules[k].priority = rules[i].priority /\ k < i)
        BY <3>2, <3>3, <3>4 DEF Precedes
      <3>7. QED BY <2>1, <3>4, <3>5, <3>6
    <2>6. QED BY <2>4, <2>5
  <1>11. QED BY <1>9, <1>10

LEMMA Share ==
    ASSUME NEW n \in Nat, NEW s \in 0..10
    PROVE  (s * n + 9) \div 10 \in 0..n /\ (n >= 1 /\ s >= 1 => (s * n + 9) \div 10 >= 1)
  <1>1. PICK x \in Nat : x = s * n
    OBVIOUS
  <1>2. x <= 10 * n
    <2>1. s * n <= 10 * n
      OBVIOUS
    <2>2. QED BY <1>1, <2>1
  <1>3. ASSUME n >= 1, s >= 1 PROVE x >= 1
    <2>1. s * n >= 1
      BY <1>3
    <2>2. QED BY <1>1, <2>1
  <1>4. (x + 9) \div 10 \in 0..n /\ (x >= 1 => (x + 9) \div 10 >= 1)
    BY <1>2
  <1>5. QED BY <1>1, <1>3, <1>4

LEMMA BestSelected ==
    ASSUME NEW rules, RulesOK(rules), NEW strength \in 0..10, NEW chosen, chosen = Selected(rules, strength)
    PROVE  /\ chosen \in Seq(ToSet(rules))
           /\ \A i : BestRule(rules, i) /\ strength > 0 => Len(chosen) >= 1 /\ chosen[1] = rules[i]
  <1>1. PICK b, n, k : b = ByPriority(rules) /\ n = Len(b) /\ k = (strength * n + 9) \div 10
    OBVIOUS
  <1>2. b \in Seq(ToSet(rules)) /\ \A i : BestRule(rules, i) => n >= 1 /\ b[1] = rules[i]
    BY <1>1, BestFirst
  <1>3. n \in Nat /\ k \in 0..n /\ (n >= 1 /\ strength >= 1 => k >= 1)
    BY <1>1, <1>2, Share
  <1>4. Within(0, 10, strength) = strength
    BY DEF Within
  <1>5. chosen = SubSeq(b, 1, k)
    BY <1>1, <1>4 DEF Selected
  <1>6. chosen \in Seq(ToSet(rules)) /\ Len(chosen) = k /\ (k >= 1 => chosen[1] = b[1])
    BY <1>1, <1>2, <1>3, <1>5
  <1>7. QED BY <1>2, <1>3, <1>6

SaidSet(W, E) == [text : Seq(W), evidence : Seq(E)]

LEMMA OccurrencesNatural ==
    ASSUME NEW W, NEW text \in Seq(W), NEW r
    PROVE  Occurrences(r, text) \in Nat /\ (text = <<>> => Occurrences(r, text) = 0)
  <1>1. PICK I : I = {i \in DOMAIN text : text[i] = r.from}
    OBVIOUS
  <1>2. IsFiniteSet(1..Len(text)) /\ I \subseteq 1..Len(text)
    BY <1>1, FS_Interval
  <1>3. Cardinality(I) \in Nat
    BY <1>2, FS_Subset, FS_CardinalityType
  <1>4. text = <<>> => Cardinality(I) = 0
    BY <1>1, FS_EmptySet
  <1>5. QED BY <1>1, <1>3, <1>4 DEF Occurrences

LEMMA Applied ==
    ASSUME NEW W, NEW E, NEW said \in SaidSet(W, E), NEW r, r.to \in W, \A n \in Nat : <<r, n>> \in E
    PROVE  /\ Apply(r, said) \in SaidSet(W, E)
           /\ \A e \in ToSet(said.evidence) : e \in ToSet(Apply(r, said).evidence)
           /\ Occurrences(r, said.text) > 0 => \E n \in Nat : <<r, n>> \in ToSet(Apply(r, said).evidence)
  <1>1. PICK text \in Seq(W), seen \in Seq(E) : text = said.text /\ seen = said.evidence /\ said = [text |-> text, evidence |-> seen]
    BY DEF SaidSet
  <1>2. PICK n : n = Occurrences(r, text)
    OBVIOUS
  <1>3. n \in Nat
    BY <1>2, OccurrencesNatural
  <1>4. ASSUME NEW c \in Nat
        PROVE  /\ Append(seen, <<r, c>>) \in Seq(E) /\ <<r, c>> \in ToSet(Append(seen, <<r, c>>))
               /\ \A e \in ToSet(seen) : e \in ToSet(Append(seen, <<r, c>>))
    <2>1. PICK x \in E : x = <<r, c>>
      OBVIOUS
    <2>2. PICK more : more = Append(seen, x)
      OBVIOUS
    <2>3. /\ more \in Seq(E) /\ Len(more) = Len(seen) + 1 /\ more[Len(seen) + 1] = x
          /\ \A i \in 1..Len(seen) : more[i] = seen[i]
      BY <2>2, AppendProperties
    <2>4. DOMAIN more = 1..(Len(seen) + 1) /\ DOMAIN seen = 1..Len(seen) /\ Len(seen) \in Nat
      BY <2>3
    <2>5. x \in ToSet(more)
      BY <2>3, <2>4 DEF ToSet
    <2>6. \A e \in ToSet(seen) : e \in ToSet(more)
      BY <2>3, <2>4 DEF ToSet
    <2>7. QED BY <2>1, <2>2, <2>3, <2>5, <2>6
  <1>5. CASE r.flaw # "none"
    <2>1. Apply(r, said) = [text |-> text, evidence |-> Append(seen, <<r, 0>>)]
      BY <1>1, <1>5 DEF Apply
    <2>2. PICK more : more = Append(seen, <<r, 0>>)
      OBVIOUS
    <2>3. Apply(r, said) = [text |-> text, evidence |-> more] /\ Apply(r, said).evidence = more
      BY <2>1, <2>2
    <2>4. more \in Seq(E) /\ <<r, 0>> \in ToSet(more) /\ \A e \in ToSet(seen) : e \in ToSet(more)
      BY <1>4, <2>2
    <2>5. Apply(r, said) \in SaidSet(W, E)
      BY <2>3, <2>4 DEF SaidSet
    <2>6. \E c \in Nat : <<r, c>> \in ToSet(more)
      BY <2>4
    <2>7. QED BY <1>1, <2>3, <2>4, <2>5, <2>6
  <1>6. CASE r.flaw = "none" /\ n > 0
    <2>1. Apply(r, said) = [text |-> Rewritten(r, text), evidence |-> Append(seen, <<r, n>>)]
      BY <1>1, <1>2, <1>6 DEF Apply
    <2>2. PICK more, new : more = Append(seen, <<r, n>>) /\ new = Rewritten(r, text)
      OBVIOUS
    <2>3. Apply(r, said) = [text |-> new, evidence |-> more] /\ Apply(r, said).evidence = more
      BY <2>1, <2>2
    <2>4. more \in Seq(E) /\ <<r, n>> \in ToSet(more) /\ \A e \in ToSet(seen) : e \in ToSet(more)
      BY <1>3, <1>4, <2>2
    <2>5. new \in Seq(W)
      <3>1. PICK m \in Nat : DOMAIN text = 1..m
        OBVIOUS
      <3>2. new \in [1..m -> W]
        BY <2>2, <3>1 DEF Rewritten
      <3>3. QED BY <3>2
    <2>6. Apply(r, said) \in SaidSet(W, E)
      BY <2>3, <2>4, <2>5 DEF SaidSet
    <2>7. \E c \in Nat : <<r, c>> \in ToSet(more)
      BY <1>3, <2>4
    <2>8. QED BY <1>1, <2>3, <2>4, <2>6, <2>7
  <1>7. CASE r.flaw = "none" /\ ~(n > 0)
    <2>1. Apply(r, said) = said
      BY <1>1, <1>2, <1>7 DEF Apply
    <2>2. QED BY <1>1, <1>2, <1>7, <2>1
  <1>8. QED BY <1>5, <1>6, <1>7

SaidBy(f, text, chosen) ==
    f = [n \in 0..Len(chosen) |->
           IF n = 0 THEN [text |-> text, evidence |-> <<>>] ELSE Apply(chosen[n], f[n - 1])]

LEMMA SaidExists ==
    ASSUME NEW W, NEW E, NEW text \in Seq(W), NEW R, NEW chosen \in Seq(R),
           \A r \in R : r.to \in W /\ \A n \in Nat : <<r, n>> \in E
    PROVE  \E f : SaidBy(f, text, chosen)
  <1>1. PICK N \in Nat : N = Len(chosen)
    OBVIOUS
  <1>2. PICK X, x : X = SaidSet(W, E) /\ x = [text |-> text, evidence |-> <<>>]
    OBVIOUS
  <1>3. x \in X
    BY <1>2 DEF SaidSet
  <1>4. PICK step : step = [a \in (1..N) \X X |-> Apply(chosen[a[1]], a[2])]
    OBVIOUS
  <1>5. ASSUME NEW n \in 1..N, NEW s \in X
        PROVE  step[<<n, s>>] = Apply(chosen[n], s) /\ step[<<n, s>>] \in X
    <2>1. step[<<n, s>>] = Apply(chosen[n], s)
      BY <1>4
    <2>2. chosen[n] \in R
      BY <1>1
    <2>3. Apply(chosen[n], s) \in X
      BY <1>2, <2>2, Applied
    <2>4. QED BY <2>1, <2>3
  <1>6. step \in [(1..N) \X X -> X]
    <2>1. \A a \in (1..N) \X X : step[a] \in X
      <3> SUFFICES ASSUME NEW a \in (1..N) \X X PROVE step[a] \in X
        OBVIOUS
      <3>1. PICK n \in 1..N, s \in X : a = <<n, s>>
        OBVIOUS
      <3>2. QED BY <1>5, <3>1
    <2>2. QED BY <1>4, <2>1
  <1>7. PICK g \in [0..N -> X] : Iterates(g, N, x, step)
    BY <1>3, <1>6, Iterated
  <1>8. ASSUME NEW n \in 0..N PROVE g[n] = IF n = 0 THEN x ELSE Apply(chosen[n], g[n - 1])
    <2>1. g[n] = IF n = 0 THEN x ELSE step[<<n, g[n - 1]>>]
      BY <1>7 DEF Iterates
    <2>2. CASE n = 0
      BY <2>1, <2>2
    <2>3. CASE n # 0
      <3>1. n \in 1..N /\ g[n - 1] \in X
        BY <1>7, <2>3
      <3>2. step[<<n, g[n - 1]>>] = Apply(chosen[n], g[n - 1])
        BY <1>5, <3>1
      <3>3. QED BY <2>1, <2>3, <3>2, Zenon
    <2>4. QED BY <2>2, <2>3
  <1>9. g = [n \in 0..N |-> IF n = 0 THEN x ELSE Apply(chosen[n], g[n - 1])]
    BY <1>7, <1>8
  <1>10. SaidBy(g, text, chosen)
    BY <1>1, <1>2, <1>9, Zenon DEF SaidBy
  <1>11. QED BY <1>10

\* The first rule is in evidence at the end if it occurs in the text.
LEMMA FirstSaid ==
    ASSUME NEW text, text \in Seq(ToSet(text)), NEW rules, RulesOK(rules), NEW strength \in 0..10,
           NEW i, BestRule(rules, i), strength > 0, Occurrences(rules[i], text) > 0
    PROVE  \E e \in ToSet(Pronounce(text, rules, strength).evidence) : e[1] = rules[i]
  <1>1. PICK chosen : chosen = Selected(rules, strength)
    OBVIOUS
  <1>2. PICK R, W, E, N, r : /\ R = ToSet(rules) /\ W = ToSet(text) \union {q.to : q \in R}
                             /\ E = R \X Nat /\ N = Len(chosen) /\ r = rules[i]
    OBVIOUS
  <1>3. chosen \in Seq(R) /\ N \in Nat /\ N >= 1 /\ chosen[1] = r
    <2>1. chosen \in Seq(ToSet(rules)) /\ (BestRule(rules, i) /\ strength > 0 => Len(chosen) >= 1 /\ chosen[1] = rules[i])
      BY <1>1, BestSelected
    <2>2. QED BY <1>2, <2>1
  <1>4. text \in Seq(W) /\ \A q \in R : q.to \in W /\ \A n \in Nat : <<q, n>> \in E
    BY <1>2
  <1>5. text # <<>>
    BY <1>4, OccurrencesNatural
  <1>6. PICK f : f = CHOOSE g : SaidBy(g, text, chosen)
    OBVIOUS
  <1>7. SaidBy(f, text, chosen)
    BY <1>3, <1>4, <1>6, SaidExists
  <1>8. Pronounce(text, rules, strength) = f[N]
    BY <1>1, <1>2, <1>5, <1>6, Zenon DEF Pronounce, SaidBy
  <1>9. /\ f[0] = [text |-> text, evidence |-> <<>>]
        /\ \A n \in 1..N : f[n] = Apply(chosen[n], f[n - 1])
    <2>1. f = [n \in 0..N |-> IF n = 0 THEN [text |-> text, evidence |-> <<>>] ELSE Apply(chosen[n], f[n - 1])]
      BY <1>2, <1>7, Zenon DEF SaidBy
    <2>2. ASSUME NEW n \in 0..N
          PROVE  f[n] = IF n = 0 THEN [text |-> text, evidence |-> <<>>] ELSE Apply(chosen[n], f[n - 1])
      BY <2>1, Zenon
    <2>3. \A n \in 1..N : n \in 0..N /\ n # 0
      OBVIOUS
    <2>4. 0 \in 0..N
      BY <1>3
    <2>5. QED BY <2>2, <2>3, <2>4, Zenon
  <1> DEFINE Left(n) == /\ f[n] \in SaidSet(W, E)
                        /\ n >= 1 => \E c \in Nat : <<r, c>> \in ToSet(f[n].evidence)
             S == {n \in 0..N : Left(n)}
  <1>10. Left(0)
    BY <1>4, <1>9 DEF SaidSet
  <1>11. ASSUME NEW n \in 1..N, Left(n - 1) PROVE Left(n)
    <2>1. PICK q \in R, s \in SaidSet(W, E) : q = chosen[n] /\ s = f[n - 1]
      <3>1. chosen[n] \in R
        BY <1>2, <1>3
      <3>2. f[n - 1] \in SaidSet(W, E)
        BY <1>11
      <3>3. QED BY <3>1, <3>2
    <2>2. f[n] = Apply(q, s)
      BY <1>9, <2>1
    <2>3. /\ f[n] \in SaidSet(W, E)
          /\ \A e \in ToSet(s.evidence) : e \in ToSet(f[n].evidence)
          /\ Occurrences(q, s.text) > 0 => \E c \in Nat : <<q, c>> \in ToSet(f[n].evidence)
      BY <1>4, <2>2, Applied
    <2>4. CASE n = 1
      <3>1. s = [text |-> text, evidence |-> <<>>] /\ q = r
        BY <1>3, <1>9, <2>1, <2>4
      <3>2. Occurrences(q, s.text) > 0
        BY <1>2, <3>1
      <3>3. QED BY <2>3, <3>1, <3>2
    <2>5. CASE n # 1
      <3>1. n - 1 >= 1
        BY <2>5
      <3>2. PICK c \in Nat : <<r, c>> \in ToSet(s.evidence)
        BY <1>11, <2>1, <3>1
      <3>3. QED BY <2>3, <3>2
    <2>6. QED BY <2>4, <2>5
  <1>12. Left(N)
    <2> HIDE DEF Left
    <2>1. 0 \in S
      BY <1>3, <1>10
    <2>2. ASSUME NEW n \in 1..N, n - 1 \in S PROVE n \in S
      BY <1>11, <2>2
    <2>3. N \in S
      <3> HIDE DEF S
      <3>1. PICK U : U = S
        OBVIOUS
      <3>2. 0 \in U /\ \A n \in 1..N : n - 1 \in U => n \in U
        BY <2>1, <2>2, <3>1
      <3>3. \A n \in 0..N : n \in U
        BY <1>3, <3>2, UpTo, Zenon
      <3>4. QED BY <1>3, <3>1, <3>3
    <2>4. QED BY <2>3
  <1>13. PICK c \in Nat : <<r, c>> \in ToSet(f[N].evidence)
    BY <1>3, <1>12
  <1>14. <<r, c>>[1] = rules[i]
    BY <1>2
  <1>15. QED BY <1>8, <1>13, <1>14

InputOK(seg) == /\ SegmentOK(seg) /\ RulesOK(seg.rules) /\ seg.strength \in 0..10
                /\ seg.text \in Seq(ToSet(seg.text))
DeliveryInv ==
    /\ InputOK(dSegment)
    /\ dSegment.tracks = <<>> \/ dResult.parameters = Directed(dSegment)
    /\ \/ dSegment.rules = <<>>
       \/ dResult.evidence = Pronounce(dSegment.text, dSegment.rules, dSegment.strength).evidence

LEMMA InvFaithful == DeliveryInv => DeliveryFaithful
  <1> SUFFICES ASSUME DeliveryInv PROVE DeliveryFaithful
    OBVIOUS
  <1>1. SegmentOK(dSegment)
    BY DEF DeliveryInv, InputOK
  <1>2. NarrowestTrackDrives
    <2>1. CASE dSegment.tracks = <<>>
      <3>1. \A p, scopes : Driving(p, scopes) = {}
        BY <2>1 DEF Driving
      <3>2. QED BY <3>1, Zenon DEF NarrowestTrackDrives
    <2>2. CASE dResult.parameters = Directed(dSegment)
      BY <1>1, <2>2, NarrowestDrives
    <2>3. QED BY <2>1, <2>2 DEF DeliveryInv
  <1>3. BestRuleSurvives
    <2>1. PICK rules, text, strength : rules = dSegment.rules /\ text = dSegment.text /\ strength = dSegment.strength
      OBVIOUS
    <2>2. ASSUME NEW i \in DOMAIN rules, BestRule(rules, i), strength > 0, Occurrences(rules[i], text) > 0
          PROVE  \E e \in ToSet(dResult.evidence) : e[1] = rules[i]
      <3>1. rules # <<>>
        BY <2>2
      <3>2. dResult.evidence = Pronounce(text, rules, strength).evidence
        BY <2>1, <3>1, Zenon DEF DeliveryInv
      <3>3. text \in Seq(ToSet(text)) /\ RulesOK(rules) /\ strength \in 0..10
        BY <2>1 DEF DeliveryInv, InputOK
      <3>4. \E e \in ToSet(Pronounce(text, rules, strength).evidence) : e[1] = rules[i]
        BY <2>2, <3>3, FirstSaid
      <3>5. QED BY <3>2, <3>4, Zenon
    <2>3. QED BY <2>1, <2>2, Zenon DEF BestRuleSurvives, BestRule
  <1>4. QED BY <1>2, <1>3 DEF DeliveryFaithful

LEMMA EmptyOK == TracksOK(<<>>) /\ RulesOK(<<>>) /\ <<>> \in Seq(ToSet(<<>>))
  BY DEF TracksOK, RulesOK, ToSet

LEMMA Inputs ==
    /\ \A ts \in TrackLists : TracksOK(ts)
    /\ \A rs \in Dictionaries : RulesOK(rs)
    /\ \A t \in Passages : t \in Seq(ToSet(t))
  BY DeliveryAssumption DEF TracksOK, RulesOK

LEMMA NoSegmentOK == InputOK(NoSegment) /\ NoSegment.tracks = <<>> /\ NoSegment.rules = <<>>
  <1>1. NoSegment.tracks = <<>> /\ NoSegment.rules = <<>> /\ NoSegment.text = <<>>
        /\ NoSegment.position = 0 /\ NoSegment.strength = 10
    BY DEF NoSegment
  <1>2. QED BY <1>1, EmptyOK DEF InputOK, SegmentOK

LEMMA DeliverInv ==
    ASSUME NEW seg, InputOK(seg), Deliver(seg)
    PROVE  DeliveryInv'
  <1>1. dSegment' = seg
    BY DEF Deliver
  <1>2. /\ dResult'.parameters = Directed(seg)
        /\ dResult'.evidence = Pronounce(seg.text, seg.rules, seg.strength).evidence
    BY DEF Deliver
  <1>3. InputOK(dSegment')
    BY <1>1
  <1>4. dResult'.parameters = Directed(dSegment')
    BY <1>1, <1>2
  <1>5. dResult'.evidence = Pronounce(dSegment'.text, dSegment'.rules, dSegment'.strength).evidence
    BY <1>1, <1>2
  <1>6. QED BY <1>3, <1>4, <1>5, Zenon DEF DeliveryInv

LEMMA DeliveryStep == DeliveryInv /\ [DeliveryNext]_deliveryVars => DeliveryInv'
  <1> SUFFICES ASSUME DeliveryInv, [DeliveryNext]_deliveryVars PROVE DeliveryInv'
    OBVIOUS
  <1>1. ASSUME NEW ts \in TrackLists, NEW c \in 0..1, NEW s \in 0..1, NEW who, NEW at \in 0..4, NEW provider,
               DeliverDirected(ts, c, s, who, at, provider)
        PROVE  DeliveryInv'
    <2>1. PICK seg : seg = [NoSegment EXCEPT !.tracks = ts, !.chapter = c, !.scene = s,
                                             !.speaker = who, !.position = at, !.provider = provider]
      OBVIOUS
    <2>2. InputOK(seg)
      <3>1. seg.tracks = ts /\ seg.rules = <<>> /\ seg.text = <<>> /\ seg.position = at /\ seg.strength = 10
        BY <2>1 DEF NoSegment
      <3>2. QED BY <3>1, Inputs, EmptyOK DEF InputOK, SegmentOK
    <2>3. Deliver(seg)
      BY <1>1, <2>1, Zenon DEF DeliverDirected
    <2>4. QED BY <2>2, <2>3, DeliverInv
  <1>2. ASSUME NEW text \in Passages, NEW rules \in Dictionaries, NEW strength \in {0, 3, 5, 10},
               DeliverSpoken(text, rules, strength)
        PROVE  DeliveryInv'
    <2>1. PICK seg : seg = [NoSegment EXCEPT !.text = text, !.rules = rules, !.strength = strength]
      OBVIOUS
    <2>2. InputOK(seg)
      <3>1. seg.tracks = <<>> /\ seg.rules = rules /\ seg.text = text /\ seg.position = 0 /\ seg.strength = strength
        BY <2>1 DEF NoSegment
      <3>2. QED BY <3>1, Inputs, EmptyOK DEF InputOK, SegmentOK
    <2>3. Deliver(seg)
      BY <1>2, <2>1, Zenon DEF DeliverSpoken
    <2>4. QED BY <2>2, <2>3, DeliverInv
  <1>3. CASE UNCHANGED deliveryVars
    BY <1>3 DEF deliveryVars, DeliveryInv
  <1>4. CASE DeliveryNext
    BY <1>1, <1>2, <1>4 DEF DeliveryNext
  <1>5. QED BY <1>3, <1>4

\* Every segment is delivered as its tracks and its dictionary direct
\* (prepare_directed_segments), whatever the lists of tracks, rules and words.
THEOREM DeliveryIsFaithful == DeliverySpec => []DeliveryFaithful
  <1>1. DeliveryInit => DeliveryInv
    BY NoSegmentOK DEF DeliveryInit, DeliveryInv
  <1>2. QED BY <1>1, DeliveryStep, InvFaithful, PTL DEF DeliverySpec

=============================================================================
