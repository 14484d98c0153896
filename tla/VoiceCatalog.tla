---------------------------- MODULE VoiceCatalog ----------------------------
(***************************************************************************)
(* The catalog of stock voices: a reader walks its pages while a provider's*)
(* list is seeded into it, and organizations keep clones, previews and     *)
(* comparisons beside it.  The endpoints (voice_catalog_endpoints.py) list *)
(* stock voices; the service (voice_catalog.py) lists them with the public *)
(* Voice City voices, each page taking a slice of either.                  *)
(***************************************************************************)
EXTENDS Integers, Sequences, FiniteSets, SequencesExt

CONSTANTS CatOrgs,   \* organizations
          CatSeeds,  \* entries a provider's list may hold: [slug, name, provider, org]
          CityRows,  \* Voice City voices: id -> [org, visibility, deleted, name]
          CatClones, \* ids of clones, each given out once
          PerPages   \* page sizes asked for
NoOrg == "global"
\* A slug names a row of one table, an id of a Voice City voice one of another.
ASSUME CatalogAssumption ==
    /\ IsFiniteSet(DOMAIN CityRows) /\ \A v \in DOMAIN CityRows : CityRows[v].name \in Int
    /\ \A e \in CatSeeds : e.name \in Int /\ e.slug \notin DOMAIN CityRows
    /\ PerPages \subseteq Int

VARIABLES catRows,   \* stock voices: slug -> [name, provider, org, active]
          catWalk,   \* the reader
          catClone,  \* clone id -> [org, row, audio, pc]
          catClips   \* stored previews: <<org, voice, emotion>>
catalogVars == <<catRows, catWalk, catClone, catClips>>

NoWalk == [by |-> "nobody", org |-> NoOrg, per |-> 1, page |-> 0, pages |-> 1,
           got |-> <<>>, due |-> {}, steady |-> FALSE]
NoClone == [org |-> NoOrg, row |-> "none", audio |-> FALSE, pc |-> "idle"]
CatalogInit == /\ catRows = <<>> /\ catWalk = NoWalk /\ catClips = {}
               /\ catClone = [c \in CatClones |-> NoClone]

-----------------------------------------------------------------------------
(* Listing.                                                                *)

\* The organization's own voices and the global ones.
InScope(s, o) == catRows[s].org \in {NoOrg, o}
StockListed(o) == {s \in DOMAIN catRows : catRows[s].active /\ InScope(s, o)}
\* The second filter leaves none of the organization's private voices.
CityListed(o) == {v \in DOMAIN CityRows : /\ ~CityRows[v].deleted
                                          /\ CityRows[v].visibility \in {"public", "shared"}
                                          /\ CityRows[v].org = o}
NameOf(v) == IF v \in DOMAIN catRows THEN catRows[v].name ELSE CityRows[v].name

\* ORDER BY the name alone: voices of one name come in any order, each time.
Orders(S) == {q \in Bijection(1..Cardinality(S), S) :
                 \A i, j \in DOMAIN q : i < j => NameOf(q[i]) <= NameOf(q[j])}
Per(asked) == IF asked < 1 THEN 1 ELSE asked
\* Slip: count the pages from zero.
SliceLate(q, page, per) ==
    LET from == page * per IN
    SubSeq(q, from + 1, IF from + per < Len(q) THEN from + per ELSE Len(q))
Slice(q, page, per) ==
    LET from == (page - 1) * per IN
    SubSeq(q, from + 1, IF from + per < Len(q) THEN from + per ELSE Len(q))
PagesFor(total, per) == (total + per - 1) \div per

StartWalk(by, o, asked) ==
    /\ catWalk' = [NoWalk EXCEPT !.by = by, !.org = o, !.per = Per(asked), !.steady = TRUE,
           !.due = StockListed(o) \union (IF by = "service" THEN CityListed(o) ELSE {})]
    /\ UNCHANGED <<catRows, catClone, catClips>>

Fetched(total, rows) ==
    catWalk' = [catWalk EXCEPT !.page = @ + 1, !.got = @ \o rows,
                               !.pages = PagesFor(total, catWalk.per)]
FetchPage ==
    /\ catWalk.by = "endpoint" /\ catWalk.page < catWalk.pages
    /\ \E q \in Orders(StockListed(catWalk.org)) :
         Fetched(IF q = <<>> THEN 1 ELSE Len(q), Slice(q, catWalk.page + 1, catWalk.per))
    /\ UNCHANGED <<catRows, catClone, catClips>>

\* One page of the service holds up to twice per_page voices.
FetchBoth ==
    /\ catWalk.by = "service" /\ catWalk.page < catWalk.pages
    /\ \E q \in Orders(StockListed(catWalk.org)), r \in Orders(CityListed(catWalk.org)) :
         Fetched(Len(q) + Len(r), Slice(q, catWalk.page + 1, catWalk.per)
                                           \o Slice(r, catWalk.page + 1, catWalk.per))
    /\ UNCHANGED <<catRows, catClone, catClips>>

\* An entry whose slug is known changes that row, whoever owns it.
SeedFromProvider(e) ==
    /\ catRows' = [s \in DOMAIN catRows \union {e.slug} |->
                      IF s # e.slug THEN catRows[s]
                      ELSE [name |-> e.name, provider |-> e.provider, active |-> TRUE,
                            org |-> IF s \in DOMAIN catRows THEN catRows[s].org ELSE e.org]]
    /\ catWalk' = [catWalk EXCEPT !.steady = @ /\ catRows' = catRows]
    /\ UNCHANGED <<catClone, catClips>>

-----------------------------------------------------------------------------
(* Previews, and clones: audio in storage, a row in the database.          *)

\* A provider that is missing or fails stores nothing.
PreviewVoice(o, s, emotion) ==
    /\ s \in DOMAIN catRows /\ InScope(s, o)
    /\ catClips' = catClips \union {<<o, s, emotion>>}
    /\ UNCHANGED <<catRows, catWalk, catClone>>

\* n of the voices were stored when the request ended or failed.
CompareVoices(o, asked, n) ==
    /\ Len(asked) \in 2..10 /\ n \in 0..Len(asked)
    /\ \A i \in DOMAIN asked : asked[i] \in DOMAIN catRows /\ InScope(asked[i], o)
    /\ catClips' = catClips \union {<<o, asked[i], "plain">> : i \in 1..n}
    /\ UNCHANGED <<catRows, catWalk, catClone>>

CloneStep(c, clone) == catClone' = [catClone EXCEPT ![c] = clone]
                       /\ UNCHANGED <<catRows, catWalk, catClips>>
\* Slip: the row first, then the upload.
StoreCloneLate(o, c) ==
    catClone[c] = NoClone /\ CloneStep(c, [NoClone EXCEPT !.org = o, !.row = "kept", !.pc = "stored"])
StoreClone(o, c) ==
    catClone[c] = NoClone /\ CloneStep(c, [NoClone EXCEPT !.org = o, !.audio = TRUE, !.pc = "stored"])
CommitClone(c) ==
    /\ catClone[c].pc = "stored"
    /\ CloneStep(c, [catClone[c] EXCEPT !.row = "kept", !.pc = "idle", !.audio = TRUE])
\* The storage refuses to delete, and the row goes all the same.
DeleteCloneAudio(o, c, refused) ==
    /\ catClone[c].row = "kept" /\ catClone[c].org = o /\ catClone[c].pc \in {"idle", "doomed"}
    /\ CloneStep(c, [catClone[c] EXCEPT !.audio = @ /\ refused, !.pc = "emptied"])
DeleteCloneRow(c) ==
    /\ catClone[c].pc = "emptied"
    /\ CloneStep(c, [catClone[c] EXCEPT !.row = "gone", !.pc = "idle"])
\* The process ends, or the commit fails.
CloneRequestDies(c) ==
    /\ catClone[c].pc \in {"stored", "emptied"}
    /\ CloneStep(c, [catClone[c] EXCEPT !.pc = IF @ = "stored" THEN "lost" ELSE "doomed"])

CatalogNext ==
    \/ \E o \in CatOrgs, by \in {"endpoint", "service"}, p \in PerPages : StartWalk(by, o, p)
    \/ FetchPage \/ FetchBoth
    \/ \E e \in CatSeeds : SeedFromProvider(e)
    \/ \E o \in CatOrgs, s \in DOMAIN catRows : PreviewVoice(o, s, "plain")
    \/ \E o \in CatOrgs, s, t \in DOMAIN catRows, n \in 0..2 : CompareVoices(o, <<s, t>>, n)
    \/ \E o \in CatOrgs, c \in CatClones, refused \in BOOLEAN :
         StoreClone(o, c) \/ DeleteCloneAudio(o, c, refused)
    \/ \E c \in CatClones : CommitClone(c) \/ DeleteCloneRow(c) \/ CloneRequestDies(c)

CatalogSpec == CatalogInit /\ [][CatalogNext]_catalogVars

-----------------------------------------------------------------------------
(* What the catalog promises.                                              *)

CatalogTypeOK ==
    /\ catWalk.due \subseteq DOMAIN catRows \union DOMAIN CityRows
    /\ \A s \in DOMAIN catRows : catRows[s].org \in CatOrgs \union {NoOrg}
    /\ \A c \in CatClones : catClone[c].row \in {"none", "kept", "gone"}

\* A reader who takes every page of a catalog that stays the same gets each
\* voice listed for the organization once, from the endpoints in the order
\* of the names; two voices of one name may hide each other, since each
\* query breaks the tie anew (_paginate, VoiceCatalogService.list_voices).
WalkComplete ==
    (/\ catWalk.steady /\ catWalk.page >= catWalk.pages
     /\ \A v, w \in catWalk.due : NameOf(v) = NameOf(w) => v = w)
    => /\ Range(catWalk.got) = catWalk.due
       /\ Len(catWalk.got) = Cardinality(catWalk.due)
       /\ catWalk.by = "endpoint" =>
            \A i, j \in DOMAIN catWalk.got : i < j => NameOf(catWalk.got[i]) < NameOf(catWalk.got[j])

\* A clone an organization is shown has its reference audio, unless its
\* deletion was begun: the audio is stored before the row and removed
\* before it too, and a deletion that dies between leaves a row without.
ClonesKept ==
    \A c \in CatClones : (catClone[c].row = "kept" /\ catClone[c].pc \in {"idle", "stored"})
                         => catClone[c].audio

\* Both: what the catalog serves is all of it, and can be heard.
CatalogServed == WalkComplete /\ ClonesKept
=============================================================================
