----------------------------- MODULE MC_Platform -----------------------------
(* The services around the queue, the pipeline and the versions, as one TLC    *)
(* model: a behaviour picks a part and takes its steps while the others rest   *)
(* in one initial state.  The chapter pipeline is a part as well, on two disks *)
(* (MC_ChapterPipeline has it on one).  Below, the instance of every part.     *)
EXTENDS FileStore, Accounts, Admission, Retention, WorkerRegistry, AgentPipeline,
        ProsodyScript, BatchQueue, Production, VoiceStudio, Delivery, VoiceLibrary,
        Previews, VoiceCatalog, Manuscript, Mastering, TLC

CONSTANT Absent
VARIABLES part, pText, pJob, pRow, pRevs, pUsage, pObject, pBook, pManifest, pCache, pLocal,
          pPc, pRun, pEdited, pFellBack
bookVars == <<pText, pJob, pRow, pRevs, pUsage, pObject, pBook, pManifest, pCache, pLocal,
              pPc, pRun, pEdited, pFellBack>>
allVars == <<part, bookVars, fileVars, accountVars, admitVars, retentionVars, registryVars, agentVars,
             scriptVars, batchVars, productionVars, studioVars, deliveryVars, libraryVars,
             previewVars, catalogVars, manuscriptVars, masteringVars>>
-----------------------------------------------------------------------------
(* The store, accounts, admission: writers, requests and subjects.           *)
MySizes == ("short" :> 1) @@ ("long" :> 2)
MySubjectEmail == ("s1" :> "e1") @@ ("s2" :> "none")

(* Scripts of the agents and of the tag readers.                             *)
UpTo(n, S) == UNION {[1..k -> S] : k \in 0..n}
MyChapters == UpTo(3, LineKinds)
MyTokens == {"word", "pause", "pause?", "sad", "slow", "emphasis", "SPEAKER:Ann", "SPEAKER:Bob"}
MyScripts == UpTo(3, MyTokens)

(* Productions: Ann is cast twice, Bob once under two names.                 *)
Role(n, as, v) == [name |-> n, aliases |-> as, voice |-> v]
Plan(c, skip, styled, id) ==
    [cast |-> c, skip |-> skip, auto |-> TRUE, scenes |-> styled, identity |-> id]
MyPlans == {Plan(<<Role("ann", {}, "v1"), Role("bob", {"ann"}, "v2")>>, FALSE, {1}, FALSE),
            Plan(<<Role("ann", {"bob"}, "v1")>>, TRUE, {}, FALSE),
            Plan(<<Role("ann", {}, "v1"), Role("ann", {}, "v2")>>, FALSE, {}, FALSE),
            [Plan(<<>>, TRUE, {}, FALSE) EXCEPT !.auto = FALSE]}
SomeLines == {Line("plain", "?"), Line("break", "?"), Line("label", "ann"), Line("quote", "bob")}
MyManuscripts == UpTo(3, SomeLines) \union UpTo(2, SomeLines \union {Line("quote", "?")})

(* The studio: one patch is protected, one save has too much texture.        *)
MyPatches == {"breath" :> 800, "effort" :> 700}
MySaves == {("rough" :> 1000) @@ ("rasp" :> 1000) @@ ("gravel" :> 1000) @@ ("pitch" :> 900)}
MyProtected == {Described("breath" :> 800)}

(* Delivery: keyframes are <<position, value>>, 99 a position of no number.  *)
Frame == {<<>>, << <<2,1>> >>, << <<3,2>>, <<1,-2>> >>, << <<0,0>>, <<4,2>>, <<1,-1>> >>,
          << <<2,0>>, <<2,2>>, <<5,1>> >>, << <<99,1>>, <<1,1>> >>}
Track(s, k, c, f, e) ==
    [scope |-> s, key |-> k, path |-> "rate", frames |-> f, curve |-> c, enabled |-> e]
Good == Frame \ {<< <<99,1>>, <<1,1>> >>}
OneTrack ==
    {Track(s, 0, c, f, TRUE) : s \in {"global", "chapter", "scene"},
                               c \in {"step", "linear", "smooth"}, f \in Good}
    \union {[Track("scene", 0, "linear", f, TRUE) EXCEPT !.path = q] :
                f \in Frame, q \in {"pitch", "texture"}}
    \union {Track("character", "Ann", "smooth", f, e) : f \in Good, e \in BOOLEAN}
MyTracks ==
    {<<t>> : t \in OneTrack} \union
    {<<t, u>> : t \in OneTrack, u \in {Track("global", 0, "step", << <<1,2>> >>, TRUE),
                                       Track("chapter", 1, "step", << <<1,-1>> >>, TRUE),
                                       Track("sentence", 0, "step", << <<3,1>> >>, TRUE)}}
Rule(f, t, p, e, fl) == [from |-> f, to |-> t, priority |-> p, enabled |-> e, flaw |-> fl]
MyRules == {Rule("a", "b", 1, TRUE, "none"), Rule("b", "c", 2, TRUE, "none"),
            Rule("b", "a", 2, TRUE, "none"), Rule("a", "c", 3, FALSE, "none"),
            Rule("b", "b", 3, TRUE, "nested")}
MyDictionaries == UpTo(3, MyRules)
MyPassages == UpTo(2, {"a", "b"})

(* The library and the catalog.                                              *)
MyOwners == ("v1" :> "o1") @@ ("v2" :> "o2") @@ ("p1" :> "o1") @@ ("p2" :> "o2")
MyFrameLists == {<<>>, <<3, 7, 1>>, <<-1, 2>>}
MyAuditions == {<<"a">>, <<"a", "b">>, <<"mute">>}
Entry0(s, n, o) == [slug |-> s, name |-> n, provider |-> "edge", org |-> o]
MySeeds == {Entry0("s1", 1, NoOrg), Entry0("s2", 3, "o1"), Entry0("s2", 2, NoOrg)}
City(v, n) == [org |-> "o1", visibility |-> v, deleted |-> FALSE, name |-> n]
MyCity == ("c1" :> City("public", 4)) @@ ("c2" :> City("private", 5)) @@ ("c3" :> City("shared", 0))

(* Manuscripts: lines, sentences of characters of 1 to 3 bytes, and scripts. *)
RawLine(k, z, i) == [kind |-> k, size |-> z, id |-> i]
Shapes == {<<"prose", 300>>, <<"prose", 600>>, <<"heading", 20>>, <<"marker", 20>>}
MyBooks == {[i \in DOMAIN q |-> RawLine(q[i][1], q[i][2], i)] : q \in UpTo(4, Shapes)}
Sentences == {<<1>>, <<1,1,1>>, <<2,1>>, <<1,3>>, <<1,1,1,1,1,1,1,1>>, <<1,2,2,2>>, <<2,3,2>>}
Numbered(t) == [p \in DOMAIN t |-> [q \in DOMAIN t[p] |->
                  [i \in DOMAIN t[p][q] |-> 1000 * p + 100 * q + 10 * i + t[p][q][i]]]]
Paragraphs == UpTo(2, Sentences) \ {<<>>}
MyTexts == {Numbered(t) : t \in UpTo(2, Paragraphs) \ {<<>>}}
Word(x) == <<Tok("word", <<x>>)>>
Element(tag, inner) == <<Tok("open", tag)>> \o inner \o <<Tok("close", <<tag[1]>>)>>
Leaves == {Word("a"), Element(<<"break">>, <<>>), Element(<<"sub", "z">>, Word("b"))}
Tags == {<<"emphasis">>, <<"lang", "fr">>, <<"rate", "slow">>, <<"voice", "A">>,
         <<"voice", "B">>, <<"p">>}
Elements == {Element(t, l) : t \in Tags, l \in Leaves}
Nested == {Element(t, l \o Word("c")) : t \in Tags, l \in Elements}
MyImports == {x \o Word("d") \o y : x, y \in Elements} \union
             {x \o y : x \in Nested, y \in Leaves \union Elements}
MyNameMaps == {<<>>, << <<"A", "Ann">> >>, << <<"A", "Ann">>, <<"B", "Ann">> >>,
               << <<"A", "B">>, <<"B", "C">> >>}

(* Narrations: sounds are lengths in tenths of a second, silence first.      *)
Narration(s, l, r) == [sound |-> s, lufs |-> l, peak |-> -35, noise |-> -620, readable |-> r]
Sounds == {<<a, 8, p, 7, b>> : a \in {0, 1, 5, 6}, p \in {6, 12}, b \in {0, 5, 6}} \union {<<3>>}
MyNarrations ==
    {<<Narration(s, -235, TRUE)>> : s \in Sounds}
    \union {<<Narration(s, -262, r), Narration(<<2, 9, 2>>, -230, TRUE)>> :
               s \in {<<0, 8, 0>>, <<3>>}, r \in BOOLEAN}
    \union {<<Narration(<<0, 8, 0>>, -230, TRUE),
              [Narration(<<2, 9, 2>>, -230, TRUE) EXCEPT !.peak = p, !.noise = n]>> :
               p \in {-20, -5}, n \in {-570, -500}}
    \union {[i \in 1..3 |-> Narration(<<0, 10 - i, 0>>, -230, TRUE)], <<>>}

(* The pipeline: two workers with a disk and a cache each, and no edits.      *)
TwoDisks == INSTANCE ChapterPipeline WITH
    N <- 1, Silent <- {}, Lexical <- {}, Texts <- {"t1"}, Takes <- {1},
    Workers <- {"w1", "w2"}, NoWorker <- "nobody", None <- Absent,
    Disks <- {"d1", "d2"}, DiskOf <- ("w1" :> "d1") @@ ("w2" :> "d2"),
    RevisionCap <- <<2>>,
    text <- pText, job <- pJob, row <- pRow, revs <- pRevs, usage <- pUsage, object <- pObject,
    book <- pBook, manifest <- pManifest, cache <- pCache, local <- pLocal, pc <- pPc,
    run <- pRun, edited <- pEdited, fellBack <- pFellBack
-----------------------------------------------------------------------------
Parts == {"books", "files", "accounts", "admission", "retention", "registry", "agents", "scripts", "batches",
          "production", "studio", "delivery", "library", "previews", "catalog", "manuscript",
          "mastering"}

\* A part with several initial states rests in one of them.
PlatformInit ==
    /\ part \in Parts
    /\ TwoDisks!Init
    /\ FileInit /\ (part # "files" => storeMode = "s3")
    /\ AdmissionInit /\ (part # "admission" => limiter = "none")
    /\ RegistryInit /\ (part # "registry" =>
          api = [db |-> TRUE, stamp |-> "ok", storage |-> TRUE, provider |-> TRUE])
    /\ AgentInit /\ (part # "agents" => lines = <<>>)
    /\ ScriptInit /\ (part # "scripts" => script = <<>> /\ reader = "gpu")
    /\ AccountsInit /\ RetentionInit /\ BatchInit /\ ProductionInit /\ StudioInit /\ DeliveryInit
    /\ LibraryInit /\ PreviewsInit /\ CatalogInit /\ ManuscriptInit /\ MasteringInit

Rendering == /\ part = "books" /\ TwoDisks!Next
             /\ UNCHANGED <<part, fileVars, accountVars, admitVars, retentionVars, registryVars,
                    agentVars, scriptVars, batchVars, productionVars, studioVars, deliveryVars,
                    libraryVars, previewVars, catalogVars, manuscriptVars, masteringVars>>
Files == /\ part = "files" /\ FileNext
         /\ UNCHANGED <<part, bookVars, accountVars, admitVars, retentionVars, registryVars,
                agentVars, scriptVars, batchVars, productionVars, studioVars, deliveryVars,
                libraryVars, previewVars, catalogVars, manuscriptVars, masteringVars>>
SigningIn == /\ part = "accounts" /\ AccountsNext
             /\ UNCHANGED <<part, bookVars, fileVars, admitVars, retentionVars, registryVars,
                    agentVars, scriptVars, batchVars, productionVars, studioVars, deliveryVars,
                    libraryVars, previewVars, catalogVars, manuscriptVars, masteringVars>>
Admitting == /\ part = "admission" /\ AdmissionNext
             /\ UNCHANGED <<part, bookVars, fileVars, accountVars, retentionVars, registryVars,
                    agentVars, scriptVars, batchVars, productionVars, studioVars, deliveryVars,
                    libraryVars, previewVars, catalogVars, manuscriptVars, masteringVars>>
Retaining == /\ part = "retention" /\ RetentionNext
             /\ UNCHANGED <<part, bookVars, fileVars, accountVars, admitVars, registryVars, agentVars,
                    scriptVars, batchVars, productionVars, studioVars, deliveryVars,
                    libraryVars, previewVars, catalogVars, manuscriptVars, masteringVars>>
Registering == /\ part = "registry" /\ RegistryNext
               /\ UNCHANGED <<part, bookVars, fileVars, accountVars, admitVars, retentionVars,
                      agentVars, scriptVars, batchVars, productionVars, studioVars, deliveryVars,
                      libraryVars, previewVars, catalogVars, manuscriptVars, masteringVars>>
Preprocessing == /\ part = "agents" /\ AgentNext
                 /\ UNCHANGED <<part, bookVars, fileVars, accountVars, admitVars, retentionVars,
                        registryVars, scriptVars, batchVars, productionVars, studioVars,
                        deliveryVars, libraryVars, previewVars, catalogVars, manuscriptVars,
                        masteringVars>>
ReadingTags == /\ part = "scripts" /\ ScriptNext
               /\ UNCHANGED <<part, bookVars, fileVars, accountVars, admitVars, retentionVars,
                      registryVars, agentVars, batchVars, productionVars, studioVars,
                      deliveryVars, libraryVars, previewVars, catalogVars, manuscriptVars,
                      masteringVars>>
Batching == /\ part = "batches" /\ BatchNext
            /\ UNCHANGED <<part, bookVars, fileVars, accountVars, admitVars, retentionVars,
                   registryVars, agentVars, scriptVars, productionVars, studioVars,
                   deliveryVars, libraryVars, previewVars, catalogVars, manuscriptVars,
                   masteringVars>>
Producing == /\ part = "production" /\ ProductionNext
             /\ UNCHANGED <<part, bookVars, fileVars, accountVars, admitVars, retentionVars,
                    registryVars, agentVars, scriptVars, batchVars, studioVars, deliveryVars,
                    libraryVars, previewVars, catalogVars, manuscriptVars, masteringVars>>
Designing == /\ part = "studio" /\ StudioNext
             /\ UNCHANGED <<part, bookVars, fileVars, accountVars, admitVars, retentionVars,
                    registryVars, agentVars, scriptVars, batchVars, productionVars,
                    deliveryVars, libraryVars, previewVars, catalogVars, manuscriptVars,
                    masteringVars>>
Delivering == /\ part = "delivery" /\ DeliveryNext
              /\ UNCHANGED <<part, bookVars, fileVars, accountVars, admitVars, retentionVars,
                     registryVars, agentVars, scriptVars, batchVars, productionVars, studioVars,
                     libraryVars, previewVars, catalogVars, manuscriptVars, masteringVars>>
KeepingLibrary == /\ part = "library" /\ LibraryNext
                  /\ UNCHANGED <<part, bookVars, fileVars, accountVars, admitVars, retentionVars,
                         registryVars, agentVars, scriptVars, batchVars, productionVars, studioVars,
                         deliveryVars, previewVars, catalogVars, manuscriptVars, masteringVars>>
Auditioning == /\ part = "previews" /\ PreviewsNext
               /\ UNCHANGED <<part, bookVars, fileVars, accountVars, admitVars, retentionVars,
                      registryVars, agentVars, scriptVars, batchVars, productionVars, studioVars,
                      deliveryVars, libraryVars, catalogVars, manuscriptVars, masteringVars>>
Cataloguing == /\ part = "catalog" /\ CatalogNext
               /\ UNCHANGED <<part, bookVars, fileVars, accountVars, admitVars, retentionVars,
                      registryVars, agentVars, scriptVars, batchVars, productionVars, studioVars,
                      deliveryVars, libraryVars, previewVars, manuscriptVars, masteringVars>>
Splitting == /\ part = "manuscript" /\ ManuscriptNext
             /\ UNCHANGED <<part, bookVars, fileVars, accountVars, admitVars, retentionVars,
                    registryVars, agentVars, scriptVars, batchVars, productionVars, studioVars,
                    deliveryVars, libraryVars, previewVars, catalogVars, masteringVars>>
MasteringBook == /\ part = "mastering" /\ MasteringNext
                 /\ UNCHANGED <<part, bookVars, fileVars, accountVars, admitVars, retentionVars,
                        registryVars, agentVars, scriptVars, batchVars, productionVars, studioVars,
                        deliveryVars, libraryVars, previewVars, catalogVars, manuscriptVars>>

PlatformNext ==
    \/ Rendering \/ Files \/ SigningIn \/ Admitting \/ Retaining \/ Registering \/ Preprocessing \/ ReadingTags
    \/ Batching \/ Producing \/ Designing \/ Delivering \/ KeepingLibrary \/ Auditioning
    \/ Cataloguing \/ Splitting \/ MasteringBook
PlatformSpec == PlatformInit /\ [][PlatformNext]_allVars

\* Two workers that cannot see each other's disk and cache take turns at a
\* chapter: what one has synthesized and the other repeats is billed once, and
\* the finished book and its manifest hold it as its row says (run_job).
TwoDisksSound == TwoDisks!BilledOnce /\ TwoDisks!ExportFaithful

\* The type invariants of the parts.
PlatformTypeOK ==
    /\ FileTypeOK /\ AccountsTypeOK /\ AdmissionTypeOK /\ RetentionTypeOK /\ RegistryTypeOK
    /\ AgentTypeOK /\ ScriptTypeOK /\ BatchTypeOK /\ ProductionTypeOK /\ StudioTypeOK
    /\ DeliveryTypeOK /\ LibraryTypeOK /\ PreviewsTypeOK /\ CatalogTypeOK /\ MasteringTypeOK
=============================================================================
