SPECIFICATION PlatformSpec
CONSTANTS
    Absent = Absent
    FileWriters = {"a", "b"}
    FileKeys = {"k1", "k2"}
    FileValues = {"short", "long"}
    FileSize <- MySizes
    TwinsCrash = FALSE
    AuthReqs = {"r1", "r2", "r3"}
    Subjects = {"s1", "s2"}
    Emails = {"e1"}
    SubjectEmail <- MySubjectEmail
    Requests = {"r1", "r2", "r3"}
    RateLimit = 1
    Quota = 1
    MaxChars = 1
    MaxWindows = 1
    Sweepers = {"w1", "w2"}
    DeleteRows = FALSE
    RerenderInSweep = FALSE
    MaxRuns = 2
    Procs = {"p1", "p2"}
    RegJobs = {"j1", "j2"}
    RawChapters <- MyChapters
    Batch = 2
    Scripts <- MyScripts
    ScriptCast = {"narrator", "Ann"}
    Books = {"b1", "b2"}
    Spread = {1, 10}
    BatchClaimers = {"w1"}
    LastTick = 11
    Names = {"ann", "bob", "?"}
    Actors = {"narrator", "v1", "v2"}
    Manuscripts <- MyManuscripts
    Plans <- MyPlans
    MaxJoin = 2
    EditCap = 2
    Patches <- MyPatches
    Saves <- MySaves
    LockSets = {{}, {"effort"}}
    Weights = {700}
    Protected <- MyProtected
    StudioProviders = {"edge", "polly"}
    VoiceCap = 2
    StudioVersionCap = 2
    CandidateCap = 1
    TrackLists <- MyTracks
    Dictionaries <- MyDictionaries
    Passages <- MyPassages
    Tenants = {"o1", "o2"}
    LibVoices = {"v1", "v2"}
    LibProjects = {"p1", "p2"}
    OwnerOf <- MyOwners
    FrameLists <- MyFrameLists
    RowCap = 2
    Listeners = {"a", "b"}
    Auditions <- MyAuditions
    Unsayable = {"mute"}
    PreviewCap = 2
    CatOrgs = {"o1"}
    CatSeeds <- MySeeds
    CityRows <- MyCity
    CatClones = {"k1"}
    PerPages = {0, 2}
    RawBooks <- MyBooks
    Texts <- MyTexts
    MaxChunk = 5
    Imports <- MyImports
    NameMaps <- MyNameMaps
    Narrations <- MyNarrations
INVARIANTS
    PlatformTypeOK
    
    OneWorkspace
    
    AssetsKept
    
    
    SpokenAsWritten
    ProductionHonest
    
    
    LibraryOwnsItsRefs
    PreviewsPlayable
    
     ChunksKeepText
    

    
    
\* A part may have nothing left to do.
CHECK_DEADLOCK FALSE
