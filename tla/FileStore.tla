----------------------------- MODULE FileStore -----------------------------
(* LocalStorage.put_bytes and SynthesisCache.put write "<path>.tmp" and then   *)
(* os.replace it onto the path.  The temporary name depends on the key alone,  *)
(* so two writers of one key share the file.  Names point to inodes: a writer  *)
(* keeps writing to the inode it opened after another writer renamed it.       *)
(* S3Storage hands the whole object to the bucket.                             *)
EXTENDS Naturals, Sequences

CONSTANTS FileWriters,  \* processes that put
          FileKeys,     \* keys of one backend
          FileValues,   \* audio a writer may put
          FileSize,     \* value -> number of blocks of its bytes
          TwinsCrash    \* whether writers of one shared key may be killed
ASSUME FileAssumption == /\ FileSize \in [FileValues -> Nat \ {0}]
                         /\ TwinsCrash \in BOOLEAN
                         /\ "none" \notin FileKeys

VARIABLES
    storeMode,  \* "exclusive": one writer at a time on a key;
                \* "twins": two writers synthesise the same chunk; "s3"
    inodes,     \* sequence of file contents, a content is a sequence of blocks
    tmpName,    \* key -> inode of <path>.tmp, 0 when there is none
    pathName,   \* key -> inode of <path>, 0 when there is none
    writers     \* writer -> [pc, key, val, fd, reply]

fileVars == <<storeMode, inodes, tmpName, pathName, writers>>

Bytes(v) == [i \in 1..FileSize[v] |-> v]
FileIdle == [pc |-> "idle", key |-> "none", val |-> "none", fd |-> 0, reply |-> "none"]

FileInit == /\ storeMode \in {"exclusive", "twins", "s3"}
            /\ inodes = <<>>
            /\ tmpName = [k \in FileKeys |-> 0]
            /\ pathName = [k \in FileKeys |-> 0]
            /\ writers = [w \in FileWriters |-> FileIdle]

Content(n) == IF n = 0 THEN <<>> ELSE inodes[n]
Entry(k) == Content(pathName[k])
WholeBytes(c) == \E v \in FileValues : c = Bytes(v)

Writing(w) == writers[w].pc # "idle"
MaxInodes == 3
----------------------------------------------------------------------------
\* Slip: open the file itself.
PutOpenInPlace(w, k, v) ==
    /\ storeMode # "s3" /\ ~Writing(w) /\ Len(inodes) < MaxInodes
    /\ \A u \in FileWriters : Writing(u) => writers[u].key # k
    /\ inodes' = Append(inodes, <<>>)
    /\ pathName' = [pathName EXCEPT ![k] = Len(inodes) + 1]
    /\ tmpName' = [tmpName EXCEPT ![k] = Len(inodes) + 1]
    /\ writers' = [writers EXCEPT ![w] =
          [pc |-> "opened", key |-> k, val |-> v, fd |-> Len(inodes) + 1, reply |-> "none"]]
    /\ UNCHANGED storeMode
\* open(tmp, "wb"): truncates the file another writer of the key has open, or
\* creates it.  Writers of one key put different audio only one after another.
PutOpen(w, k, v) ==
    /\ storeMode # "s3" /\ ~Writing(w) /\ Len(inodes) < MaxInodes
    /\ \A u \in FileWriters : Writing(u) /\ writers[u].key = k =>
          storeMode = "twins" /\ writers[u].val = v
    /\ LET fresh == Len(inodes) + 1
           n == IF tmpName[k] = 0 THEN fresh ELSE tmpName[k]
       IN /\ inodes' = IF n = fresh THEN Append(inodes, <<>>) ELSE [inodes EXCEPT ![n] = <<>>]
          /\ tmpName' = [tmpName EXCEPT ![k] = n]
          /\ writers' = [writers EXCEPT ![w] =
                [pc |-> "opened", key |-> k, val |-> v, fd |-> n, reply |-> "none"]]
    /\ UNCHANGED <<storeMode, pathName>>

\* f.write(data): one write at the writer's own offset 0; blocks another writer
\* put behind it stay.
Overwrite(new, old) ==
    [i \in 1..(IF Len(new) > Len(old) THEN Len(new) ELSE Len(old)) |->
        IF i <= Len(new) THEN new[i] ELSE old[i]]
PutWrite(w) ==
    /\ writers[w].pc = "opened"
    /\ inodes' = [inodes EXCEPT ![writers[w].fd] = Overwrite(Bytes(writers[w].val), @)]
    /\ writers' = [writers EXCEPT ![w].pc = "written"]
    /\ UNCHANGED <<storeMode, tmpName, pathName>>

\* os.replace(tmp, path): renames whatever file has the temporary name now;
\* FileNotFoundError when the other writer has renamed it already.
PutReplace(w) ==
    LET k == writers[w].key IN
    /\ writers[w].pc = "written"
    /\ IF tmpName[k] # 0
       THEN /\ pathName' = [pathName EXCEPT ![k] = tmpName[k]]
            /\ tmpName' = [tmpName EXCEPT ![k] = 0]
            /\ writers' = [writers EXCEPT ![w] = [FileIdle EXCEPT !.reply = "ok"]]
       ELSE /\ writers' = [writers EXCEPT ![w] = [FileIdle EXCEPT !.reply = "failed"]]
            /\ UNCHANGED <<pathName, tmpName>>
    /\ UNCHANGED <<storeMode, inodes>>

\* The process is killed; while it writes, only the first blocks may be there.
PutCrash(w) ==
    /\ Writing(w) /\ (storeMode = "twins" => TwinsCrash) /\ storeMode # "s3"
    /\ \/ UNCHANGED inodes
       \/ /\ writers[w].pc = "opened"
          /\ \E n \in 1..FileSize[writers[w].val] - 1 :
                inodes' = [inodes EXCEPT ![writers[w].fd] =
                              Overwrite(SubSeq(Bytes(writers[w].val), 1, n), @)]
    /\ writers' = [writers EXCEPT ![w] = [FileIdle EXCEPT !.reply = "failed"]]
    /\ UNCHANGED <<storeMode, tmpName, pathName>>

\* S3Storage: put_object and upload_file publish the object whole or raise.
S3Start(w, k, v) ==
    /\ storeMode = "s3" /\ ~Writing(w) /\ Len(inodes) < MaxInodes
    /\ writers' = [writers EXCEPT ![w] =
          [pc |-> "sending", key |-> k, val |-> v, fd |-> 0, reply |-> "none"]]
    /\ UNCHANGED <<storeMode, inodes, tmpName, pathName>>
S3Put(w) ==
    /\ writers[w].pc = "sending" /\ Len(inodes) < MaxInodes
    /\ inodes' = Append(inodes, Bytes(writers[w].val))
    /\ pathName' = [pathName EXCEPT ![writers[w].key] = Len(inodes) + 1]
    /\ writers' = [writers EXCEPT ![w] = [FileIdle EXCEPT !.reply = "ok"]]
    /\ UNCHANGED <<storeMode, tmpName>>
S3Raise(w) ==
    /\ writers[w].pc = "sending"
    /\ writers' = [writers EXCEPT ![w] = [FileIdle EXCEPT !.reply = "failed"]]
    /\ UNCHANGED <<storeMode, inodes, tmpName, pathName>>

\* SynthesisCache.evict, LocalStorage.delete, S3Storage.delete: a missing file
\* is no error.
DeleteKey(k) == /\ pathName' = [pathName EXCEPT ![k] = 0]
                /\ UNCHANGED <<storeMode, inodes, tmpName, writers>>

\* SynthesisCache.get serves an existing file that is not empty.
CacheHit(k) == pathName[k] # 0 /\ Entry(k) # <<>>

FileNext == \/ \E w \in FileWriters, k \in FileKeys, v \in FileValues :
                  PutOpen(w, k, v) \/ S3Start(w, k, v)
            \/ \E w \in FileWriters : PutWrite(w) \/ PutReplace(w) \/ PutCrash(w)
                                      \/ S3Put(w) \/ S3Raise(w)
            \/ \E k \in FileKeys : DeleteKey(k)

FileSpec == FileInit /\ [][FileNext]_fileVars
----------------------------------------------------------------------------
FileTypeOK ==
    /\ storeMode \in {"exclusive", "twins", "s3"}
    /\ \A n \in DOMAIN inodes : \A i \in DOMAIN inodes[n] : inodes[n][i] \in FileValues
    /\ tmpName \in [FileKeys -> 0..MaxInodes] /\ pathName \in [FileKeys -> 0..MaxInodes]
    /\ writers \in [FileWriters -> [pc : {"idle", "opened", "written", "sending"},
           key : FileKeys \cup {"none"}, val : FileValues \cup {"none"},
           fd : 0..MaxInodes, reply : {"none", "ok", "failed"}]]

\* Every entry the cache serves is one whole audio: "atomic; a crash never
\* leaves a bad cache entry" (SynthesisCache.put).
ServedWhole == \A k \in FileKeys : CacheHit(k) => WholeBytes(Entry(k))

\* With one writer at a time on a key, files on disk implement AtomicStore.
\* (Twins are left out: between the truncation and the second write an entry
\* is empty, which the cache reports as a miss.)
Mapped == storeMode # "twins"
FileHeld == [k \in FileKeys |->
                IF Mapped /\ pathName[k] # 0
                THEN IF WholeBytes(Entry(k)) THEN Entry(k)[1] ELSE "torn"
                ELSE "absent"]
FileAsked == [w \in FileWriters |->
                 IF Mapped /\ Writing(w) THEN <<writers[w].key, writers[w].val>>
                 ELSE <<"none", "none">>]
FileTold == [w \in FileWriters |-> IF Mapped THEN writers[w].reply ELSE "none"]
Store == INSTANCE AtomicStore WITH
    store <- FileHeld, request <- FileAsked, reply <- FileTold

\* A put takes effect whole or not at all, whatever the moment its process
\* dies, and a put that returned has had its effect.
PutsAreAtomic == Store!Spec

\* With one writer on a key puts are atomic, and even two workers that put the
\* same chunk through one temporary file never make the cache serve half of it,
\* as long as neither is killed (SynthesisCache.put, LocalStorage.put_bytes).
FilesSound == PutsAreAtomic /\ []ServedWhole
=============================================================================
