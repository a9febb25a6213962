---------------------------- MODULE StorageDirs ----------------------------
(***************************************************************************)
(* The directories of the storage.  Every upload saves its file in a       *)
(* directory of its own, in that of the day, which uploads share; Day      *)
(* stands for the shared directories, of the day, the month and the year.  *)
(*                                                                         *)
(* The local storage makes both in one step of the event loop and writes   *)
(* the file in a thread; its deletion leaves them to the task that removes *)
(* the empty ones.  The WebDAV storage makes them level by level, and its  *)
(* deletion removes those that it finds empty, on its way up.  Each of its *)
(* steps is a request to the server of the storage, where DELETE takes a   *)
(* directory with all that is in it and a PUT needs the directory.  An     *)
(* upload in chunks, which is modelled for this storage only, puts them    *)
(* into the directory `chunks` beside the file to be.                      *)
(***************************************************************************)
EXTENDS Integers

CONSTANTS Files,         \* files, each with an upload and a deletion
          Chunked,       \* those that are uploaded in chunks
          Day,           \* the shared directory
          Nothing        \* the task looks at no directory

ASSUME DirsConstants ==
    /\ Chunked \subseteq Files
    /\ Day \notin Files
    /\ Nothing \notin Files \cup {Day}

VARIABLES
    backend,    \* the storage in use
    walked,     \* storage_path is empty, so that the task walks the uploads
    prefix,     \* the WebDAV server writes <D:response>, as the code expects
    dirs,       \* directories; that of a file has its name
    chunks,     \* uploads that have a directory `chunks` in their own
    parts,      \* uploads whose chunks are there, in a directory of their own
    stored,     \* files
    merged,     \* uploads in chunks whose chunks have been read
    save,       \* where each upload is
    del,        \* where the deletion of each file is
    look,       \* the directory the task has found empty
    overlapped, \* history: uploads under way when a directory was to be removed
    broken,     \* history: uploads that did not find their directory
    raised      \* history: a request to the WebDAV server failed

deployment == <<backend, walked, prefix>>
chunkVars  == <<chunks, parts, merged>>
vars == <<deployment, dirs, chunkVars, stored, save, del, look, overlapped,
          broken, raised>>

SaveStates == {"idle", "dayHead", "dayMake", "ownHead", "ownMake", "chunksMake",
               "putting", "merging", "writing", "cleaning", "saved", "failed"}
DelStates  == {"idle", "unlinking", "ownLook", "ownRemove", "dayLook",
               "dayRemove", "over"}

Filed(f)    == save[f] \in {"cleaning", "saved"}
Saving(f)   == save[f] \notin {"idle", "failed"} /\ ~Filed(f)
Removing    ==
    look # Nothing \/ \E g \in Files : del[g] \in {"ownRemove", "dayRemove"}
Empty(d)    == IF d = Day THEN dirs = {Day} ELSE d \notin stored \cup chunks

SaveAt(f, l) == save' = [save EXCEPT ![f] = l]
DelAt(f, l)  == del' = [del EXCEPT ![f] = l]

\* After every step: which uploads meet a removal that has been decided.
Overlaps ==
    overlapped' = overlapped \cup {f \in Files : Removing' /\ Saving(f)'}

-----------------------------------------------------------------------------
Init ==
    /\ backend \in {"local", "webdav"}
    /\ walked \in BOOLEAN
    /\ prefix \in BOOLEAN
    /\ dirs = {}
    /\ chunks = {}
    /\ parts = {}
    /\ merged = {}
    /\ stored = {}
    /\ save = [f \in Files |-> "idle"]
    /\ del = [f \in Files |-> "idle"]
    /\ look = Nothing
    /\ overlapped = {}
    /\ broken = {}
    /\ raised = FALSE

-----------------------------------------------------------------------------
(* The local storage.                                                      *)

MakeDirs(f) ==
    /\ backend = "local" /\ save[f] = "idle" /\ f \notin Chunked
    /\ dirs' = dirs \cup {Day, f}
    /\ SaveAt(f, "writing")
    /\ UNCHANGED <<deployment, chunkVars, stored, del, look, broken, raised>>
    /\ Overlaps

\* The thread opens the file in the directory that was made, and so does the
\* PUT of the WebDAV storage: it fails when there is none.
Write(f) ==
    /\ save[f] = "writing"
    /\ IF f \in dirs
       THEN /\ stored' = stored \cup {f}
            /\ SaveAt(f, IF f \in Chunked THEN "cleaning" ELSE "saved")
            /\ UNCHANGED broken
       ELSE broken' = broken \cup {f} /\ SaveAt(f, "failed") /\ UNCHANGED stored
    /\ UNCHANGED <<deployment, dirs, chunkVars, del, look, raised>>
    /\ Overlaps

\* The share expires, is used up, deleted, or not published.
DeleteLocal(f) ==
    /\ backend = "local" /\ save[f] = "saved" /\ del[f] = "idle"
    /\ stored' = stored \ {f}
    /\ DelAt(f, "over")
    /\ UNCHANGED <<deployment, dirs, chunkVars, save, look, broken, raised>>
    /\ Overlaps

\* Fault, in no action: the task does not go down to the directories of files.
SweepLookDay(d) ==
    /\ backend = "local" /\ walked /\ look = Nothing
    /\ d = Day /\ d \in dirs /\ Empty(d)
    /\ look' = d
    /\ UNCHANGED <<deployment, dirs, chunkVars, stored, save, del, broken,
                   raised>>
    /\ Overlaps

\* delete_expire_files walks the directories below data/share/data, which is
\* where uploads are when no storage_path is set; an empty one ...
SweepLook(d) ==
    /\ backend = "local" /\ walked /\ look = Nothing
    /\ d \in dirs /\ Empty(d)
    /\ look' = d
    /\ UNCHANGED <<deployment, dirs, chunkVars, stored, save, del, broken,
                   raised>>
    /\ Overlaps

\* Fault, in no action: the directory is removed with what is in it.
SweepRemoveAll ==
    /\ look # Nothing
    /\ dirs' = dirs \ {look}
    /\ stored' = stored \ {look}
    /\ look' = Nothing
    /\ UNCHANGED <<deployment, chunkVars, save, del, broken, raised>>
    /\ Overlaps

\* ... is removed by os.rmdir, which fails when a thread has put a file there.
SweepRemove ==
    /\ look # Nothing
    /\ dirs' = IF Empty(look) THEN dirs \ {look} ELSE dirs
    /\ look' = Nothing
    /\ UNCHANGED <<deployment, chunkVars, stored, save, del, broken, raised>>
    /\ Overlaps

-----------------------------------------------------------------------------
(* The WebDAV storage.                                                     *)

\* _mkdir_p: HEAD, and MKCOL where there is nothing; that somebody has made it
\* meanwhile, or that the directory above is missing, is 409 and passed over.
Head(f, from, d, make, next) ==
    /\ backend = "webdav" /\ save[f] = from
    /\ SaveAt(f, IF d \in dirs THEN next ELSE make)
    /\ UNCHANGED <<deployment, dirs, chunkVars, stored, del, look, broken,
                   raised>>
    /\ Overlaps

Make(f, from, d, next) ==
    /\ backend = "webdav" /\ save[f] = from
    /\ dirs' = IF d = Day \/ Day \in dirs THEN dirs \cup {d} ELSE dirs
    /\ SaveAt(f, next)
    /\ UNCHANGED <<deployment, chunkVars, stored, del, look, broken, raised>>
    /\ Overlaps

\* The chunks come before the file, by the same way.
Within(f)  == IF f \in Chunked \ merged THEN "chunksMake" ELSE "writing"

HeadDay(f) == \E from \in {"idle", "dayHead"} :
                  Head(f, from, Day, "dayMake", "ownHead")
MakeDay(f) == Make(f, "dayMake", Day, "ownHead")
HeadOwn(f) == Head(f, "ownHead", f, "ownMake", Within(f))
MakeOwn(f) == Make(f, "ownMake", f, Within(f))

\* save_chunk goes on to `chunks`, which nobody else makes, ...
MakeChunks(f) ==
    /\ save[f] = "chunksMake"
    /\ chunks' = IF f \in dirs THEN chunks \cup {f} ELSE chunks
    /\ SaveAt(f, "putting")
    /\ UNCHANGED <<deployment, dirs, parts, merged, stored, del, look, broken,
                   raised>>
    /\ Overlaps

\* ... and to a directory in it, which is a part of the chunks here.
PutChunk(f) ==
    /\ save[f] = "putting"
    /\ IF f \in chunks
       THEN parts' = parts \cup {f} /\ SaveAt(f, "merging") /\ UNCHANGED broken
       ELSE broken' = broken \cup {f} /\ SaveAt(f, "failed") /\ UNCHANGED parts
    /\ UNCHANGED <<deployment, dirs, chunks, merged, stored, del, look, raised>>
    /\ Overlaps

\* merge_chunks reads the chunks, makes the directories and puts the file.
ReadChunks(f) ==
    /\ save[f] = "merging"
    /\ IF f \in parts
       THEN /\ merged' = merged \cup {f}
            /\ SaveAt(f, "dayHead")
            /\ UNCHANGED broken
       ELSE broken' = broken \cup {f} /\ SaveAt(f, "failed") /\ UNCHANGED merged
    /\ UNCHANGED <<deployment, dirs, chunks, parts, stored, del, look, raised>>
    /\ Overlaps

\* clean_chunks, after the file was published, or when the session is cancelled
\* or too old: the chunks go with their directory, and `chunks` stays.  What
\* it cannot delete is logged.
CleanChunks(f) ==
    /\ save[f] \in {"merging", "cleaning"}
    /\ \/ parts' = parts \ {f} /\ UNCHANGED raised
       \/ raised' = TRUE /\ UNCHANGED parts
    /\ SaveAt(f, IF Filed(f) THEN "saved" ELSE "failed")
    /\ UNCHANGED <<deployment, dirs, chunks, merged, stored, del, look, broken>>
    /\ Overlaps

DeleteDav(f) ==
    /\ backend = "webdav" /\ Filed(f) /\ del[f] = "idle"
    /\ stored' = stored \ {f}
    /\ DelAt(f, "ownLook")
    /\ UNCHANGED <<deployment, dirs, chunkVars, save, look, broken, raised>>
    /\ Overlaps

\* Fault, in no action: the number of the answers is not looked at.
LooksEmptyAlways(d) == d \in dirs

\* _is_dir_empty: PROPFIND, which also fails on what is not there.  The code
\* counts <D:response>; a server that writes it with another prefix makes every
\* directory look empty.
LooksEmpty(d) == d \in dirs /\ (prefix => Empty(d))

Look(f, from, d, remove) ==
    /\ del[f] = from
    /\ DelAt(f, IF LooksEmpty(d) THEN remove ELSE "over")
    /\ UNCHANGED <<deployment, dirs, chunkVars, stored, save, look, broken,
                   raised>>
    /\ Overlaps

LookOwn(f) == Look(f, "ownLook", f, "ownRemove")
LookDay(f) == Look(f, "dayLook", Day, "dayRemove")

\* DELETE of directories, with what is in them.
RemoveOf(ds) ==
    /\ dirs' = dirs \ ds
    /\ stored' = stored \ ds
    /\ chunks' = chunks \ ds
    /\ parts' = parts \ ds

\* Fault, in no action: the walk stops at the directory of the file.
RemoveOwnOnly(f) ==
    /\ del[f] = "ownRemove"
    /\ RemoveOf({f})
    /\ DelAt(f, "over")
    /\ UNCHANGED <<deployment, merged, save, look, broken, raised>>
    /\ Overlaps

RemoveOwn(f) ==
    /\ del[f] = "ownRemove"
    /\ RemoveOf({f})
    /\ DelAt(f, "dayLook")
    /\ UNCHANGED <<deployment, merged, save, look, broken, raised>>
    /\ Overlaps

RemoveDay(f) ==
    /\ del[f] = "dayRemove"
    /\ RemoveOf(dirs)
    /\ DelAt(f, "over")
    /\ UNCHANGED <<deployment, merged, save, look, broken, raised>>
    /\ Overlaps

\* A request to the server fails, or is answered by another status: the upload
\* fails, or the deletion goes no further.
Raises(f) ==
    /\ backend = "webdav"
    /\ raised' = TRUE
    /\ \/ Saving(f) /\ SaveAt(f, "failed") /\ UNCHANGED del
       \/ del[f] \notin {"idle", "over"} /\ DelAt(f, "over") /\ UNCHANGED save
    /\ UNCHANGED <<deployment, dirs, chunkVars, stored, look, broken>>
    /\ Overlaps

-----------------------------------------------------------------------------
Sweep == SweepRemove \/ \E d \in Files \cup {Day} : SweepLook(d)

Next ==
    \/ Sweep
    \/ \E f \in Files :
          \/ MakeDirs(f)
          \/ Write(f)
          \/ DeleteLocal(f)
          \/ HeadDay(f)
          \/ MakeDay(f)
          \/ HeadOwn(f)
          \/ MakeOwn(f)
          \/ MakeChunks(f)
          \/ PutChunk(f)
          \/ ReadChunks(f)
          \/ CleanChunks(f)
          \/ DeleteDav(f)
          \/ LookOwn(f)
          \/ RemoveOwn(f)
          \/ LookDay(f)
          \/ RemoveDay(f)
          \/ Raises(f)

Spec == Init /\ [][Next]_vars

\* The task is a loop.
FairSpec == Spec /\ WF_vars(Sweep)

-----------------------------------------------------------------------------
(* Properties that hold.                                                   *)

\* Every variable has its type, and whatever is stored has its directories.
TypeOK ==
    /\ backend \in {"local", "webdav"}
    /\ walked \in BOOLEAN
    /\ prefix \in BOOLEAN
    /\ dirs \subseteq Files \cup {Day}
    /\ stored \subseteq Files
    /\ chunks \subseteq Chunked
    /\ merged \subseteq Chunked
    /\ save \in [Files -> SaveStates]
    /\ del \in [Files -> DelStates]
    /\ look \in Files \cup {Day, Nothing}
    /\ overlapped \subseteq Files
    /\ broken \subseteq Files
    /\ raised \in BOOLEAN
    /\ stored \cup chunks \subseteq dirs
    /\ parts \subseteq chunks
    /\ dirs # {} => Day \in dirs

\* A saved file stays until its own deletion begins, and an upload finds the
\* directories and chunks it has put there, unless the removal of a directory
\* had been decided while the upload was under way.  The local storage loses
\* no saved file even then.  Only on a WebDAV server whose answers the code
\* does not read does the deletion of another file take a saved one.
SavedKept ==
    \A f \in Files :
        /\ Filed(f) /\ del[f] = "idle" =>
              \/ f \in stored
              \/ backend = "webdav" /\ f \in overlapped
              \/ /\ backend = "webdav" /\ ~prefix
                 /\ \E g \in Files \ {f} : del[g] = "over"
        /\ f \in broken => f \in overlapped

\* No upload and no deletion is under way.
Quiet == \A f \in Files : ~Saving(f) /\ del[f] \in {"idle", "over"}

\* Once all is done, a directory that stays on the WebDAV storage holds a file
\* or another directory, unless a request failed or an upload met a removal.
\* The last one may be `chunks`, which nothing ever removes: a directory in
\* which chunks were put stays, with or without its file.
OnlyChunksStay ==
    backend = "webdav" /\ Quiet =>
        raised \/ overlapped # {} \/ \A d \in dirs : ~Empty(d)

\* The task comes to remove every empty directory of the local storage, if no
\* storage_path is set: it does not walk the directories below one.
EmptyRemoved ==
    \A f \in Files :
        (backend = "local" /\ walked /\ del[f] = "over") ~> f \notin dirs
=============================================================================
