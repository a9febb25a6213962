----------------------------- MODULE ChunkUpload -----------------------------
(***************************************************************************)
(* One session of a chunked upload on the local storage: the requests that *)
(* upload its chunks, complete it or cancel it, and the task that cleans   *)
(* what was abandoned.  Clients that upload the same file share a session, *)
(* because its init resumes an unfinished one.                             *)
(*                                                                         *)
(* A file that is being merged, or saved as a chunk, is an inode: renaming *)
(* or removing its path does not disturb a request that has it open, and   *)
(* opening the path again truncates it.  All clients of the session upload *)
(* the same data, so that a chunk is its index and the hash of a whole one *)
(* agrees.  What reserve_storage decides is in module StorageQuota; here   *)
(* it grants or refuses.                                                   *)
(***************************************************************************)
EXTENDS Integers, FiniteSets

CONSTANTS Uploads,       \* requests that upload a chunk
          Idx,           \* the index each of them uploads
          Resumes,       \* requests that resume the session by another init
          Completions,   \* requests that complete the session
          Cancels,       \* requests that cancel it
          Cleaner,       \* the task clean_incomplete_uploads
          NoFile,        \* no inode
          Total,         \* total_chunks
          StorageFails,  \* TRUE iff calls of the storage may fail
          MaxRaises,     \* how often clean_chunks may raise
          MaxCrashes     \* a bound of the instance

Indexes   == 0..(Total - 1)
Enders    == Completions \cup Cancels \cup {Cleaner}
Processes == Uploads \cup Resumes \cup Enders

ASSUME ChunkConstants ==
    /\ Total \in Nat \ {0}
    /\ Idx \in [Uploads -> Indexes]
    /\ NoFile \notin Completions \cup Uploads
    /\ (Uploads \cup Resumes) \cap Enders = {}
    /\ Uploads \cap Resumes = {}
    /\ Completions \cap Cancels = {}
    /\ Cleaner \notin Completions \cup Cancels
    /\ StorageFails \in BOOLEAN
    /\ MaxRaises \in Nat
    /\ MaxCrashes \in Nat

VARIABLES
    session,   \* the row of the session and its column completed
    records,   \* uploads whose row is in the table
    held,      \* the reservation of the session is there
    old,       \* the session is older than chunk_expire_hours
    temp,      \* the inode of the .tmp file of each index
    part,      \* the inode of its .part file
    whole,     \* the inodes of chunks that hold all of their chunk
    file,      \* the inode a request that saves a chunk has open
    merging,   \* the inode of the .merging file
    output,    \* the inode of the merged file
    content,   \* the chunks that each inode holds
    shares,    \* completions that published a FileCodes row
    pc,        \* where each process is
    listed,    \* the indexes of the records a completion read
    next,      \* the chunk it merges next
    inode,     \* the inode it has open
    raises,
    crashes,
    strays,    \* history: processes that wrote when the session was deleted
    litter,    \* history: chunks a cleaning left without raising
    cleaned,   \* history: some cleaning of the chunks has begun
    disturbed, \* history: uploads whose .tmp another truncated or replaced
    mixed      \* history: inodes that more than one completion wrote or moved

tableVars == <<session, records, held, shares>>
chunkVars == <<temp, part, whole, file>>
mergeVars == <<merging, output, content, listed, next, inode>>
ghostVars == <<strays, litter, cleaned, disturbed, mixed>>
envVars   == <<old, raises, crashes>>
vars == <<tableVars, chunkVars, mergeVars, pc, envVars, ghostVars>>

SessionStates == {"new", "open", "completed", "gone"}
PcStates == {"idle", "reserving", "checking", "writing", "renaming",
             "recording", "creating", "counting", "opening", "merging",
             "moving", "publishing", "failed", "cleaning", "deleting",
             "releasing", "over"}

Exists == session \in {"open", "completed"}

Goto(p, l) == pc' = [pc EXCEPT ![p] = l]

\* A request that ends here has answered; the cleaner goes on to its next round.
End(p) == IF p = Cleaner THEN "idle" ELSE "over"

\* A write that the deletion of the session does not see.
Vanishing == session = "gone" \/ \E p \in Enders : pc[p] = "deleting"
Stray(p)  == strays' = IF Vanishing THEN strays \cup {p} ELSE strays

-----------------------------------------------------------------------------
Init ==
    /\ session = "new"
    /\ records = {}
    /\ held = FALSE
    /\ old = FALSE
    /\ temp = [i \in Indexes |-> NoFile]
    /\ part = [i \in Indexes |-> NoFile]
    /\ whole = {}
    /\ file = [u \in Uploads |-> NoFile]
    /\ merging = NoFile
    /\ output = NoFile
    /\ content = [c \in Completions |-> {}]
    /\ shares = {}
    /\ pc = [p \in Processes |-> "idle"]
    /\ listed = [c \in Completions |-> {}]
    /\ next = [c \in Completions |-> 0]
    /\ inode = [c \in Completions |-> NoFile]
    /\ raises = 0
    /\ crashes = 0
    /\ strays = {}
    /\ litter = {}
    /\ cleaned = FALSE
    /\ disturbed = {}
    /\ mixed = {}

\* init_chunk_upload reserves the bytes of the file and inserts the session.
InitUpload ==
    /\ session = "new"
    /\ session' = "open"
    /\ held' = TRUE
    /\ UNCHANGED <<records, shares, chunkVars, mergeVars, pc, envVars,
                   ghostVars>>

Age ==
    /\ Exists /\ ~old
    /\ old' = TRUE
    /\ UNCHANGED <<tableVars, chunkVars, mergeVars, pc, raises, crashes,
                   ghostVars>>

\* The reservation reached its time and was deleted.
Lapse ==
    /\ held
    /\ held' = FALSE
    /\ UNCHANGED <<session, records, shares, chunkVars, mergeVars, pc, envVars,
                   ghostVars>>

-----------------------------------------------------------------------------
(* What a resumption, a chunk and a completion begin with: the session,    *)
(* then the quota.  A resumption ends there: it answers the indexes that   *)
(* have a record.                                                          *)

\* 404 when the session has gone, 409 when it is completed; an init that
\* finds no session to resume makes another one.
ReadSession(p) ==
    /\ pc[p] = "idle"
    /\ session # "new"
    /\ Goto(p, IF session = "open" THEN "reserving" ELSE "over")
    /\ UNCHANGED <<tableVars, chunkVars, mergeVars, envVars, ghostVars>>

Reserve(p) ==
    /\ pc[p] = "reserving"
    /\ held' = TRUE
    /\ Goto(p, CASE p \in Uploads -> "checking"
                 [] p \in Completions -> "counting"
                 [] OTHER -> "over")
    /\ Stray(p)
    /\ UNCHANGED <<session, records, shares, chunkVars, mergeVars, envVars,
                   litter, cleaned, disturbed, mixed>>

\* 507: the reservation had lapsed and there is no room for another.
Refuse(p) ==
    /\ pc[p] = "reserving"
    /\ ~held
    /\ Goto(p, "over")
    /\ UNCHANGED <<tableVars, chunkVars, mergeVars, envVars, ghostVars>>

-----------------------------------------------------------------------------
(* upload_chunk                                                            *)

\* A chunk that has a record is skipped; one whose index, size or header is
\* wrong is refused.
CheckChunk(u) ==
    /\ pc[u] = "checking"
    /\ \/ /\ \A v \in records : Idx[v] # Idx[u]
          /\ Goto(u, "opening")
       \/ Goto(u, "over")
    /\ UNCHANGED <<tableVars, chunkVars, mergeVars, envVars, ghostVars>>

\* Requests that save a chunk into this inode and have not renamed it yet.
Savers(i) == {u \in Uploads : file[u] = i /\ pc[u] \in {"writing", "renaming"}}

\* save_chunk opens a temporary file, whose name is that of the chunk, and
\* truncates one that is there, whoever writes it...
OpenTemp(u) ==
    LET i == IF temp[Idx[u]] = NoFile THEN u ELSE temp[Idx[u]] IN
    /\ pc[u] = "opening"
    /\ temp' = [temp EXCEPT ![Idx[u]] = i]
    /\ whole' = whole \ {i}
    /\ file' = [file EXCEPT ![u] = i]
    /\ disturbed' = disturbed \cup Savers(i)
    /\ Goto(u, "writing")
    /\ Stray(u)
    /\ UNCHANGED <<tableVars, part, mergeVars, envVars, litter, cleaned, mixed>>

\* ... writes the chunk; when another truncated the file meanwhile, what is
\* there now may have a hole...
WriteTemp(u) ==
    /\ pc[u] = "writing"
    /\ \/ whole' = whole \cup {file[u]}
       \/ u \in disturbed /\ UNCHANGED whole
    /\ Goto(u, "renaming")
    /\ UNCHANGED <<tableVars, temp, part, file, mergeVars, envVars, ghostVars>>

\* ... and renames whatever is at the path of the temporary file.
MoveTemp(u) ==
    LET i == temp[Idx[u]] IN
    /\ i # NoFile
    /\ temp' = [temp EXCEPT ![Idx[u]] = NoFile]
    /\ part' = [part EXCEPT ![Idx[u]] = i]
    /\ file' = [file EXCEPT ![u] = NoFile]
    /\ disturbed' = IF file[u] = i THEN disturbed ELSE disturbed \cup {u}
    /\ Goto(u, "recording")
    /\ Stray(u)
    /\ UNCHANGED <<tableVars, whole, mergeVars, envVars, litter, cleaned,
                   mixed>>

\* Fault, in no action: it is renamed before it is written and closed.
RenameTempUnclosed(u) == pc[u] \in {"writing", "renaming"} /\ MoveTemp(u)
RenameTemp(u) == pc[u] = "renaming" /\ MoveTemp(u)

\* Another upload of the chunk renamed the temporary file, a cleaning removed
\* it, or the storage failed: what is at its path is removed, the answer is
\* 500 and nothing is recorded.
SaveChunkRaises(u) ==
    /\ \/ StorageFails /\ pc[u] \in {"opening", "writing", "renaming"}
       \/ pc[u] = "renaming" /\ temp[Idx[u]] = NoFile
    /\ temp' = [temp EXCEPT ![Idx[u]] = NoFile]
    /\ file' = [file EXCEPT ![u] = NoFile]
    /\ Goto(u, "over")
    /\ UNCHANGED <<tableVars, part, whole, mergeVars, envVars, ghostVars>>

\* update_or_create: a record that is found says already what it should.
FindRecord(u) ==
    /\ pc[u] = "recording"
    /\ Goto(u, IF \E v \in records : Idx[v] = Idx[u] THEN "over" ELSE "creating")
    /\ UNCHANGED <<tableVars, chunkVars, mergeVars, envVars, ghostVars>>

\* No index of the table makes the chunk of a session unique.
CreateRecord(u) ==
    /\ pc[u] = "creating"
    /\ records' = records \cup {u}
    /\ Goto(u, "over")
    /\ Stray(u)
    /\ UNCHANGED <<session, held, shares, chunkVars, mergeVars, envVars, litter,
                   cleaned, disturbed, mixed>>

-----------------------------------------------------------------------------
(* complete_chunked_upload                                                 *)

\* The records are read once; unless there are as many as chunks, it is a 400.
Count(c) ==
    /\ pc[c] = "counting"
    /\ IF Cardinality(records) = Total
       THEN /\ listed' = [listed EXCEPT ![c] = {Idx[u] : u \in records}]
            /\ Goto(c, "opening")
       ELSE /\ Goto(c, "over")
            /\ UNCHANGED listed
    /\ UNCHANGED <<tableVars, chunkVars, merging, output, content, next, inode,
                   envVars, ghostVars>>

\* When upload_size was lowered since the init, the session is deleted.
CountTooLarge(c) ==
    /\ pc[c] = "counting"
    /\ Cardinality(records) = Total
    /\ Goto(c, "cleaning")
    /\ UNCHANGED <<tableVars, chunkVars, mergeVars, envVars, ghostVars>>

\* Completions that have an inode open and may still write it.
Writers(i) == {c \in Completions : inode[c] = i /\ pc[c] \in {"merging", "moving"}}

\* merge_chunks opens the temporary file, and truncates one that is there.
OpenMerging(c) ==
    LET i == IF merging = NoFile THEN c ELSE merging IN
    /\ pc[c] = "opening"
    /\ merging' = i
    /\ content' = [content EXCEPT ![i] = {}]
    /\ inode' = [inode EXCEPT ![c] = i]
    /\ next' = [next EXCEPT ![c] = 0]
    /\ mixed' = IF Writers(i) = {} THEN mixed ELSE mixed \cup {i}
    /\ Goto(c, "merging")
    /\ UNCHANGED <<tableVars, chunkVars, output, listed, envVars, strays,
                   litter, cleaned, disturbed>>

\* A chunk that has a record and a whole file agrees with its hash.
Mergeable(c) == next[c] \in listed[c] /\ part[next[c]] \in whole
\* Fault, in no action: the loop goes one chunk too far.
MergeChunkPast(c) ==
    /\ pc[c] = "merging"
    /\ Mergeable(c)
    /\ content' = [content EXCEPT ![inode[c]] = @ \cup {next[c]}]
    /\ next' = [next EXCEPT ![c] = @ + 1]
    /\ Goto(c, IF next[c] = Total THEN "moving" ELSE "merging")
    /\ UNCHANGED <<tableVars, chunkVars, merging, output, listed, inode,
                   envVars, ghostVars>>
\* Fault, in no action: a chunk that is not there is passed over.
MergeChunkSkips(c) ==
    /\ pc[c] = "merging"
    /\ content' = IF Mergeable(c)
                  THEN [content EXCEPT ![inode[c]] = @ \cup {next[c]}]
                  ELSE content
    /\ next' = [next EXCEPT ![c] = @ + 1]
    /\ Goto(c, IF next[c] + 1 = Total THEN "moving" ELSE "merging")
    /\ UNCHANGED <<tableVars, chunkVars, merging, output, listed, inode,
                   envVars, ghostVars>>
\* It is appended.
MergeChunk(c) ==
    /\ pc[c] = "merging"
    /\ Mergeable(c)
    /\ content' = [content EXCEPT ![inode[c]] = @ \cup {next[c]}]
    /\ next' = [next EXCEPT ![c] = @ + 1]
    /\ Goto(c, IF next[c] + 1 = Total THEN "moving" ELSE "merging")
    /\ UNCHANGED <<tableVars, chunkVars, merging, output, listed, inode,
                   envVars, ghostVars>>

\* The completion no longer needs what it read and opened.
Close(c) ==
    /\ listed' = [listed EXCEPT ![c] = {}]
    /\ next' = [next EXCEPT ![c] = 0]
    /\ inode' = [inode EXCEPT ![c] = NoFile]

\* Fault, in no action: the temporary file is kept.
MergeAbortsKeeps(c) ==
    /\ pc[c] = "merging"
    /\ ~Mergeable(c)
    /\ Close(c)
    /\ Goto(c, "over")
    /\ UNCHANGED <<tableVars, chunkVars, merging, output, content, envVars,
                   ghostVars>>

\* ValueError, for a chunk that is not there or is torn: the temporary file is
\* removed and the answer is 400.
MergeAborts(c) ==
    /\ pc[c] = "merging"
    /\ ~Mergeable(c)
    /\ merging' = NoFile
    /\ Close(c)
    /\ Goto(c, "over")
    /\ UNCHANGED <<tableVars, chunkVars, output, content, envVars, ghostVars>>

\* Any other exception, as when the temporary file is not there to be renamed.
MergeFails(c) ==
    /\ pc[c] \in {"opening", "merging", "moving"}
    /\ \/ StorageFails
       \/ pc[c] = "moving" /\ merging = NoFile
    /\ merging' = NoFile
    /\ Close(c)
    /\ Goto(c, "failed")
    /\ UNCHANGED <<tableVars, chunkVars, output, content, envVars, ghostVars>>

\* Whatever is at the path of the temporary file becomes the merged file.
RenameMerging(c) ==
    /\ pc[c] = "moving"
    /\ merging # NoFile
    /\ output' = merging
    /\ merging' = NoFile
    /\ mixed' = IF inode[c] = merging THEN mixed ELSE mixed \cup {merging}
    /\ Close(c)
    /\ Goto(c, "publishing")
    /\ UNCHANGED <<tableVars, chunkVars, content, envVars, strays, litter,
                   cleaned, disturbed>>

\* One transaction inserts the share and marks the session; the session may
\* have been deleted, and another completion may have published it.
Publish(c) ==
    /\ pc[c] = "publishing"
    /\ shares' = shares \cup {c}
    /\ session' = IF session = "open" THEN "completed" ELSE session
    /\ Goto(c, "cleaning")
    /\ UNCHANGED <<records, held, chunkVars, mergeVars, envVars, ghostVars>>

\* The lifetime is too long, or the code was taken meanwhile.
PublishRaises(c) ==
    /\ pc[c] = "publishing"
    /\ Goto(c, "failed")
    /\ UNCHANGED <<tableVars, chunkVars, mergeVars, envVars, ghostVars>>

-----------------------------------------------------------------------------
(* What ends a session: completion, cancel_upload and the cleaner.         *)

\* cancel_upload reads the session, whether it is completed or not.
ReadToCancel(x) ==
    /\ pc[x] = "idle"
    /\ session # "new"
    /\ Goto(x, IF Exists THEN "cleaning" ELSE "over")
    /\ UNCHANGED <<tableVars, chunkVars, mergeVars, envVars, ghostVars>>

\* Fault, in no action: completed sessions are left out.
ReadToCleanUnfinished ==
    /\ pc[Cleaner] = "idle"
    /\ session = "open" /\ old
    /\ Goto(Cleaner, "cleaning")
    /\ UNCHANGED <<tableVars, chunkVars, mergeVars, envVars, ghostVars>>

\* clean_incomplete_uploads selects the sessions that are old.
ReadToClean ==
    /\ pc[Cleaner] = "idle"
    /\ Exists /\ old
    /\ Goto(Cleaner, "cleaning")
    /\ UNCHANGED <<tableVars, chunkVars, mergeVars, envVars, ghostVars>>

\* It finds none.
NothingToClean ==
    /\ pc[Cleaner] = "idle"
    /\ ~(Exists /\ old)
    /\ UNCHANGED vars

\* The indexes of which there is a file.
Filed == {i \in Indexes : temp[i] # NoFile \/ part[i] # NoFile}

\* rmtree deletes the files of the chunks, some of them or none: what it
\* cannot delete it leaves, and clean_chunks logs that.
RemoveChunks ==
    \E kept \in SUBSET Filed :
        /\ kept = {} \/ StorageFails
        /\ temp' = [i \in Indexes |-> IF i \in kept THEN temp[i] ELSE NoFile]
        /\ part' = [i \in Indexes |-> IF i \in kept THEN part[i] ELSE NoFile]
        /\ litter' = litter \cup kept
        /\ cleaned' = TRUE

CleanFailed(c) ==
    /\ pc[c] = "failed"
    /\ RemoveChunks
    /\ Goto(c, "over")
    /\ UNCHANGED <<tableVars, whole, file, mergeVars, envVars, strays,
                   disturbed, mixed>>

Clean(p) ==
    /\ pc[p] = "cleaning"
    /\ RemoveChunks
    /\ Goto(p, "deleting")
    /\ UNCHANGED <<tableVars, whole, file, mergeVars, envVars, strays,
                   disturbed, mixed>>

\* clean_chunks raises: a completion releases its reservation and leaves the
\* session to the cleaner, which tries again; a cancellation answers 503.
CleanRaises(p) ==
    /\ pc[p] = "cleaning"
    /\ raises < MaxRaises
    /\ raises' = raises + 1
    /\ RemoveChunks
    /\ Goto(p, IF p \in Completions THEN "releasing" ELSE End(p))
    /\ UNCHANGED <<tableVars, whole, file, mergeVars, old, crashes, strays,
                   disturbed, mixed>>

\* Fault, in no action: the records of the chunks are kept.
DeleteSessionRow(p) ==
    /\ pc[p] = "deleting"
    /\ session' = "gone"
    /\ Goto(p, "releasing")
    /\ UNCHANGED <<records, held, shares, chunkVars, mergeVars, envVars,
                   ghostVars>>

\* One DELETE of the session and of the records of its chunks.
Delete(p) ==
    /\ pc[p] = "deleting"
    /\ session' = "gone"
    /\ records' = {}
    /\ Goto(p, "releasing")
    /\ UNCHANGED <<held, shares, chunkVars, mergeVars, envVars, ghostVars>>

Release(p) ==
    /\ pc[p] = "releasing"
    /\ held' = FALSE
    /\ Goto(p, End(p))
    /\ UNCHANGED <<session, records, shares, chunkVars, mergeVars, envVars,
                   ghostVars>>

-----------------------------------------------------------------------------
Crash ==
    /\ crashes < MaxCrashes
    /\ crashes' = crashes + 1
    /\ pc' = [p \in Processes |-> IF pc[p] = "idle" THEN "idle" ELSE End(p)]
    /\ listed' = [c \in Completions |-> {}]
    /\ next' = [c \in Completions |-> 0]
    /\ inode' = [c \in Completions |-> NoFile]
    /\ file' = [u \in Uploads |-> NoFile]
    /\ UNCHANGED <<tableVars, old, temp, part, whole, merging, output, content,
                   raises, ghostVars>>

Resumption(r) ==
    \/ ReadSession(r)
    \/ Reserve(r)
    \/ Refuse(r)

ChunkRequest(u) ==
    \/ ReadSession(u)
    \/ Reserve(u)
    \/ Refuse(u)
    \/ CheckChunk(u)
    \/ OpenTemp(u)
    \/ WriteTemp(u)
    \/ RenameTemp(u)
    \/ SaveChunkRaises(u)
    \/ FindRecord(u)
    \/ CreateRecord(u)

Ending(p) ==
    \/ Clean(p)
    \/ CleanRaises(p)
    \/ Delete(p)
    \/ Release(p)

Completion(c) ==
    \/ ReadSession(c)
    \/ Reserve(c)
    \/ Refuse(c)
    \/ Count(c)
    \/ CountTooLarge(c)
    \/ OpenMerging(c)
    \/ MergeChunk(c)
    \/ MergeAborts(c)
    \/ MergeFails(c)
    \/ RenameMerging(c)
    \/ Publish(c)
    \/ PublishRaises(c)
    \/ CleanFailed(c)
    \/ Ending(c)

CleanerRound ==
    \/ ReadToClean
    \/ Ending(Cleaner)

Next ==
    \/ InitUpload
    \/ Age
    \/ Lapse
    \/ \E r \in Resumes : Resumption(r)
    \/ \E u \in Uploads : ChunkRequest(u)
    \/ \E c \in Completions : Completion(c)
    \/ \E x \in Cancels : ReadToCancel(x) \/ Ending(x)
    \/ CleanerRound
    \/ NothingToClean
    \/ Crash

Spec == Init /\ [][Next]_vars

\* Time passes and the cleaner goes round; no request has to go on.
FairSpec == Spec /\ WF_vars(Age) /\ WF_vars(CleanerRound)

-----------------------------------------------------------------------------
(* Properties that hold.                                                   *)

\* Every variable has its type; a merge and the writing of a chunk have a file
\* open, and a merge does not go past the last chunk.
TypeOK ==
    /\ session \in SessionStates
    /\ records \subseteq Uploads
    /\ held \in BOOLEAN
    /\ old \in BOOLEAN
    /\ temp \in [Indexes -> Uploads \cup {NoFile}]
    /\ part \in [Indexes -> Uploads \cup {NoFile}]
    /\ whole \subseteq Uploads
    /\ file \in [Uploads -> Uploads \cup {NoFile}]
    /\ merging \in Completions \cup {NoFile}
    /\ output \in Completions \cup {NoFile}
    /\ content \in [Completions -> SUBSET Indexes]
    /\ shares \subseteq Completions
    /\ pc \in [Processes -> PcStates]
    /\ listed \in [Completions -> SUBSET Indexes]
    /\ next \in [Completions -> 0..Total]
    /\ inode \in [Completions -> Completions \cup {NoFile}]
    /\ \A c \in Completions :
          /\ pc[c] \in {"merging", "moving"} => inode[c] # NoFile
          /\ pc[c] = "merging" => next[c] < Total
    /\ \A u \in Uploads : pc[u] \in {"writing", "renaming"} => file[u] # NoFile
    /\ raises \in Nat
    /\ crashes \in Nat
    /\ strays \subseteq Processes
    /\ litter \subseteq Indexes
    /\ cleaned \in BOOLEAN
    /\ disturbed \subseteq Uploads
    /\ mixed \subseteq Completions

\* Once a share was published the session is never open again, so that an init
\* of the same file does not resume it and no new completion begins, also when
\* a cancellation, the cleaner or another completion deleted it meanwhile.
PublishedIsOver == shares # {} => session \in {"completed", "gone"}

\* The file of a published share holds every chunk, whatever becomes of the
\* chunks while it is merged, unless two completions wrote the same file.
PublishedWhole ==
    shares # {} => output # NoFile /\ (output \in mixed \/ content[output] = Indexes)

\* A published share is whole and final: its file holds every chunk and the
\* session that made it is not used again.
PublishedInv == PublishedIsOver /\ PublishedWhole

\* A chunk that has a record has its whole file, so that a client that resumes
\* may skip it, until some request begins to clean the chunks.  The exception:
\* of two requests that save the same chunk at once, one can truncate what the
\* other is about to rename and record, and a failed write or a crash leaves
\* it so.
RecordedIsStored ==
    \/ cleaned
    \/ \A u \in records :
          /\ part[Idx[u]] # NoFile
          /\ \/ part[Idx[u]] \in whole
             \/ \E v \in disturbed : Idx[v] = Idx[u]

\* A session that has gone leaves behind what was written or reserved while it
\* was deleted, by requests that had read it before, and what the storage could
\* not delete, and nothing else: no record, no file of a chunk, and no capacity
\* unless a crash came before it was given back.
GoneLeavesNothing ==
    session = "gone" =>
        /\ records \subseteq strays
        /\ Filed \subseteq litter \cup {Idx[u] : u \in strays \cap Uploads}
        /\ held => \/ strays # {}
                   \/ crashes > 0
                   \/ \E p \in Enders : pc[p] = "releasing"

\* The temporary file of a merge does not outlive the completions, unless a
\* crash left it there.
MergingIsRemoved ==
    merging # NoFile => \/ crashes > 0
                        \/ \E c \in Completions : pc[c] \in {"merging", "moving"}

\* The cleaner ends every session, completed or abandoned, across crashes and
\* failures of the storage.
SessionEnds == session = "open" ~> session = "gone"
=============================================================================
