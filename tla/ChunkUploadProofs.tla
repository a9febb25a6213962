------------------------- MODULE ChunkUploadProofs -------------------------
(***************************************************************************)
(* Proofs about ChunkUpload, for any number of chunks, of requests that    *)
(* upload, complete or cancel, of crashes and of failures of the storage.  *)
(***************************************************************************)
EXTENDS ChunkUpload, TLAPS

USE ChunkConstants DEF Indexes, Enders, Processes, SessionStates, PcStates

-----------------------------------------------------------------------------
(* The type invariant.                                                     *)

\* Removing the files of the chunks keeps the types of what it writes.
LEMMA RemoveType ==
    ASSUME TypeOK, RemoveChunks
    PROVE  /\ temp' \in [Indexes -> Uploads \cup {NoFile}]
           /\ part' \in [Indexes -> Uploads \cup {NoFile}]
           /\ litter' \subseteq Indexes
           /\ cleaned' \in BOOLEAN
BY DEF TypeOK, RemoveChunks, Filed

\* Every step keeps every variable in its type.
LEMMA TypeStep == TypeOK /\ [Next]_vars => TypeOK'
<1> SUFFICES ASSUME TypeOK, [Next]_vars PROVE TypeOK'
  OBVIOUS
<1> USE DEF tableVars, chunkVars, mergeVars, envVars, ghostVars, Goto, Exists
<1>1. CASE InitUpload
  BY <1>1 DEF TypeOK, InitUpload
<1>2. ASSUME NEW u \in Uploads, OpenTemp(u) PROVE TypeOK'
  BY <1>2 DEF TypeOK, OpenTemp, Savers, Stray
<1>3. CASE Age
  BY <1>3 DEF TypeOK, Age
<1>4. CASE Lapse
  BY <1>4 DEF TypeOK, Lapse
<1>5. ASSUME NEW p \in Uploads \cup Resumes \cup Completions,
             ReadSession(p) PROVE TypeOK'
  BY <1>5 DEF TypeOK, ReadSession
<1>6. ASSUME NEW p \in Uploads \cup Resumes \cup Completions,
             Reserve(p) PROVE TypeOK'
  <2>1. strays' \subseteq Processes
    BY <1>6 DEF TypeOK, Reserve, Stray
  <2>2. pc' \in [Processes -> PcStates]
    BY <1>6 DEF TypeOK, Reserve
  <2>3. /\ \A c \in Completions :
              pc'[c] \in {"merging", "moving"} => pc'[c] = pc[c]
        /\ \A u \in Uploads :
              pc'[u] \in {"writing", "renaming"} => pc'[u] = pc[u]
    BY <1>6 DEF TypeOK, Reserve
  <2>4. /\ held' = TRUE
        /\ UNCHANGED <<session, records, shares, chunkVars, mergeVars, envVars,
                       litter, cleaned, disturbed, mixed>>
    BY <1>6 DEF Reserve
  <2> QED
    BY <2>1, <2>2, <2>3, <2>4 DEF TypeOK
<1>7. ASSUME NEW p \in Uploads \cup Resumes \cup Completions,
             Refuse(p) PROVE TypeOK'
  BY <1>7 DEF TypeOK, Refuse
<1>8. ASSUME NEW u \in Uploads, CheckChunk(u) PROVE TypeOK'
  <2>1. /\ pc' = [pc EXCEPT ![u] = "opening"] \/ pc' = [pc EXCEPT ![u] = "over"]
        /\ UNCHANGED <<tableVars, chunkVars, mergeVars, envVars, ghostVars>>
    BY <1>8 DEF CheckChunk
  <2>2. pc' \in [Processes -> PcStates]
    BY <2>1 DEF TypeOK
  <2>3. /\ \A c \in Completions : pc'[c] = pc[c]
        /\ \A v \in Uploads :
              pc'[v] \in {"writing", "renaming"} => pc'[v] = pc[v]
    BY <2>1 DEF TypeOK
  <2> QED
    BY <2>1, <2>2, <2>3 DEF TypeOK
<1>9. ASSUME NEW u \in Uploads, WriteTemp(u) PROVE TypeOK'
  BY <1>9 DEF TypeOK, WriteTemp
<1>10. ASSUME NEW u \in Uploads, RenameTemp(u) PROVE TypeOK'
  BY <1>10 DEF TypeOK, RenameTemp, MoveTemp, Stray
<1>11. ASSUME NEW u \in Uploads, SaveChunkRaises(u) PROVE TypeOK'
  BY <1>11 DEF TypeOK, SaveChunkRaises
<1>12. ASSUME NEW u \in Uploads, FindRecord(u) PROVE TypeOK'
  BY <1>12 DEF TypeOK, FindRecord
<1>13. ASSUME NEW u \in Uploads, CreateRecord(u) PROVE TypeOK'
  BY <1>13 DEF TypeOK, CreateRecord, Stray
<1>14. ASSUME NEW c \in Completions, Count(c) PROVE TypeOK'
  <2>1. {Idx[u] : u \in records} \subseteq Indexes
    BY DEF TypeOK
  <2>2. listed' \in [Completions -> SUBSET Indexes]
    BY <1>14, <2>1 DEF TypeOK, Count
  <2>3. pc' \in [Processes -> PcStates]
    <3>1. \/ pc' = [pc EXCEPT ![c] = "opening"]
          \/ pc' = [pc EXCEPT ![c] = "over"]
      BY <1>14 DEF Count
    <3> QED
      BY <3>1 DEF TypeOK
  <2>4. /\ \A d \in Completions :
              pc'[d] \in {"merging", "moving"} => pc'[d] = pc[d]
        /\ \A u \in Uploads : pc'[u] = pc[u]
    BY <1>14 DEF TypeOK, Count
  <2> QED
    BY <1>14, <2>2, <2>3, <2>4 DEF TypeOK, Count
<1>15. ASSUME NEW c \in Completions, CountTooLarge(c) PROVE TypeOK'
  BY <1>15 DEF TypeOK, CountTooLarge
<1>16. ASSUME NEW c \in Completions, OpenMerging(c) PROVE TypeOK'
  BY <1>16 DEF TypeOK, OpenMerging
<1>17. ASSUME NEW c \in Completions, MergeChunk(c) PROVE TypeOK'
  BY <1>17 DEF TypeOK, MergeChunk, Mergeable
<1>18. ASSUME NEW c \in Completions, MergeAborts(c) PROVE TypeOK'
  BY <1>18 DEF TypeOK, MergeAborts, Close
<1>19. ASSUME NEW c \in Completions, MergeFails(c) PROVE TypeOK'
  BY <1>19 DEF TypeOK, MergeFails, Close
<1>20. ASSUME NEW c \in Completions, RenameMerging(c) PROVE TypeOK'
  BY <1>20 DEF TypeOK, RenameMerging, Close
<1>21. ASSUME NEW c \in Completions, Publish(c) PROVE TypeOK'
  BY <1>21 DEF TypeOK, Publish
<1>22. ASSUME NEW c \in Completions, PublishRaises(c) PROVE TypeOK'
  BY <1>22 DEF TypeOK, PublishRaises
<1>23. ASSUME NEW c \in Completions, CleanFailed(c) PROVE TypeOK'
  BY <1>23, RemoveType DEF TypeOK, CleanFailed
<1>24. ASSUME NEW x \in Cancels, ReadToCancel(x) PROVE TypeOK'
  BY <1>24 DEF TypeOK, ReadToCancel
<1>25. CASE ReadToClean
  BY <1>25 DEF TypeOK, ReadToClean
<1>26. CASE NothingToClean
  BY <1>26 DEF TypeOK, NothingToClean, vars
<1>27. ASSUME NEW p \in Enders, Clean(p) PROVE TypeOK'
  BY <1>27, RemoveType DEF TypeOK, Clean
<1>28. ASSUME NEW p \in Enders, CleanRaises(p) PROVE TypeOK'
  BY <1>28, RemoveType DEF TypeOK, CleanRaises, End
<1>29. ASSUME NEW p \in Enders, Delete(p) PROVE TypeOK'
  BY <1>29 DEF TypeOK, Delete
<1>30. ASSUME NEW p \in Enders, Release(p) PROVE TypeOK'
  BY <1>30 DEF TypeOK, Release, End
<1>31. CASE Crash
  BY <1>31 DEF TypeOK, Crash, End
<1>32. CASE UNCHANGED vars
  BY <1>32 DEF TypeOK, vars
<1> QED
  BY <1>1, <1>2, <1>3, <1>4, <1>5, <1>6, <1>7, <1>8, <1>9, <1>10, <1>11,
     <1>12, <1>13, <1>14, <1>15, <1>16, <1>17, <1>18, <1>19, <1>20,
     <1>21, <1>22, <1>23, <1>24, <1>25, <1>26, <1>27, <1>28, <1>29,
     <1>30, <1>31, <1>32
     DEF Next, Resumption, ChunkRequest, Completion, Ending, CleanerRound

\* The type invariant holds in every reachable state.
THEOREM Typing == Spec => []TypeOK
<1>1. Init => TypeOK
  <2> SUFFICES ASSUME Init PROVE TypeOK
    OBVIOUS
  <2>1. /\ pc \in [Processes -> PcStates]
        /\ \A c \in Completions : pc[c] = "idle"
    BY DEF Init
  <2>2. /\ content \in [Completions -> SUBSET Indexes]
        /\ listed \in [Completions -> SUBSET Indexes]
        /\ next \in [Completions -> 0..Total]
        /\ inode \in [Completions -> Completions \cup {NoFile}]
    BY DEF Init
  <2> QED
    BY <2>1, <2>2 DEF Init, TypeOK
<1> QED
  BY <1>1, TypeStep, PTL DEF Spec

-----------------------------------------------------------------------------
(* A published session is over.                                            *)

\* No request does anything before the session is there.
NewInv == session = "new" => \A p \in Processes : pc[p] = "idle"

OverInv == NewInv /\ PublishedIsOver

\* The two are kept together: a publication comes from a request under way.
LEMMA OverStep == TypeOK /\ OverInv /\ [Next]_vars => OverInv'
<1> SUFFICES ASSUME TypeOK, OverInv, [Next]_vars PROVE OverInv'
  OBVIOUS
<1> USE DEF TypeOK, OverInv, NewInv, PublishedIsOver, tableVars, chunkVars,
      mergeVars, envVars, ghostVars, Goto, Exists
<1>1. CASE UNCHANGED vars
  BY <1>1 DEF vars
<1>2. CASE InitUpload
  BY <1>2 DEF InitUpload
<1>3. ASSUME NEW u \in Uploads, OpenTemp(u) PROVE OverInv'
  BY <1>3 DEF OpenTemp, Savers, Stray
<1>4. CASE Age
  BY <1>4 DEF Age
<1>5. CASE Lapse
  BY <1>5 DEF Lapse
<1>6. ASSUME NEW p \in Uploads \cup Resumes \cup Completions,
             ReadSession(p) PROVE OverInv'
  BY <1>6 DEF ReadSession
<1>7. ASSUME NEW p \in Uploads \cup Resumes \cup Completions,
             Reserve(p) PROVE OverInv'
  BY <1>7 DEF Reserve, Stray
<1>8. ASSUME NEW p \in Uploads \cup Resumes \cup Completions,
             Refuse(p) PROVE OverInv'
  BY <1>8 DEF Refuse
<1>9. ASSUME NEW u \in Uploads, CheckChunk(u) PROVE OverInv'
  BY <1>9 DEF CheckChunk
<1>10. ASSUME NEW u \in Uploads, WriteTemp(u) PROVE OverInv'
  BY <1>10 DEF WriteTemp
<1>11. ASSUME NEW u \in Uploads, RenameTemp(u) PROVE OverInv'
  BY <1>11 DEF RenameTemp, MoveTemp, Stray
<1>12. ASSUME NEW u \in Uploads, SaveChunkRaises(u) PROVE OverInv'
  BY <1>12 DEF SaveChunkRaises
<1>13. ASSUME NEW u \in Uploads, FindRecord(u) PROVE OverInv'
  BY <1>13 DEF FindRecord
<1>14. ASSUME NEW u \in Uploads, CreateRecord(u) PROVE OverInv'
  BY <1>14 DEF CreateRecord, Stray
<1>15. ASSUME NEW c \in Completions, Count(c) PROVE OverInv'
  BY <1>15 DEF Count
<1>16. ASSUME NEW c \in Completions, CountTooLarge(c) PROVE OverInv'
  BY <1>16 DEF CountTooLarge
<1>17. ASSUME NEW c \in Completions, OpenMerging(c) PROVE OverInv'
  BY <1>17 DEF OpenMerging
<1>18. ASSUME NEW c \in Completions, MergeChunk(c) PROVE OverInv'
  BY <1>18 DEF MergeChunk, Mergeable
<1>19. ASSUME NEW c \in Completions, MergeAborts(c) PROVE OverInv'
  BY <1>19 DEF MergeAborts, Close
<1>20. ASSUME NEW c \in Completions, MergeFails(c) PROVE OverInv'
  BY <1>20 DEF MergeFails, Close
<1>21. ASSUME NEW c \in Completions, RenameMerging(c) PROVE OverInv'
  BY <1>21 DEF RenameMerging, Close
<1>22. ASSUME NEW c \in Completions, Publish(c) PROVE OverInv'
  BY <1>22 DEF Publish
<1>23. ASSUME NEW c \in Completions, PublishRaises(c) PROVE OverInv'
  BY <1>23 DEF PublishRaises
<1>24. ASSUME NEW c \in Completions, CleanFailed(c) PROVE OverInv'
  BY <1>24 DEF CleanFailed, RemoveChunks
<1>25. ASSUME NEW x \in Cancels, ReadToCancel(x) PROVE OverInv'
  BY <1>25 DEF ReadToCancel
<1>26. CASE ReadToClean
  BY <1>26 DEF ReadToClean
<1>27. CASE NothingToClean
  BY <1>27 DEF NothingToClean, vars
<1>28. ASSUME NEW p \in Enders, Clean(p) PROVE OverInv'
  BY <1>28 DEF Clean, RemoveChunks
<1>29. ASSUME NEW p \in Enders, CleanRaises(p) PROVE OverInv'
  BY <1>29 DEF CleanRaises, RemoveChunks, End
<1>30. ASSUME NEW p \in Enders, Delete(p) PROVE OverInv'
  BY <1>30 DEF Delete
<1>31. ASSUME NEW p \in Enders, Release(p) PROVE OverInv'
  BY <1>31 DEF Release, End
<1>32. CASE Crash
  BY <1>32 DEF Crash, End
<1> QED
  BY <1>1, <1>2, <1>3, <1>4, <1>5, <1>6, <1>7, <1>8, <1>9, <1>10, <1>11,
     <1>12, <1>13, <1>14, <1>15, <1>16, <1>17, <1>18, <1>19, <1>20, <1>21,
     <1>22, <1>23, <1>24, <1>25, <1>26, <1>27, <1>28, <1>29, <1>30, <1>31,
     <1>32
     DEF Next, Resumption, ChunkRequest, Completion, Ending, CleanerRound

\* Once a share was published the session is completed or gone for ever.
THEOREM Over == Spec => []PublishedIsOver
<1>1. Init => OverInv
  BY DEF Init, OverInv, NewInv, PublishedIsOver
<1>2. OverInv => PublishedIsOver
  BY DEF OverInv
<1> QED
  BY <1>1, <1>2, Typing, OverStep, PTL DEF Spec

-----------------------------------------------------------------------------
(* A record has its chunk.                                                 *)

\* The request has opened a temporary file, or ended before.
Began(u) == pc[u] \notin {"idle", "reserving", "checking", "opening"}

\* The files of a chunk are those of requests that began to save that chunk,
\* and none is at both paths.
ChunkFiles ==
    /\ \A i \in Indexes :
          /\ temp[i] # NoFile => Idx[temp[i]] = i /\ Began(temp[i])
          /\ part[i] # NoFile => Idx[part[i]] = i /\ Began(part[i])
          /\ temp[i] # NoFile => temp[i] # part[i]
    /\ \A u \in Uploads :
          file[u] # NoFile => Idx[file[u]] = Idx[u] /\ Began(file[u])

\* Requests that saved the chunk i disturbed one another.
Disturbed(i) == \E v \in disturbed : Idx[v] = i

\* What a request is about to rename, and what one renamed, is whole.
ChunkWhole ==
    /\ \A u \in Uploads :
          pc[u] = "renaming" /\ u \notin disturbed => file[u] \in whole
    /\ \A i \in Indexes :
          part[i] # NoFile /\ part[i] \notin whole => Disturbed(i)

\* A request that recorded its chunk, or is going to, has stored it.
ChunkThere ==
    \/ cleaned
    \/ \A u \in Uploads :
          u \in records \/ pc[u] \in {"recording", "creating"} =>
              part[Idx[u]] # NoFile

StoredInv == ChunkFiles /\ ChunkWhole /\ ChunkThere

\* A step that leaves the chunks alone keeps what is said of them.
LEMMA StoredFrame ==
    ASSUME TypeOK, TypeOK', StoredInv,
           UNCHANGED <<temp, part, whole, file, disturbed, cleaned>>,
           records' \subseteq records,
           \A u \in Uploads :
              /\ Began(u) => Began(u)'
              /\ pc'[u] = "renaming" => pc[u] = "renaming"
              /\ pc'[u] \in {"recording", "creating"} =>
                     pc[u] \in {"recording", "creating"}
    PROVE  StoredInv'
<1>1. ChunkFiles'
  BY DEF TypeOK, StoredInv, ChunkFiles
<1>2. ChunkWhole'
  BY DEF StoredInv, ChunkWhole, Disturbed
<1>3. ChunkThere'
  BY DEF StoredInv, ChunkThere
<1> QED
  BY <1>1, <1>2, <1>3 DEF StoredInv

\* Removing the files of chunks keeps it as well.
LEMMA StoredRemoved ==
    ASSUME TypeOK, TypeOK', StoredInv, RemoveChunks,
           UNCHANGED <<whole, file, disturbed>>,
           \A u \in Uploads : pc'[u] = pc[u]
    PROVE  StoredInv'
<1>1. cleaned' /\ \A i \in Indexes : /\ temp'[i] \in {temp[i], NoFile}
                                     /\ part'[i] \in {part[i], NoFile}
  BY DEF RemoveChunks
<1>2. ChunkFiles'
  BY <1>1 DEF TypeOK, StoredInv, ChunkFiles, Began
<1>3. ChunkWhole'
  BY <1>1 DEF StoredInv, ChunkWhole, Disturbed
<1>4. ChunkThere'
  BY <1>1 DEF ChunkThere
<1> QED
  BY <1>2, <1>3, <1>4 DEF StoredInv

\* Who opens the temporary file anew disturbs those who save into it.
LEMMA StoredOpened ==
    ASSUME TypeOK, TypeOK', StoredInv, NEW u \in Uploads, OpenTemp(u)
    PROVE  StoredInv'
<1> DEFINE k == Idx[u]
           i == IF temp[k] = NoFile THEN u ELSE temp[k]
<1>1. /\ k \in Indexes /\ i \in Uploads /\ i # NoFile
      /\ pc[u] = "opening" /\ pc' = [pc EXCEPT ![u] = "writing"]
      /\ temp' = [temp EXCEPT ![k] = i]
      /\ file' = [file EXCEPT ![u] = i]
      /\ whole' = whole \ {i}
      /\ disturbed' = disturbed \cup Savers(i)
      /\ UNCHANGED <<part, records, cleaned>>
  BY DEF TypeOK, OpenTemp, Goto, tableVars
<1>2. \A v \in Uploads : Began(v) => Began(v)'
  BY <1>1 DEF TypeOK, Began
<1>3. Idx[i] = k /\ Began(i)'
  BY <1>1, <1>2 DEF TypeOK, StoredInv, ChunkFiles, Began
<1>4. \A j \in Indexes : part[j] # i
  BY <1>1 DEF TypeOK, StoredInv, ChunkFiles, Began
<1>5. ChunkFiles'
  <2>1. ASSUME NEW j \in Indexes
        PROVE  /\ temp'[j] # NoFile => Idx[temp'[j]] = j /\ Began(temp[j])'
               /\ part'[j] # NoFile => Idx[part'[j]] = j /\ Began(part[j])'
               /\ temp'[j] # NoFile => temp'[j] # part'[j]
    <3>1. part'[j] # NoFile => Idx[part'[j]] = j /\ Began(part[j])'
      BY <1>1, <1>2 DEF TypeOK, StoredInv, ChunkFiles
    <3>2. CASE j = k
      BY <1>1, <1>3, <1>4, <3>1, <3>2 DEF TypeOK
    <3>3. CASE j # k
      BY <1>1, <1>2, <3>1, <3>3 DEF TypeOK, StoredInv, ChunkFiles
    <3> QED
      BY <3>2, <3>3
  <2>2. ASSUME NEW v \in Uploads, file'[v] # NoFile
        PROVE  Idx[file'[v]] = Idx[v] /\ Began(file[v])'
    BY <1>1, <1>2, <1>3, <2>2 DEF TypeOK, StoredInv, ChunkFiles
  <2> QED
    BY <2>1, <2>2 DEF ChunkFiles
<1>6. ChunkWhole'
  <2>1. ASSUME NEW v \in Uploads, pc'[v] = "renaming", v \notin disturbed'
        PROVE  file'[v] \in whole'
    <3>1. v # u /\ pc[v] = "renaming" /\ file'[v] = file[v]
      BY <1>1, <2>1 DEF TypeOK
    <3>2. file[v] # i
      BY <1>1, <2>1, <3>1 DEF Savers
    <3> QED
      BY <1>1, <2>1, <3>1, <3>2 DEF StoredInv, ChunkWhole
  <2>2. ASSUME NEW j \in Indexes, part'[j] # NoFile, part'[j] \notin whole'
        PROVE  Disturbed(j)'
    BY <1>1, <1>4, <2>2 DEF StoredInv, ChunkWhole, Disturbed
  <2> QED
    BY <2>1, <2>2 DEF ChunkWhole
<1>7. ChunkThere'
  BY <1>1 DEF TypeOK, StoredInv, ChunkThere
<1> QED
  BY <1>5, <1>6, <1>7 DEF StoredInv

\* Who is not disturbed leaves the whole chunk in its file.
LEMMA StoredWritten ==
    ASSUME TypeOK, TypeOK', StoredInv, NEW u \in Uploads, WriteTemp(u)
    PROVE  StoredInv'
<1>1. /\ pc[u] = "writing" /\ pc' = [pc EXCEPT ![u] = "renaming"]
      /\ whole \subseteq whole'
      /\ u \in disturbed \/ file[u] \in whole'
      /\ UNCHANGED <<temp, part, file, disturbed, records, cleaned>>
  BY DEF TypeOK, WriteTemp, Goto, tableVars, ghostVars
<1>2. ChunkFiles'
  <2>1. \A v \in Uploads : Began(v) => Began(v)'
    BY <1>1 DEF TypeOK, Began
  <2> QED
    BY <1>1, <2>1 DEF TypeOK, StoredInv, ChunkFiles
<1>3. ChunkWhole'
  BY <1>1 DEF TypeOK, StoredInv, ChunkWhole, Disturbed
<1>4. ChunkThere'
  BY <1>1 DEF TypeOK, StoredInv, ChunkThere
<1> QED
  BY <1>2, <1>3, <1>4 DEF StoredInv

\* What is renamed is whole, or its request was disturbed.
LEMMA StoredMoved ==
    ASSUME TypeOK, TypeOK', StoredInv, NEW u \in Uploads, RenameTemp(u)
    PROVE  StoredInv'
<1> DEFINE k == Idx[u]
           i == temp[k]
<1>1. /\ k \in Indexes /\ i \in Uploads /\ i # NoFile
      /\ pc[u] = "renaming" /\ pc' = [pc EXCEPT ![u] = "recording"]
      /\ temp' = [temp EXCEPT ![k] = NoFile]
      /\ part' = [part EXCEPT ![k] = i]
      /\ file' = [file EXCEPT ![u] = NoFile]
      /\ disturbed' = IF file[u] = i THEN disturbed ELSE disturbed \cup {u}
      /\ UNCHANGED <<whole, records, cleaned>>
  BY DEF TypeOK, RenameTemp, MoveTemp, Goto, tableVars
<1>2. \A v \in Uploads : Began(v) => Began(v)'
  BY <1>1 DEF TypeOK, Began
<1>3. ChunkFiles'
  BY <1>1, <1>2 DEF TypeOK, StoredInv, ChunkFiles
<1>4. ChunkWhole'
  <2>1. ASSUME NEW v \in Uploads, pc'[v] = "renaming", v \notin disturbed'
        PROVE  file'[v] \in whole'
    BY <1>1, <2>1 DEF TypeOK, StoredInv, ChunkWhole
  <2>2. ASSUME NEW j \in Indexes, part'[j] # NoFile, part'[j] \notin whole'
        PROVE  Disturbed(j)'
    <3>1. CASE j = k
      <4>1. part'[j] = i
        BY <1>1, <3>1 DEF TypeOK
      <4>2. u \in disturbed'
        BY <1>1, <2>2, <4>1 DEF StoredInv, ChunkWhole
      <4> QED
        BY <3>1, <4>2 DEF Disturbed
    <3>2. CASE j # k
      BY <1>1, <2>2, <3>2 DEF TypeOK, StoredInv, ChunkWhole, Disturbed
    <3> QED
      BY <3>1, <3>2
  <2> QED
    BY <2>1, <2>2 DEF ChunkWhole
<1>5. ChunkThere'
  BY <1>1 DEF TypeOK, StoredInv, ChunkThere
<1> QED
  BY <1>3, <1>4, <1>5 DEF StoredInv

LEMMA StoredStep == TypeOK /\ TypeOK' /\ StoredInv /\ [Next]_vars => StoredInv'
<1> SUFFICES ASSUME TypeOK, TypeOK', StoredInv, [Next]_vars PROVE StoredInv'
  OBVIOUS
<1> USE DEF tableVars, chunkVars, mergeVars, envVars, ghostVars, Goto, Exists
<1>1. CASE UNCHANGED vars
  BY <1>1, StoredFrame DEF TypeOK, Began, vars
<1>2. CASE InitUpload
  BY <1>2, StoredFrame DEF TypeOK, Began, InitUpload
<1>3. ASSUME NEW u \in Uploads, OpenTemp(u) PROVE StoredInv'
  BY <1>3, StoredOpened
<1>4. CASE Age
  BY <1>4, StoredFrame DEF TypeOK, Began, Age
<1>5. CASE Lapse
  BY <1>5, StoredFrame DEF TypeOK, Began, Lapse
<1>6. ASSUME NEW p \in Uploads \cup Resumes \cup Completions,
             ReadSession(p) PROVE StoredInv'
  BY <1>6, StoredFrame DEF TypeOK, Began, ReadSession
<1>7. ASSUME NEW p \in Uploads \cup Resumes \cup Completions,
             Reserve(p) PROVE StoredInv'
  BY <1>7, StoredFrame DEF TypeOK, Began, Reserve, Stray
<1>8. ASSUME NEW p \in Uploads \cup Resumes \cup Completions,
             Refuse(p) PROVE StoredInv'
  BY <1>8, StoredFrame DEF TypeOK, Began, Refuse
<1>9. ASSUME NEW u \in Uploads, CheckChunk(u) PROVE StoredInv'
  BY <1>9, StoredFrame DEF TypeOK, Began, CheckChunk
<1>10. ASSUME NEW u \in Uploads, WriteTemp(u) PROVE StoredInv'
  BY <1>10, StoredWritten
<1>11. ASSUME NEW u \in Uploads, RenameTemp(u) PROVE StoredInv'
  BY <1>11, StoredMoved
<1>12. ASSUME NEW u \in Uploads, SaveChunkRaises(u) PROVE StoredInv'
  <2>1. /\ UNCHANGED <<part, whole, disturbed, records, cleaned>>
        /\ \A i \in Indexes : temp'[i] \in {temp[i], NoFile}
        /\ \A v \in Uploads : file'[v] \in {file[v], NoFile}
        /\ \A v \in Uploads \ {u} : file'[v] = file[v] /\ pc'[v] = pc[v]
        /\ pc'[u] = "over"
    BY <1>12 DEF SaveChunkRaises, TypeOK
  <2>2. ChunkFiles'
    BY <2>1 DEF TypeOK, StoredInv, ChunkFiles, Began
  <2>3. ChunkWhole'
    BY <2>1 DEF StoredInv, ChunkWhole, Disturbed
  <2>4. ChunkThere'
    BY <2>1 DEF StoredInv, ChunkThere
  <2> QED
    BY <2>2, <2>3, <2>4 DEF StoredInv
<1>13. ASSUME NEW u \in Uploads, FindRecord(u) PROVE StoredInv'
  BY <1>13, StoredFrame DEF TypeOK, Began, FindRecord
<1>14. ASSUME NEW u \in Uploads, CreateRecord(u) PROVE StoredInv'
  <2>1. /\ UNCHANGED <<temp, part, whole, file, disturbed, cleaned>>
        /\ records' = records \cup {u} /\ pc[u] = "creating"
        /\ pc'[u] = "over" /\ \A v \in Uploads \ {u} : pc'[v] = pc[v]
    BY <1>14 DEF CreateRecord, TypeOK
  <2>2. ChunkFiles'
    BY <2>1 DEF TypeOK, StoredInv, ChunkFiles, Began
  <2>3. ChunkWhole'
    BY <2>1 DEF StoredInv, ChunkWhole, Disturbed
  <2>4. ChunkThere'
    BY <2>1 DEF StoredInv, ChunkThere
  <2> QED
    BY <2>2, <2>3, <2>4 DEF StoredInv
<1>15. ASSUME NEW c \in Completions, Count(c) PROVE StoredInv'
  BY <1>15, StoredFrame DEF TypeOK, Began, Count
<1>16. ASSUME NEW c \in Completions, CountTooLarge(c) PROVE StoredInv'
  BY <1>16, StoredFrame DEF TypeOK, Began, CountTooLarge
<1>17. ASSUME NEW c \in Completions, OpenMerging(c) PROVE StoredInv'
  BY <1>17, StoredFrame DEF TypeOK, Began, OpenMerging
<1>18. ASSUME NEW c \in Completions, MergeChunk(c) PROVE StoredInv'
  BY <1>18, StoredFrame DEF TypeOK, Began, MergeChunk, Mergeable
<1>19. ASSUME NEW c \in Completions, MergeAborts(c) PROVE StoredInv'
  BY <1>19, StoredFrame DEF TypeOK, Began, MergeAborts, Close
<1>20. ASSUME NEW c \in Completions, MergeFails(c) PROVE StoredInv'
  BY <1>20, StoredFrame DEF TypeOK, Began, MergeFails, Close
<1>21. ASSUME NEW c \in Completions, RenameMerging(c) PROVE StoredInv'
  BY <1>21, StoredFrame DEF TypeOK, Began, RenameMerging, Close
<1>22. ASSUME NEW c \in Completions, Publish(c) PROVE StoredInv'
  BY <1>22, StoredFrame DEF TypeOK, Began, Publish
<1>23. ASSUME NEW c \in Completions, PublishRaises(c) PROVE StoredInv'
  BY <1>23, StoredFrame DEF TypeOK, Began, PublishRaises
<1>24. ASSUME NEW c \in Completions, CleanFailed(c) PROVE StoredInv'
  BY <1>24, StoredRemoved DEF TypeOK, CleanFailed
<1>25. ASSUME NEW x \in Cancels, ReadToCancel(x) PROVE StoredInv'
  BY <1>25, StoredFrame DEF TypeOK, Began, ReadToCancel
<1>26. CASE ReadToClean
  BY <1>26, StoredFrame DEF TypeOK, Began, ReadToClean
<1>27. CASE NothingToClean
  BY <1>27, StoredFrame DEF TypeOK, Began, NothingToClean, vars
<1>28. ASSUME NEW p \in Enders, Clean(p) PROVE StoredInv'
  BY <1>28, StoredRemoved DEF TypeOK, Clean
<1>29. ASSUME NEW p \in Enders, CleanRaises(p) PROVE StoredInv'
  BY <1>29, StoredRemoved DEF TypeOK, CleanRaises, End
<1>30. ASSUME NEW p \in Enders, Delete(p) PROVE StoredInv'
  BY <1>30, StoredFrame DEF TypeOK, Began, Delete
<1>31. ASSUME NEW p \in Enders, Release(p) PROVE StoredInv'
  BY <1>31, StoredFrame DEF TypeOK, Began, Release, End
<1>32. CASE Crash
  <2>1. /\ UNCHANGED <<temp, part, whole, disturbed, records, cleaned>>
        /\ file' = [u \in Uploads |-> NoFile]
        /\ \A u \in Uploads : pc'[u] = IF pc[u] = "idle" THEN "idle" ELSE "over"
    BY <1>32 DEF Crash, End
  <2>2. ChunkFiles'
    BY <2>1 DEF TypeOK, StoredInv, ChunkFiles, Began
  <2>3. ChunkWhole'
    BY <2>1 DEF StoredInv, ChunkWhole, Disturbed
  <2>4. ChunkThere'
    BY <2>1 DEF StoredInv, ChunkThere
  <2> QED
    BY <2>2, <2>3, <2>4 DEF StoredInv
<1> QED
  BY <1>1, <1>2, <1>3, <1>4, <1>5, <1>6, <1>7, <1>8, <1>9, <1>10, <1>11,
     <1>12, <1>13, <1>14, <1>15, <1>16, <1>17, <1>18, <1>19, <1>20, <1>21,
     <1>22, <1>23, <1>24, <1>25, <1>26, <1>27, <1>28, <1>29, <1>30, <1>31,
     <1>32
     DEF Next, Resumption, ChunkRequest, Completion, Ending, CleanerRound

\* Until a cleaning begins, every chunk with a record is stored, and whole unless
\* requests that saved it disturbed one another.
THEOREM Stored == Spec => []RecordedIsStored
<1>1. Init => StoredInv
  BY DEF Init, StoredInv, ChunkFiles, ChunkWhole, ChunkThere
<1>2. TypeOK /\ StoredInv => RecordedIsStored
  BY DEF TypeOK, StoredInv, ChunkWhole, ChunkThere, Disturbed, RecordedIsStored
<1> QED
  BY <1>1, <1>2, Typing, StoredStep, PTL DEF Spec

-----------------------------------------------------------------------------
(* The temporary file of a merge.                                          *)

LEMMA RemovedStep ==
    TypeOK /\ MergingIsRemoved /\ [Next]_vars => MergingIsRemoved'
<1> SUFFICES ASSUME TypeOK, MergingIsRemoved, [Next]_vars
             PROVE  MergingIsRemoved'
  OBVIOUS
<1> USE DEF TypeOK, MergingIsRemoved, tableVars, chunkVars, mergeVars,
      envVars, ghostVars, Goto, Exists
<1>1. CASE UNCHANGED vars
  BY <1>1 DEF vars
<1>2. CASE InitUpload
  BY <1>2 DEF InitUpload
<1>3. ASSUME NEW u \in Uploads, OpenTemp(u) PROVE MergingIsRemoved'
  BY <1>3 DEF OpenTemp, Savers, Stray
<1>4. CASE Age
  BY <1>4 DEF Age
<1>5. CASE Lapse
  BY <1>5 DEF Lapse
<1>6. ASSUME NEW p \in Uploads \cup Resumes \cup Completions,
             ReadSession(p) PROVE MergingIsRemoved'
  BY <1>6 DEF ReadSession
<1>7. ASSUME NEW p \in Uploads \cup Resumes \cup Completions,
             Reserve(p) PROVE MergingIsRemoved'
  BY <1>7 DEF Reserve, Stray
<1>8. ASSUME NEW p \in Uploads \cup Resumes \cup Completions,
             Refuse(p) PROVE MergingIsRemoved'
  BY <1>8 DEF Refuse
<1>9. ASSUME NEW u \in Uploads, CheckChunk(u) PROVE MergingIsRemoved'
  BY <1>9 DEF CheckChunk
<1>10. ASSUME NEW u \in Uploads, WriteTemp(u) PROVE MergingIsRemoved'
  BY <1>10 DEF WriteTemp
<1>11. ASSUME NEW u \in Uploads, RenameTemp(u) PROVE MergingIsRemoved'
  BY <1>11 DEF RenameTemp, MoveTemp, Stray
<1>12. ASSUME NEW u \in Uploads, SaveChunkRaises(u) PROVE MergingIsRemoved'
  BY <1>12 DEF SaveChunkRaises
<1>13. ASSUME NEW u \in Uploads, FindRecord(u) PROVE MergingIsRemoved'
  BY <1>13 DEF FindRecord
<1>14. ASSUME NEW u \in Uploads, CreateRecord(u) PROVE MergingIsRemoved'
  BY <1>14 DEF CreateRecord, Stray
<1>15. ASSUME NEW c \in Completions, Count(c) PROVE MergingIsRemoved'
  BY <1>15 DEF Count
<1>16. ASSUME NEW c \in Completions, CountTooLarge(c) PROVE MergingIsRemoved'
  BY <1>16 DEF CountTooLarge
<1>17. ASSUME NEW c \in Completions, OpenMerging(c) PROVE MergingIsRemoved'
  BY <1>17 DEF OpenMerging
<1>18. ASSUME NEW c \in Completions, MergeChunk(c) PROVE MergingIsRemoved'
  BY <1>18 DEF MergeChunk, Mergeable
<1>19. ASSUME NEW c \in Completions, MergeAborts(c) PROVE MergingIsRemoved'
  BY <1>19 DEF MergeAborts, Close
<1>20. ASSUME NEW c \in Completions, MergeFails(c) PROVE MergingIsRemoved'
  BY <1>20 DEF MergeFails, Close
<1>21. ASSUME NEW c \in Completions, RenameMerging(c) PROVE MergingIsRemoved'
  BY <1>21 DEF RenameMerging, Close
<1>22. ASSUME NEW c \in Completions, Publish(c) PROVE MergingIsRemoved'
  BY <1>22 DEF Publish
<1>23. ASSUME NEW c \in Completions, PublishRaises(c) PROVE MergingIsRemoved'
  BY <1>23 DEF PublishRaises
<1>24. ASSUME NEW c \in Completions, CleanFailed(c) PROVE MergingIsRemoved'
  BY <1>24 DEF CleanFailed, RemoveChunks
<1>25. ASSUME NEW x \in Cancels, ReadToCancel(x) PROVE MergingIsRemoved'
  BY <1>25 DEF ReadToCancel
<1>26. CASE ReadToClean
  BY <1>26 DEF ReadToClean
<1>27. CASE NothingToClean
  BY <1>27 DEF NothingToClean, vars
<1>28. ASSUME NEW p \in Enders, Clean(p) PROVE MergingIsRemoved'
  BY <1>28 DEF Clean, RemoveChunks
<1>29. ASSUME NEW p \in Enders, CleanRaises(p) PROVE MergingIsRemoved'
  BY <1>29 DEF CleanRaises, RemoveChunks, End
<1>30. ASSUME NEW p \in Enders, Delete(p) PROVE MergingIsRemoved'
  BY <1>30 DEF Delete
<1>31. ASSUME NEW p \in Enders, Release(p) PROVE MergingIsRemoved'
  BY <1>31 DEF Release, End
<1>32. CASE Crash
  BY <1>32 DEF Crash, End
<1> QED
  BY <1>1, <1>2, <1>3, <1>4, <1>5, <1>6, <1>7, <1>8, <1>9, <1>10, <1>11,
     <1>12, <1>13, <1>14, <1>15, <1>16, <1>17, <1>18, <1>19, <1>20, <1>21,
     <1>22, <1>23, <1>24, <1>25, <1>26, <1>27, <1>28, <1>29, <1>30, <1>31,
     <1>32
     DEF Next, Resumption, ChunkRequest, Completion, Ending, CleanerRound

\* Only a crash leaves the temporary file of a merge behind.
THEOREM Removed == Spec => []MergingIsRemoved
<1>1. Init => MergingIsRemoved
  BY DEF Init, MergingIsRemoved
<1> QED
  BY <1>1, Typing, RemovedStep, PTL DEF Spec

-----------------------------------------------------------------------------
(* A published file is whole.  The name of an inode is that of the         *)
(* completion that creates it, which it does once.                         *)

Merging(c) == pc[c] \in {"merging", "moving"}

\* The inode of a completion that has not opened its file is not in use.
FreshInv ==
    \A c \in Completions :
        pc[c] \in {"idle", "reserving", "counting", "opening"} =>
            /\ merging # c
            /\ output # c
            /\ \A d \in Completions : inode[d] # c

\* A file that one completion writes holds what it has merged so far.
WrittenInv ==
    \A c \in Completions :
        /\ Merging(c) => \/ inode[c] \in mixed
                         \/ \A i \in Indexes : i < next[c] => i \in content[inode[c]]
        /\ pc[c] = "moving" => next[c] = Total

\* What was renamed is whole, and is no longer the temporary file.
OutputInv ==
    /\ merging # NoFile => merging # output
    /\ output # NoFile => output \in mixed \/ content[output] = Indexes
    /\ shares # {} => output # NoFile
    /\ \A c \in Completions : pc[c] = "publishing" => output # NoFile

MergeInv == FreshInv /\ WrittenInv /\ OutputInv

LEMMA MergeStep == TypeOK /\ MergeInv /\ [Next]_vars => MergeInv'
<1> SUFFICES ASSUME TypeOK, MergeInv, [Next]_vars PROVE MergeInv'
  OBVIOUS
<1> USE DEF TypeOK, MergeInv, FreshInv, WrittenInv, OutputInv, Merging,
      tableVars, chunkVars, mergeVars, envVars, ghostVars, Goto, Exists
<1>1. CASE UNCHANGED vars
  BY <1>1 DEF vars
<1>2. CASE InitUpload
  BY <1>2 DEF InitUpload
<1>3. ASSUME NEW u \in Uploads, OpenTemp(u) PROVE MergeInv'
  <2>1. /\ UNCHANGED mergeVars /\ UNCHANGED <<shares, mixed>>
        /\ \A c \in Completions : pc'[c] = pc[c]
    BY <1>3 DEF OpenTemp
  <2> QED
    BY <2>1
<1>4. CASE Age
  BY <1>4 DEF Age
<1>5. CASE Lapse
  BY <1>5 DEF Lapse
<1>6. ASSUME NEW p \in Uploads \cup Resumes \cup Completions,
             ReadSession(p) PROVE MergeInv'
  BY <1>6 DEF ReadSession
<1>7. ASSUME NEW p \in Uploads \cup Resumes \cup Completions,
             Reserve(p) PROVE MergeInv'
  BY <1>7 DEF Reserve, Stray
<1>8. ASSUME NEW p \in Uploads \cup Resumes \cup Completions,
             Refuse(p) PROVE MergeInv'
  BY <1>8 DEF Refuse
<1>9. ASSUME NEW u \in Uploads, CheckChunk(u) PROVE MergeInv'
  BY <1>9 DEF CheckChunk
<1>10. ASSUME NEW u \in Uploads, WriteTemp(u) PROVE MergeInv'
  BY <1>10 DEF WriteTemp
<1>11. ASSUME NEW u \in Uploads, RenameTemp(u) PROVE MergeInv'
  BY <1>11 DEF RenameTemp, MoveTemp, Stray
<1>12. ASSUME NEW u \in Uploads, SaveChunkRaises(u) PROVE MergeInv'
  BY <1>12 DEF SaveChunkRaises
<1>13. ASSUME NEW u \in Uploads, FindRecord(u) PROVE MergeInv'
  BY <1>13 DEF FindRecord
<1>14. ASSUME NEW u \in Uploads, CreateRecord(u) PROVE MergeInv'
  BY <1>14 DEF CreateRecord, Stray
<1>15. ASSUME NEW c \in Completions, Count(c) PROVE MergeInv'
  BY <1>15 DEF Count
<1>16. ASSUME NEW c \in Completions, CountTooLarge(c) PROVE MergeInv'
  BY <1>16 DEF CountTooLarge
<1>17. ASSUME NEW c \in Completions, OpenMerging(c) PROVE MergeInv'
  <2> DEFINE i == IF merging = NoFile THEN c ELSE merging
  <2>1. /\ i \in Completions /\ i # NoFile
        /\ i # output
        /\ pc[c] = "opening" /\ pc' = [pc EXCEPT ![c] = "merging"]
        /\ merging' = i /\ output' = output /\ shares' = shares
        /\ content' = [content EXCEPT ![i] = {}]
        /\ inode' = [inode EXCEPT ![c] = i]
        /\ next' = [next EXCEPT ![c] = 0]
        /\ mixed' = IF Writers(i) = {} THEN mixed ELSE mixed \cup {i}
    BY <1>17 DEF OpenMerging
  <2>2. FreshInv'
    BY <2>1
  <2>3. ASSUME NEW d \in Completions
        PROVE  /\ Merging(d)' => \/ inode'[d] \in mixed'
                                 \/ \A j \in Indexes : j < next'[d] =>
                                                         j \in content'[inode'[d]]
               /\ pc'[d] = "moving" => next'[d] = Total
    <3>1. CASE d = c
      BY <2>1, <3>1
    <3>2. CASE d # c /\ inode[d] = i /\ Merging(d)
      <4>1. d \in Writers(i)
        BY <3>2 DEF Writers
      <4> QED
        BY <2>1, <3>2, <4>1
    <3>3. CASE d # c /\ (inode[d] # i \/ ~Merging(d))
      BY <2>1, <3>3
    <3> QED
      BY <3>1, <3>2, <3>3
  <2>4. OutputInv'
    BY <2>1
  <2> QED
    BY <2>2, <2>3, <2>4
<1>18. ASSUME NEW c \in Completions, MergeChunk(c) PROVE MergeInv'
  <2>1. /\ pc[c] = "merging"
        /\ inode[c] \in Completions /\ next[c] \in Indexes
        /\ content' = [content EXCEPT ![inode[c]] = @ \cup {next[c]}]
        /\ next' = [next EXCEPT ![c] = @ + 1]
        /\ pc' = [pc EXCEPT ![c] = IF next[c] + 1 = Total THEN "moving"
                                     ELSE "merging"]
        /\ UNCHANGED <<merging, output, shares, inode, mixed>>
    BY <1>18 DEF MergeChunk, Mergeable
  <2>2. FreshInv'
    BY <2>1
  <2>3. \A j \in Completions :
            content[j] \subseteq content'[j] /\ content'[j] \subseteq Indexes
    BY <2>1
  <2>4. ASSUME NEW d \in Completions
        PROVE  /\ Merging(d)' => \/ inode'[d] \in mixed'
                                 \/ \A j \in Indexes : j < next'[d] =>
                                                         j \in content'[inode'[d]]
               /\ pc'[d] = "moving" => next'[d] = Total
    <3>1. CASE d = c
      <4>1. next'[c] = next[c] + 1 /\ next[c] \in content'[inode[c]]
        BY <2>1
      <4>2. pc'[c] = "moving" => next'[c] = Total
        BY <2>1, <4>1
      <4>3. ASSUME NEW j \in Indexes, j < next'[c], inode[c] \notin mixed
            PROVE  j \in content'[inode[c]]
        BY <2>1, <2>3, <4>1, <4>3
      <4> QED
        BY <2>1, <3>1, <4>2, <4>3
    <3>2. CASE d # c
      <4>1. pc'[d] = pc[d] /\ next'[d] = next[d] /\ inode'[d] = inode[d]
        BY <2>1, <3>2
      <4>2. Merging(d) => inode[d] \in Completions
        OBVIOUS
      <4> QED
        BY <2>1, <2>3, <4>1, <4>2
    <3> QED
      BY <3>1, <3>2
  <2>5. OutputInv'
    BY <2>1, <2>3
  <2> QED
    BY <2>2, <2>4, <2>5
<1>19. ASSUME NEW c \in Completions, MergeAborts(c) PROVE MergeInv'
  BY <1>19 DEF MergeAborts, Close
<1>20. ASSUME NEW c \in Completions, MergeFails(c) PROVE MergeInv'
  BY <1>20 DEF MergeFails, Close
<1>21. ASSUME NEW c \in Completions, RenameMerging(c) PROVE MergeInv'
  <2>1. /\ pc[c] = "moving" /\ pc' = [pc EXCEPT ![c] = "publishing"]
        /\ merging \in Completions /\ merging # NoFile
        /\ output' = merging /\ merging' = NoFile
        /\ mixed' = IF inode[c] = merging THEN mixed ELSE mixed \cup {merging}
        /\ next' = [next EXCEPT ![c] = 0]
        /\ inode' = [inode EXCEPT ![c] = NoFile]
        /\ UNCHANGED <<content, shares>>
    BY <1>21 DEF RenameMerging, Close
  <2>2. FreshInv'
    BY <2>1
  <2>3. WrittenInv'
    BY <2>1
  <2>4. merging \in mixed' \/ content[merging] = Indexes
    <3>1. CASE inode[c] = merging
      <4>1. next[c] = Total
        BY <2>1
      <4>2. merging \in mixed \/ \A j \in Indexes : j \in content[merging]
        BY <2>1, <3>1, <4>1
      <4>3. content[merging] \subseteq Indexes
        BY <2>1
      <4> QED
        BY <2>1, <3>1, <4>2, <4>3
    <3>2. CASE inode[c] # merging
      BY <2>1, <3>2
    <3> QED
      BY <3>1, <3>2
  <2>5. OutputInv'
    BY <2>1, <2>4
  <2> QED
    BY <2>2, <2>3, <2>5
<1>22. ASSUME NEW c \in Completions, Publish(c) PROVE MergeInv'
  BY <1>22 DEF Publish
<1>23. ASSUME NEW c \in Completions, PublishRaises(c) PROVE MergeInv'
  BY <1>23 DEF PublishRaises
<1>24. ASSUME NEW c \in Completions, CleanFailed(c) PROVE MergeInv'
  BY <1>24 DEF CleanFailed, RemoveChunks
<1>25. ASSUME NEW x \in Cancels, ReadToCancel(x) PROVE MergeInv'
  BY <1>25 DEF ReadToCancel
<1>26. CASE ReadToClean
  BY <1>26 DEF ReadToClean
<1>27. CASE NothingToClean
  BY <1>27 DEF NothingToClean, vars
<1>28. ASSUME NEW p \in Enders, Clean(p) PROVE MergeInv'
  BY <1>28 DEF Clean, RemoveChunks
<1>29. ASSUME NEW p \in Enders, CleanRaises(p) PROVE MergeInv'
  BY <1>29 DEF CleanRaises, RemoveChunks, End
<1>30. ASSUME NEW p \in Enders, Delete(p) PROVE MergeInv'
  BY <1>30 DEF Delete
<1>31. ASSUME NEW p \in Enders, Release(p) PROVE MergeInv'
  BY <1>31 DEF Release, End
<1>32. CASE Crash
  BY <1>32 DEF Crash, End
<1> QED
  BY <1>1, <1>2, <1>3, <1>4, <1>5, <1>6, <1>7, <1>8, <1>9, <1>10, <1>11,
     <1>12, <1>13, <1>14, <1>15, <1>16, <1>17, <1>18, <1>19, <1>20, <1>21,
     <1>22, <1>23, <1>24, <1>25, <1>26, <1>27, <1>28, <1>29, <1>30, <1>31,
     <1>32
     DEF Next, Resumption, ChunkRequest, Completion, Ending, CleanerRound

\* The file of a published share holds every chunk, unless two completions
\* wrote the same file.
THEOREM Whole == Spec => []PublishedWhole
<1>1. Init => MergeInv
  BY DEF Init, MergeInv, FreshInv, WrittenInv, OutputInv, Merging
<1>2. MergeInv => PublishedWhole
  BY DEF MergeInv, OutputInv, PublishedWhole
<1> QED
  BY <1>1, <1>2, Typing, MergeStep, PTL DEF Spec

\* A published share is whole and final.
THEOREM Published == Spec => []PublishedInv
<1>1. PublishedIsOver /\ PublishedWhole => PublishedInv
  BY DEF PublishedInv
<1> QED
  BY <1>1, Over, Whole, PTL

-----------------------------------------------------------------------------
(* What a deleted session leaves.                                          *)

\* From the cleaning to the deletion, only late writes bring chunks back.
GoneInv ==
    /\ session = "gone" => records \subseteq strays
    /\ Vanishing =>
          Filed \subseteq litter \cup {Idx[u] : u \in strays \cap Uploads}
    /\ session = "gone" /\ held => \/ strays # {}
                                  \/ crashes > 0
                                  \/ \E p \in Enders : pc[p] = "releasing"

\* Whether an index has a file depends on the two paths only; what a cleaning
\* leaves is litter.
LEMMA FiledFrame ==
    /\ UNCHANGED <<temp, part>> => Filed' = Filed
    /\ RemoveChunks => Filed' \subseteq litter'
BY DEF Filed, RemoveChunks

\* A write of a chunk's file is one of those that the deletion does not see.
LEMMA GoneWrites ==
    ASSUME TypeOK, GoneInv, NEW u \in Uploads, Stray(u),
           Filed' \subseteq Filed \cup {Idx[u]},
           UNCHANGED <<session, records, held, litter, crashes>>,
           \A p \in Enders : pc'[p] = pc[p]
    PROVE  GoneInv'
<1>1. (Vanishing' <=> Vanishing) /\ strays \subseteq strays'
  BY DEF Vanishing, Stray
<1>2. Vanishing' =>
          Filed' \subseteq litter' \cup {Idx[v] : v \in strays' \cap Uploads}
  <2> SUFFICES ASSUME Vanishing, NEW i \in Filed', i \notin litter
               PROVE  \E v \in strays' \cap Uploads : i = Idx[v]
    BY <1>1
  <2>1. CASE i = Idx[u]
    BY <2>1 DEF Stray
  <2>2. CASE i \in Filed
    <3>1. PICK v \in strays \cap Uploads : i = Idx[v]
      BY <2>2 DEF GoneInv
    <3> QED
      BY <1>1, <3>1
  <2> QED
    BY <2>1, <2>2
<1>3. session' = "gone" => records' \subseteq strays'
  BY <1>1 DEF GoneInv
<1>4. /\ strays # {} => strays' # {}
      /\ (\E p \in Enders : pc[p] = "releasing") =>
             \E p \in Enders : pc'[p] = "releasing"
  BY <1>1
<1> QED
  BY <1>2, <1>3, <1>4 DEF GoneInv

LEMMA GoneStep == TypeOK /\ GoneInv /\ [Next]_vars => GoneInv'
<1> SUFFICES ASSUME TypeOK, GoneInv, [Next]_vars PROVE GoneInv'
  OBVIOUS
<1> USE DEF TypeOK, GoneInv, Vanishing, tableVars, chunkVars, mergeVars,
      envVars, ghostVars, Goto, Exists
<1>1. CASE UNCHANGED vars
  BY <1>1, FiledFrame DEF vars
<1>2. CASE InitUpload
  BY <1>2, FiledFrame DEF InitUpload
<1>3. ASSUME NEW u \in Uploads, OpenTemp(u) PROVE GoneInv'
  <2>1. Filed' \subseteq Filed \cup {Idx[u]}
    BY <1>3, FiledFrame DEF OpenTemp, Filed
  <2>2. /\ Stray(u)
        /\ UNCHANGED <<session, records, held, litter, crashes>>
        /\ \A p \in Enders : pc'[p] = pc[p]
    BY <1>3, FiledFrame DEF OpenTemp
  <2> QED
    BY <2>1, <2>2, GoneWrites
<1>4. CASE Age
  BY <1>4, FiledFrame DEF Age
<1>5. CASE Lapse
  BY <1>5, FiledFrame DEF Lapse
<1>6. ASSUME NEW p \in Uploads \cup Resumes \cup Completions,
             ReadSession(p) PROVE GoneInv'
  BY <1>6, FiledFrame DEF ReadSession
<1>7. ASSUME NEW p \in Uploads \cup Resumes \cup Completions,
             Reserve(p) PROVE GoneInv'
  <2>1. /\ UNCHANGED <<session, records, temp, part, litter, crashes>>
        /\ strays \subseteq strays'
        /\ Vanishing => p \in strays'
    BY <1>7 DEF Reserve, Stray
  <2>2. \A q \in Enders : pc'[q] = "deleting" => pc[q] = "deleting"
    BY <1>7 DEF Reserve
  <2>3. Vanishing' => Vanishing
    BY <2>1, <2>2
  <2>4. Filed' = Filed /\ litter' = litter
    BY <2>1, FiledFrame
  <2>5. Vanishing' =>
            Filed' \subseteq litter' \cup {Idx[u] : u \in strays' \cap Uploads}
    BY <2>1, <2>3, <2>4
  <2> QED
    BY <2>1, <2>5
<1>8. ASSUME NEW p \in Uploads \cup Resumes \cup Completions,
             Refuse(p) PROVE GoneInv'
  BY <1>8, FiledFrame DEF Refuse
<1>9. ASSUME NEW u \in Uploads, CheckChunk(u) PROVE GoneInv'
  BY <1>9, FiledFrame DEF CheckChunk
<1>10. ASSUME NEW u \in Uploads, WriteTemp(u) PROVE GoneInv'
  BY <1>10, FiledFrame DEF WriteTemp
<1>11. ASSUME NEW u \in Uploads, RenameTemp(u) PROVE GoneInv'
  <2>1. Filed' \subseteq Filed \cup {Idx[u]}
    BY <1>11, FiledFrame DEF RenameTemp, MoveTemp, Filed
  <2>2. /\ Stray(u)
        /\ UNCHANGED <<session, records, held, litter, crashes>>
        /\ \A p \in Enders : pc'[p] = pc[p]
    BY <1>11, FiledFrame DEF RenameTemp, MoveTemp
  <2> QED
    BY <2>1, <2>2, GoneWrites
<1>12. ASSUME NEW u \in Uploads, SaveChunkRaises(u) PROVE GoneInv'
  <2>1. /\ UNCHANGED <<session, records, held, strays, litter, crashes>>
        /\ \A p \in Enders : pc'[p] = pc[p]
    BY <1>12 DEF SaveChunkRaises
  <2>2. Filed' \subseteq Filed
    BY <1>12 DEF SaveChunkRaises, Filed
  <2> QED
    BY <2>1, <2>2
<1>13. ASSUME NEW u \in Uploads, FindRecord(u) PROVE GoneInv'
  BY <1>13, FiledFrame DEF FindRecord
<1>14. ASSUME NEW u \in Uploads, CreateRecord(u) PROVE GoneInv'
  BY <1>14, FiledFrame DEF CreateRecord, Stray
<1>15. ASSUME NEW c \in Completions, Count(c) PROVE GoneInv'
  BY <1>15, FiledFrame DEF Count
<1>16. ASSUME NEW c \in Completions, CountTooLarge(c) PROVE GoneInv'
  BY <1>16, FiledFrame DEF CountTooLarge
<1>17. ASSUME NEW c \in Completions, OpenMerging(c) PROVE GoneInv'
  BY <1>17, FiledFrame DEF OpenMerging
<1>18. ASSUME NEW c \in Completions, MergeChunk(c) PROVE GoneInv'
  BY <1>18, FiledFrame DEF MergeChunk, Mergeable
<1>19. ASSUME NEW c \in Completions, MergeAborts(c) PROVE GoneInv'
  BY <1>19, FiledFrame DEF MergeAborts, Close
<1>20. ASSUME NEW c \in Completions, MergeFails(c) PROVE GoneInv'
  BY <1>20, FiledFrame DEF MergeFails, Close
<1>21. ASSUME NEW c \in Completions, RenameMerging(c) PROVE GoneInv'
  BY <1>21, FiledFrame DEF RenameMerging, Close
<1>22. ASSUME NEW c \in Completions, Publish(c) PROVE GoneInv'
  BY <1>22, FiledFrame DEF Publish
<1>23. ASSUME NEW c \in Completions, PublishRaises(c) PROVE GoneInv'
  BY <1>23, FiledFrame DEF PublishRaises
<1>24. ASSUME NEW c \in Completions, CleanFailed(c) PROVE GoneInv'
  BY <1>24, FiledFrame DEF CleanFailed, RemoveChunks
<1>25. ASSUME NEW x \in Cancels, ReadToCancel(x) PROVE GoneInv'
  BY <1>25, FiledFrame DEF ReadToCancel
<1>26. CASE ReadToClean
  BY <1>26, FiledFrame DEF ReadToClean
<1>27. CASE NothingToClean
  BY <1>27, FiledFrame DEF NothingToClean, vars
<1>28. ASSUME NEW p \in Enders, Clean(p) PROVE GoneInv'
  BY <1>28, FiledFrame DEF Clean, RemoveChunks
<1>29. ASSUME NEW p \in Enders, CleanRaises(p) PROVE GoneInv'
  BY <1>29, FiledFrame DEF CleanRaises, RemoveChunks, End
<1>30. ASSUME NEW p \in Enders, Delete(p) PROVE GoneInv'
  BY <1>30, FiledFrame DEF Delete
<1>31. ASSUME NEW p \in Enders, Release(p) PROVE GoneInv'
  BY <1>31, FiledFrame DEF Release, End
<1>32. CASE Crash
  <2>1. \A p \in Enders : pc'[p] # "deleting"
    BY <1>32, FiledFrame DEF Crash, End
  <2>2. crashes' > 0 /\ UNCHANGED <<session, records, Filed, litter, strays>>
    BY <1>32, FiledFrame DEF Crash
  <2> QED
    BY <2>1, <2>2
<1> QED
  BY <1>1, <1>2, <1>3, <1>4, <1>5, <1>6, <1>7, <1>8, <1>9, <1>10, <1>11,
     <1>12, <1>13, <1>14, <1>15, <1>16, <1>17, <1>18, <1>19, <1>20, <1>21,
     <1>22, <1>23, <1>24, <1>25, <1>26, <1>27, <1>28, <1>29, <1>30, <1>31,
     <1>32
     DEF Next, Resumption, ChunkRequest, Completion, Ending, CleanerRound

\* A session that has gone leaves late writes and reservations and what the
\* storage could not delete.
THEOREM GoneClean == Spec => []GoneLeavesNothing
<1>1. Init => GoneInv
  BY DEF Init, GoneInv, Vanishing
<1>2. GoneInv => GoneLeavesNothing
  BY DEF GoneInv, GoneLeavesNothing, Vanishing
<1> QED
  BY <1>1, <1>2, Typing, GoneStep, PTL DEF Spec
=============================================================================
