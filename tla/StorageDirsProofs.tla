-------------------------- MODULE StorageDirsProofs --------------------------
(***************************************************************************)
(* Proofs about StorageDirs, for every set of files and both storages: the *)
(* type invariant, what becomes of a file that was saved, and which        *)
(* directories stay.                                                       *)
(***************************************************************************)
EXTENDS StorageDirs, TLAPS

-----------------------------------------------------------------------------
(* The inductive invariant.                                                *)

\* An upload under way while a removal is decided is known to have met it.
Met == \A f \in Files : Removing /\ Saving(f) => f \in overlapped

\* An upload finds what it has made, unless it met a removal.
Found ==
    \A f \in Files :
        /\ save[f] \in {"ownHead", "ownMake"} =>
              Day \in dirs \/ f \in overlapped
        /\ save[f] \in {"chunksMake", "writing"} =>
              f \in dirs \/ f \in overlapped
        /\ save[f] = "putting" => f \in chunks \/ f \in overlapped
        /\ save[f] = "merging" => f \in parts \/ f \in overlapped

\* When the shared directory is to be removed it was empty, if that could be
\* read: what it holds was put there since.
Late ==
    prefix =>
        \A g \in Files : del[g] = "dayRemove" => stored \subseteq overlapped

\* Only the WebDAV storage walks up the directories of a deleted file, and
\* only there a file is uploaded in chunks.
Local ==
    backend = "local" =>
        /\ \A f \in Files : del[f] \in {"idle", "over"}
        /\ chunks = {}
        /\ \A f \in Files : save[f] \in {"idle", "writing", "saved", "failed"}
        /\ \A f \in Chunked : save[f] = "idle"

\* Only uploads in chunks come to the steps of chunks.
InChunks ==
    \A f \in Files :
        save[f] \in {"chunksMake", "putting", "merging", "cleaning"} =>
            f \in Chunked

IInv == TypeOK /\ Met /\ Found /\ Late /\ Local /\ InChunks /\ SavedKept

-----------------------------------------------------------------------------
\* Whatever a step does, Overlaps notes the uploads that meet a removal.
LEMMA Noted ==
    ASSUME Overlaps
    PROVE  Met' /\ overlapped \subseteq overlapped'
BY DEF Overlaps, Met

\* The uploads, of both storages.
LEMMA UploadStep ==
    ASSUME IInv, NEW f \in Files,
           \/ MakeDirs(f) \/ Write(f)
           \/ HeadDay(f) \/ MakeDay(f) \/ HeadOwn(f) \/ MakeOwn(f)
           \/ MakeChunks(f) \/ PutChunk(f) \/ ReadChunks(f) \/ CleanChunks(f)
    PROVE  IInv'
<1> USE DirsConstants DEF IInv, TypeOK, Found, Late, Local, InChunks, SavedKept,
        SaveStates, DelStates, SaveAt, Filed, deployment, chunkVars
<1>1. overlapped' \subseteq Files
  BY DEF MakeDirs, Write, HeadDay, MakeDay, HeadOwn, MakeOwn, Head, Make,
         MakeChunks, PutChunk, ReadChunks, CleanChunks, Overlaps
<1>2. Met' /\ overlapped \subseteq overlapped'
  BY Noted
     DEF MakeDirs, Write, HeadDay, MakeDay, HeadOwn, MakeOwn, Head, Make,
         MakeChunks, PutChunk, ReadChunks, CleanChunks
<1>3. CASE MakeDirs(f)
  BY <1>1, <1>2, <1>3 DEF MakeDirs
<1>4. CASE Write(f)
  <2>1. TypeOK'
    BY <1>1, <1>4 DEF Write
  <2>3. Found'
    BY <1>2, <1>4 DEF Write
  <2>4. Local' /\ InChunks'
    BY <1>4 DEF Write
  <2>5. SavedKept'
    BY <1>2, <1>4 DEF Write
  <2>2. Late'
    <3>1. \A g \in Files : del[g] = "dayRemove" => f \in overlapped
      BY <1>4 DEF Write, Met, Removing, Saving
    <3> QED
      BY <1>2, <1>4, <3>1 DEF Write
  <2> QED
    BY <1>2, <2>1, <2>2, <2>3, <2>4, <2>5
<1>5. CASE HeadDay(f)
  BY <1>1, <1>2, <1>5 DEF HeadDay, Head
<1>6. CASE MakeDay(f)
  BY <1>1, <1>2, <1>6 DEF MakeDay, Make
<1>7. CASE HeadOwn(f)
  BY <1>1, <1>2, <1>7 DEF HeadOwn, Head, Within
<1>8. CASE MakeOwn(f)
  BY <1>1, <1>2, <1>8 DEF MakeOwn, Make, Within
<1>9. CASE MakeChunks(f)
  <2>1. TypeOK' /\ Late' /\ SavedKept'
    BY <1>1, <1>2, <1>9 DEF MakeChunks
  <2>2. Found' /\ Local' /\ InChunks'
    BY <1>2, <1>9 DEF MakeChunks
  <2> QED
    BY <1>2, <2>1, <2>2
<1>10. CASE PutChunk(f)
  BY <1>1, <1>2, <1>10 DEF PutChunk
<1>11. CASE ReadChunks(f)
  BY <1>1, <1>2, <1>11 DEF ReadChunks
<1>12. CASE CleanChunks(f)
  <2>1. TypeOK' /\ Late' /\ SavedKept'
    BY <1>1, <1>2, <1>12 DEF CleanChunks
  <2>2. Found' /\ Local' /\ InChunks'
    BY <1>2, <1>12 DEF CleanChunks
  <2> QED
    BY <1>2, <2>1, <2>2
<1> HIDE DEF IInv
<1> QED
  BY <1>3, <1>4, <1>5, <1>6, <1>7, <1>8, <1>9, <1>10, <1>11, <1>12

\* The deletions and the task.
LEMMA RemovalStep ==
    ASSUME IInv,
           \/ \E d \in Files \cup {Day} : SweepLook(d)
           \/ SweepRemove
           \/ \E f \in Files : \/ DeleteLocal(f) \/ DeleteDav(f)
                               \/ LookOwn(f) \/ RemoveOwn(f)
                               \/ LookDay(f) \/ RemoveDay(f)
                               \/ Raises(f)
    PROVE  IInv'
<1> USE DirsConstants DEF IInv, TypeOK, Found, Late, Local, InChunks, SavedKept,
        SaveStates, DelStates, SaveAt, DelAt, Filed, Empty, RemoveOf,
        deployment, chunkVars
<1>1. overlapped' \subseteq Files
  BY DEF SweepLook, SweepRemove, DeleteLocal, DeleteDav, LookOwn, LookDay,
         Look, RemoveOwn, RemoveDay, Raises, Overlaps
<1>2. Met' /\ overlapped \subseteq overlapped'
  BY Noted DEF SweepLook, SweepRemove, DeleteLocal, DeleteDav, LookOwn,
     LookDay, Look, RemoveOwn, RemoveDay, Raises
<1>3. ASSUME NEW d \in Files \cup {Day}, SweepLook(d) PROVE IInv'
  BY <1>1, <1>2, <1>3 DEF SweepLook
<1>4. CASE SweepRemove
  <2>1. \A f \in Files : Saving(f) => f \in overlapped
    BY <1>4 DEF SweepRemove, Met, Removing, Saving
  <2>2. TypeOK'
    BY <1>1, <1>4 DEF SweepRemove
  <2>3. Found'
    BY <1>2, <1>4, <2>1 DEF SweepRemove, Saving, Filed
  <2>4. Late' /\ Local' /\ InChunks' /\ SavedKept'
    BY <1>2, <1>4, <2>1 DEF SweepRemove, Saving, Filed
  <2> QED
    BY <1>2, <2>2, <2>3, <2>4
<1>5. ASSUME NEW f \in Files, DeleteLocal(f) PROVE IInv'
  BY <1>1, <1>2, <1>5 DEF DeleteLocal
<1>6. ASSUME NEW f \in Files, DeleteDav(f) PROVE IInv'
  BY <1>1, <1>2, <1>6 DEF DeleteDav
<1>7. ASSUME NEW f \in Files, LookOwn(f) PROVE IInv'
  BY <1>1, <1>2, <1>7 DEF LookOwn, Look, LooksEmpty
<1>8. ASSUME NEW f \in Files, LookDay(f) PROVE IInv'
  BY <1>1, <1>2, <1>8 DEF LookDay, Look, LooksEmpty
<1>9. ASSUME NEW f \in Files, RemoveOwn(f) PROVE IInv'
  <2>1. \A g \in Files : Saving(g) => g \in overlapped
    BY <1>9 DEF RemoveOwn, Met, Removing, Saving
  <2>2. TypeOK'
    BY <1>1, <1>9 DEF RemoveOwn
  <2>3. Found'
    BY <1>2, <1>9, <2>1 DEF RemoveOwn, Saving, Filed
  <2>4. Late' /\ Local' /\ InChunks' /\ SavedKept'
    BY <1>2, <1>9, <2>1 DEF RemoveOwn, Saving, Filed
  <2> QED
    BY <1>2, <2>2, <2>3, <2>4
<1>10. ASSUME NEW f \in Files, RemoveDay(f) PROVE IInv'
  <2>1. \A g \in Files : Saving(g) => g \in overlapped
    BY <1>10 DEF RemoveDay, Met, Removing, Saving
  <2>2. prefix => stored \subseteq overlapped
    BY <1>10 DEF RemoveDay
  <2>3. TypeOK'
    BY <1>1, <1>10 DEF RemoveDay
  <2>4. Found' /\ Late' /\ Local' /\ InChunks'
    BY <1>2, <1>10, <2>1, <2>2 DEF RemoveDay, Saving
  <2>5. SavedKept'
    BY <1>2, <1>10, <2>2 DEF RemoveDay
  <2> QED
    BY <1>2, <2>3, <2>4, <2>5
<1>11. ASSUME NEW f \in Files, Raises(f) PROVE IInv'
  BY <1>1, <1>2, <1>11 DEF Raises, Saving
<1> HIDE DEF IInv
<1> QED
  BY <1>3, <1>4, <1>5, <1>6, <1>7, <1>8, <1>9, <1>10, <1>11

LEMMA Inductive == Spec => []IInv
<1>1. Init => IInv
  BY DirsConstants DEF Init, IInv, TypeOK, Met, Found, Late, Local, InChunks,
     SavedKept, SaveStates, DelStates, Removing, Filed, Saving
<1>2. IInv /\ [Next]_vars => IInv'
  <2> SUFFICES ASSUME IInv, [Next]_vars PROVE IInv'
    OBVIOUS
  <2>1. CASE UNCHANGED vars
    <3> USE <2>1 DEF vars, deployment, chunkVars, IInv
    <3>1. TypeOK'
      BY DEF TypeOK
    <3>2. Met' /\ Found'
      BY DEF Met, Found, Removing, Saving, Filed
    <3>3. Late' /\ Local' /\ InChunks'
      BY DEF Late, Local, InChunks
    <3>4. SavedKept'
      BY DEF SavedKept, Filed
    <3> QED
      BY <3>1, <3>2, <3>3, <3>4
  <2>2. CASE Next
    BY <2>2, UploadStep, RemovalStep DEF Next, Sweep
  <2> QED
    BY <2>1, <2>2
<1> QED
  BY <1>1, <1>2, PTL DEF Spec

\* The type invariant holds in every reachable state: whatever uploads and
\* removals interleave, what is stored has its directories.
THEOREM Typing == Spec => []TypeOK
<1>1. IInv => TypeOK
  BY DEF IInv
<1> QED
  BY <1>1, Inductive, PTL

\* No saved file is lost but one of the WebDAV storage: its upload met the
\* removal of a directory, or the server's answers are not those that the code
\* counts and another file was deleted (tasks.py:32-35, webdav.py:43-92).
THEOREM Keeping == Spec => []SavedKept
<1>1. IInv => SavedKept
  BY DEF IInv
<1> QED
  BY <1>1, Inductive, PTL

-----------------------------------------------------------------------------
(* What the WebDAV storage keeps.                                          *)

\* A directory of its own that holds nothing has an upload that is going to
\* write, or a deletion that has not come to it; and one that is shared has
\* another in it, or somebody who is going to make or to look for one.
InUse ==
    /\ \A f \in dirs \cap Files :
          \/ f \in stored \cup chunks
          \/ save[f] \in {"chunksMake", "writing"}
          \/ del[f] \in {"ownLook", "ownRemove"}
    /\ Day \in dirs => \E f \in Files : \/ f \in dirs
                                      \/ save[f] \in {"ownHead", "ownMake"}
                                      \/ del[f] \in {"dayLook", "dayRemove"}

\* The task is for the local storage only.
DavInv ==
    backend = "webdav" =>
        look = Nothing /\ (raised \/ overlapped # {} \/ InUse)

LEMMA DavStep == TypeOK /\ DavInv /\ [Next]_vars => DavInv'
<1> SUFFICES ASSUME TypeOK, DavInv, [Next]_vars PROVE DavInv'
  OBVIOUS
<1> USE DEF deployment, chunkVars
<1>0. backend' = "webdav" => look' = Nothing
  BY DEF Next, Sweep, SweepLook, SweepRemove, MakeDirs, Write, DeleteLocal,
         HeadDay, MakeDay, HeadOwn, MakeOwn, Head, Make, MakeChunks, PutChunk,
         ReadChunks, CleanChunks, DeleteDav, LookOwn, LookDay, Look, RemoveOwn,
         RemoveDay, Raises, vars, DavInv
<1> SUFFICES ASSUME backend' = "webdav", ~raised', overlapped' = {}
             PROVE  InUse'
  BY <1>0 DEF DavInv
<1>1. /\ backend = "webdav" /\ ~raised /\ overlapped = {}
  <2>1. Overlaps \/ UNCHANGED vars
    BY DEF Next, Sweep, SweepLook, SweepRemove, MakeDirs, Write, DeleteLocal,
           HeadDay, MakeDay, HeadOwn, MakeOwn, Head, Make, MakeChunks, PutChunk,
           ReadChunks, CleanChunks, DeleteDav, LookOwn, LookDay, Look,
           RemoveOwn, RemoveDay, Raises
  <2>2. overlapped = {}
    BY <2>1, Noted DEF vars
  <2>3. backend' = backend
    BY DEF Next, Sweep, SweepLook, SweepRemove, MakeDirs, Write, DeleteLocal,
           HeadDay, MakeDay, HeadOwn, MakeOwn, Head, Make, MakeChunks, PutChunk,
           ReadChunks, CleanChunks, DeleteDav, LookOwn, LookDay, Look,
           RemoveOwn, RemoveDay, Raises, vars
  <2>4. ~raised
    BY DEF Next, Sweep, SweepLook, SweepRemove, MakeDirs, Write, DeleteLocal,
           HeadDay, MakeDay, HeadOwn, MakeOwn, Head, Make, MakeChunks, PutChunk,
           ReadChunks, CleanChunks, DeleteDav, LookOwn, LookDay, Look,
           RemoveOwn, RemoveDay, Raises, vars
  <2> QED
    BY <2>2, <2>3, <2>4
<1>2. InUse /\ dirs \subseteq Files \cup {Day} /\ Day \notin Files
  BY <1>1, DirsConstants DEF DavInv, TypeOK
<1> USE <1>1, <1>2 DEF InUse, TypeOK, SaveAt, DelAt
<1>3. CASE UNCHANGED vars
  BY <1>3 DEF vars
<1>4. ASSUME NEW f \in Files, HeadDay(f) \/ MakeDay(f) PROVE InUse'
  BY <1>4 DEF HeadDay, MakeDay, Head, Make
<1>5. ASSUME NEW f \in Files, HeadOwn(f) PROVE InUse'
  BY <1>5 DEF HeadOwn, Head, Within
<1>6. ASSUME NEW f \in Files, MakeOwn(f) PROVE InUse'
  BY <1>6 DEF MakeOwn, Make, Within
<1>7. ASSUME NEW f \in Files, Write(f) PROVE InUse'
  BY <1>7 DEF Write
<1>8. ASSUME NEW f \in Files, DeleteDav(f) PROVE InUse'
  BY <1>8 DEF DeleteDav
<1>9. ASSUME NEW f \in Files, LookOwn(f) PROVE InUse'
  BY <1>9 DEF LookOwn, Look, LooksEmpty, Empty
<1>10. ASSUME NEW f \in Files, LookDay(f) PROVE InUse'
  BY <1>10 DEF LookDay, Look, LooksEmpty, Empty
<1>11. ASSUME NEW f \in Files, RemoveOwn(f) \/ RemoveDay(f) PROVE InUse'
  BY <1>11 DEF RemoveOwn, RemoveDay, RemoveOf
<1>12. ~(SweepRemove \/ \E d \in Files \cup {Day} : SweepLook(d))
  BY DEF DavInv, SweepRemove, SweepLook
<1>13. ASSUME NEW f \in Files, MakeChunks(f) PROVE InUse'
  BY <1>13 DEF MakeChunks
<1>14. ASSUME NEW f \in Files,
              PutChunk(f) \/ ReadChunks(f) \/ CleanChunks(f)
       PROVE  InUse'
  BY <1>14 DEF PutChunk, ReadChunks, CleanChunks
<1> QED
  BY <1>3, <1>4, <1>5, <1>6, <1>7, <1>8, <1>9, <1>10, <1>11, <1>12, <1>13,
     <1>14
     DEF Next, Sweep, MakeDirs, DeleteLocal, Raises

\* The WebDAV storage removes the directories that its deletions have emptied,
\* all but those in which chunks were put, unless a request failed or an upload
\* met a removal (webdav.py:78-92 and 315-340).
THEOREM Tidiness == Spec => []OnlyChunksStay
<1>1. Init => DavInv
  BY DEF Init, DavInv, InUse
<1>2. TypeOK /\ DavInv => OnlyChunksStay
  BY DirsConstants
     DEF TypeOK, DavInv, InUse, OnlyChunksStay, Quiet, Saving, Filed, Empty
<1> QED
  BY <1>1, <1>2, DavStep, Typing, PTL DEF Spec
=============================================================================
