------------------------- MODULE PresignUploadProofs -------------------------
(***************************************************************************)
(* Proofs about PresignUpload, for every set of requests and clients and   *)
(* every number of crashes: the type invariant; what a published session   *)
(* keeps: its file, its single share and its place in the quota; and that  *)
(* a session without a share leaves nothing.                               *)
(***************************************************************************)
EXTENDS PresignUpload, TLAPS

-----------------------------------------------------------------------------
(* The inductive invariant.                                                *)

\* Whoever holds the session beside another is known to.
Together ==
    \A p, q \in Processes : p # q /\ Engaged(p) /\ Engaged(q) => p \in met

\* Nobody holds a session that is not there yet.
NoneYet ==
    session \in {"new", "creating"} => \A p \in Processes : ~Engaged(p)

\* A request that has published had a file, and has only the session left to
\* delete; one that writes a file is going to publish that.
Published ==
    /\ \A p \in Commits : pc[p] = "writing" => seen[p] = p
    /\ \A p \in rows :
          /\ seen[p] # NoFile
          /\ pc[p] \in {"deleting", "releasing", "over"}

\* A request that has published alone and without a crash holds the session
\* alone until it has deleted it.
Settled ==
    \A p \in rows \ (met \cup cut) :
        /\ pc[p] # "deleting" => session = "gone"
        /\ \A q \in Processes \ {p} : ~Engaged(q)

\* The file of such a request is kept from the moment it has been seen or
\* opened.
Kept ==
    \A p \in Commits : p \in rows \/ pc[p] \in {"writing", "publishing"} =>
        file = seen[p] \/ p \in met \cup cut \cup replaced

\* A request goes on to publish with its reservation.
Charged ==
    /\ bare \subseteq rows
    /\ bare \subseteq met \cup lapsed
    /\ \A p \in Commits :
          pc[p] \in {"checking", "saving", "writing", "publishing"} =>
              held \/ p \in met \cup lapsed

Safe == Together /\ NoneYet /\ Published /\ Settled /\ Kept /\ Charged
           /\ PublishedOnce
IInv == TypeOK /\ Safe

-----------------------------------------------------------------------------
\* A request that has published alone shares the session with nobody who acts.
LEMMA Alone ==
    ASSUME Settled, NEW q \in Processes, Engaged(q),
           NEW p \in rows \ (met \cup cut)
    PROVE  p = q
BY DEF Settled

\* The steps of Init and of time, and the PUTs.
LEMMA EnvironmentStep ==
    ASSUME IInv,
           \/ InitReserve \/ InitCreate \/ InitRaises \/ Age \/ Lapse
           \/ \E d \in Clients : PutBegins(d) \/ PutEnds(d)
    PROVE  IInv'
<1> USE PresignConstants DEF IInv, TypeOK, Safe, Together, NoneYet, Published,
        Settled, Kept, Charged, PublishedOnce, Engaged, ghostVars, putVars,
        SessionStates, Processes
<1>1. CASE InitReserve
  BY <1>1 DEF InitReserve
<1>2. CASE InitCreate
  BY <1>2 DEF InitCreate
<1>3. CASE InitRaises
  BY <1>3 DEF InitRaises
<1>4. CASE Age
  BY <1>4 DEF Age
<1>5. CASE Lapse
  BY <1>5 DEF Lapse
<1>6. ASSUME NEW d \in Clients, PutBegins(d) PROVE IInv'
  BY <1>6 DEF PutBegins
<1>7. ASSUME NEW d \in Clients, PutEnds(d) PROVE IInv'
  BY <1>7 DEF PutEnds
<1> QED
  BY <1>1, <1>2, <1>3, <1>4, <1>5, <1>6, <1>7

\* The steps of a confirmation or a proxy upload.
LEMMA CommitStep ==
    ASSUME IInv, NEW p \in Commits, CommitNext(p)
    PROVE  IInv'
<1> USE PresignConstants DEF IInv, TypeOK, Safe, Together, NoneYet, Published,
        Settled, Kept, Charged, PublishedOnce, Engaged, ghostVars, putVars,
        SessionStates, PcStates, Processes, Goto
<1>1. CASE ReadSession(p)
  BY <1>1 DEF ReadSession, Meets
<1>2. CASE DropExpired(p)
  BY <1>2 DEF DropExpired
<1>3. CASE Reserve(p)
  BY <1>3 DEF Reserve
<1>4. CASE Refuse(p)
  BY <1>4 DEF Refuse
<1>5. CASE Confirm(p)
  BY <1>5 DEF Confirm
<1>6. CASE OpenFile(p)
  <2>1. TypeOK' /\ NoneYet' /\ Together' /\ PublishedOnce'
    BY <1>6 DEF OpenFile
  <2>2. Published' /\ Settled' /\ Charged'
    BY <1>6 DEF OpenFile
  <2>3. \A q \in rows : q \in met \cup cut
    BY <1>6, Alone DEF OpenFile
  <2>4. Kept'
    BY <1>6, <2>3 DEF OpenFile
  <2> QED
    BY <2>1, <2>2, <2>4
<1>11. CASE Save(p)
  <2>1. TypeOK' /\ NoneYet' /\ Together' /\ PublishedOnce'
    BY <1>11 DEF Save
  <2>2. Published' /\ Settled' /\ Charged'
    BY <1>11 DEF Save
  <2>3. \A q \in rows : q \in met \cup cut
    BY <1>11, Alone DEF Save
  <2>4. Kept'
    BY <1>11, <2>3 DEF Save
  <2> QED
    BY <2>1, <2>2, <2>4
<1>12. CASE SaveRaises(p)
  BY <1>12 DEF SaveRaises
<1>7. CASE Fails(p)
  BY <1>7 DEF Fails
<1>8. CASE Publish(p)
  BY <1>8, Alone DEF Publish
<1>9. CASE PublishRaises(p)
  BY <1>9 DEF PublishRaises
<1>10. CASE Undo(p)
  <2>1. TypeOK'
    <3>1. loose' \in BOOLEAN
      BY <1>10, Zenon DEF Undo
    <3>2. file' \in Commits \cup Clients \cup {NoFile}
      BY <1>10 DEF Undo
    <3> QED
      BY <1>10, <3>1, <3>2 DEF Undo
  <2>2. Together' /\ NoneYet' /\ Published' /\ Settled' /\ PublishedOnce'
    BY <1>10 DEF Undo
  <2>3. \A q \in Commits : q \in rows \/ pc[q] \in {"writing", "publishing"} =>
            q \in met \cup cut
    BY <1>10, Alone DEF Undo
  <2>4. Kept' /\ Charged'
    BY <1>10, <2>3 DEF Undo
  <2> QED
    BY <2>1, <2>2, <2>4
<1> HIDE DEF IInv
<1> QED
  BY <1>1, <1>2, <1>3, <1>4, <1>5, <1>6, <1>7, <1>8, <1>9, <1>10,
     <1>11, <1>12 DEF CommitNext

\* What every end of a session has in common.
LEMMA EndStep ==
    ASSUME IInv, NEW p \in Processes, EndNext(p)
    PROVE  IInv'
<1> USE PresignConstants DEF IInv, TypeOK, Safe, Together, NoneYet, Published,
        Settled, Kept, Charged, PublishedOnce, Engaged, ghostVars, putVars,
        SessionStates, PcStates, Processes, Goto, AfterFile, AfterDelete,
        AfterRelease
<1>1. CASE Look(p)
  BY <1>1 DEF Look
<1>2. CASE Unlink(p)
  <2>1. TypeOK' /\ NoneYet' /\ Published' /\ Together' /\ PublishedOnce'
    BY <1>2 DEF Unlink
  <2>2. Settled' /\ Charged'
    BY <1>2 DEF Unlink
  <2>3. \A q \in Commits : q \in rows \/ pc[q] \in {"writing", "publishing"} =>
            q \in met \cup cut
    BY <1>2, Alone DEF Unlink
  <2>4. Kept'
    BY <1>2, <2>3 DEF Unlink
  <2> QED
    BY <2>1, <2>2, <2>4
<1>3. CASE StorageRaises(p)
  BY <1>3 DEF StorageRaises
<1>4. CASE DeleteSession(p)
  BY <1>4 DEF DeleteSession
<1>5. CASE Release(p)
  <2>1. TypeOK'
    BY <1>5 DEF Release
  <2>2. NoneYet' /\ Together'
    BY <1>5 DEF Release
  <2>3. Published' /\ PublishedOnce'
    BY <1>5 DEF Release
  <2>4. Settled'
    BY <1>5 DEF Release
  <2>5. Kept' /\ Charged'
    BY <1>5 DEF Release
  <2> QED
    BY <2>1, <2>2, <2>3, <2>4, <2>5
<1>6. CASE StatementRaises(p)
  <2>1. TypeOK'
    BY <1>6 DEF StatementRaises, Mishap, End
  <2>2. NoneYet' /\ Together' /\ Published' /\ PublishedOnce'
    BY <1>6 DEF StatementRaises, End
  <2>3. Settled'
    BY <1>6 DEF StatementRaises, End
  <2>4. Kept' /\ Charged'
    BY <1>6 DEF StatementRaises, End
  <2> QED
    BY <2>1, <2>2, <2>3, <2>4
<1> HIDE DEF IInv
<1> QED
  BY <1>1, <1>2, <1>3, <1>4, <1>5, <1>6 DEF EndNext

\* A cancellation and the cleaner take hold of the session; a crash frees it.
LEMMA OtherStep ==
    ASSUME IInv,
           (\E x \in Cancels : Cancel(x)) \/ ScanExpired \/ ScanNothing \/ Crash
    PROVE  IInv'
<1> USE PresignConstants DEF IInv, TypeOK, Safe, Together, NoneYet, Published,
        Settled, Kept, Charged, PublishedOnce, Engaged, ghostVars, putVars,
        SessionStates, PcStates, Processes, Goto
<1>1. ASSUME NEW x \in Cancels, Cancel(x) PROVE IInv'
  BY <1>1 DEF Cancel, Meets
<1>2. CASE ScanExpired
  BY <1>2 DEF ScanExpired, Meets
<1>3. CASE ScanNothing
  BY <1>3 DEF ScanNothing, vars
<1>4. CASE Crash
  BY <1>4 DEF Crash, Mishap, End
<1> QED
  BY <1>1, <1>2, <1>3, <1>4

LEMMA Inductive == Spec => []IInv
<1>1. Init => IInv
  <2> SUFFICES ASSUME Init PROVE TypeOK /\ Safe
    BY DEF IInv
  <2>1. TypeOK
    BY PresignConstants DEF Init, TypeOK, SessionStates, PcStates, Processes
  <2>2. Safe
    BY DEF Init, Safe, Together, NoneYet, Published, Settled, Kept, Charged,
           PublishedOnce, Engaged, Processes
  <2> QED
    BY <2>1, <2>2
<1>2. IInv /\ [Next]_vars => IInv'
  <2> SUFFICES ASSUME IInv, [Next]_vars PROVE IInv'
    OBVIOUS
  <2>1. CASE UNCHANGED vars
    BY <2>1 DEF vars, ghostVars, putVars, IInv, TypeOK, Safe, Together, NoneYet,
       Published, Settled, Kept, Charged, PublishedOnce, Engaged
  <2>2. CASE Next
    BY <2>2, EnvironmentStep, CommitStep, EndStep, OtherStep
       DEF Next, CleanerNext, Processes
  <2> QED
    BY <2>1, <2>2
<1> QED
  BY <1>1, <1>2, PTL DEF Spec

\* The type invariant holds in every reachable state.
THEOREM Typing == Spec => []TypeOK
<1>1. IInv => TypeOK
  BY DEF IInv
<1> QED
  BY <1>1, Inductive, PTL

\* Whatever interleaves with the request that publishes a session, its file
\* stays, it has one share, and the quota counts it (services.py:314-411).
THEOREM PublishedStays == Spec => []PublishedInv
<1>1. IInv => PublishedInv
  BY DEF IInv, TypeOK, Safe, Kept, Published, Charged, PublishedInv,
         PublishedKept, PublishedOnce, PublishedCharged
<1> QED
  BY <1>1, Inductive, PTL

-----------------------------------------------------------------------------
(* What a session leaves behind.                                           *)

\* A file that no share names and nothing has excused yet belongs to a session
\* that is open and whose end will look for it, or to a proxy upload that will
\* publish it or roll it back.
Accounted ==
    /\ mode = "proxy" => puts = {}
    /\ \A p \in Commits : pc[p] \in {"saving", "writing"} => mode = "proxy"
    /\ session \in {"new", "creating"} => file = NoFile /\ puts = {}
    /\ file # NoFile /\ rows = {} /\ ~loose =>
          IF mode = "direct"
          THEN session = "open" /\ \A p \in Processes : ~Past(p)
          ELSE \E p \in Commits :
                  pc[p] \in {"writing", "publishing", "undoing"}

LEMMA AccountedStep ==
    ASSUME TypeOK, NoneYet, Accounted, [Next]_vars
    PROVE  Accounted'
<1> USE PresignConstants DEF TypeOK, NoneYet, Accounted, Past, Engaged, Goto,
        Processes, ghostVars, putVars, SessionStates
<1>1. CASE InitReserve \/ InitCreate \/ InitRaises \/ Age \/ Lapse
  BY <1>1 DEF InitReserve, InitCreate, InitRaises, Age, Lapse
<1>2. ASSUME NEW d \in Clients, PutBegins(d) \/ PutEnds(d) PROVE Accounted'
  BY <1>2 DEF PutBegins, PutEnds
<1>3. ASSUME NEW p \in Commits, CommitNext(p) PROVE Accounted'
  <2>1. CASE ReadSession(p)
    BY <2>1 DEF ReadSession
  <2>2. CASE DropExpired(p)
    BY <2>2 DEF DropExpired
  <2>3. CASE Reserve(p) \/ Refuse(p)
    BY <2>3 DEF Reserve, Refuse
  <2>4. CASE Confirm(p)
    BY <2>4 DEF Confirm
  <2>5. CASE OpenFile(p) \/ Save(p) \/ SaveRaises(p) \/ Fails(p)
    BY <2>5 DEF OpenFile, Save, SaveRaises, Fails
  <2>6. CASE Publish(p) \/ PublishRaises(p)
    BY <2>6 DEF Publish, PublishRaises
  <2>7. CASE Undo(p)
    BY <2>7 DEF Undo
  <2> QED
    BY <1>3, <2>1, <2>2, <2>3, <2>4, <2>5, <2>6, <2>7 DEF CommitNext
<1>4. ASSUME NEW p \in Processes, EndNext(p) PROVE Accounted'
  <2> USE DEF AfterFile, AfterDelete, AfterRelease
  <2>1. CASE Look(p)
    BY <2>1 DEF Look
  <2>2. CASE Unlink(p) \/ StorageRaises(p)
    BY <2>2 DEF Unlink, StorageRaises
  <2>3. CASE DeleteSession(p)
    BY <2>3 DEF DeleteSession
  <2>4. CASE Release(p)
    BY <2>4 DEF Release
  <2>5. CASE StatementRaises(p)
    BY <2>5 DEF StatementRaises, End
  <2> QED
    BY <1>4, <2>1, <2>2, <2>3, <2>4, <2>5 DEF EndNext
<1>5. ASSUME NEW x \in Cancels, Cancel(x) PROVE Accounted'
  BY <1>5 DEF Cancel
<1>6. CASE ScanExpired \/ ScanNothing
  BY <1>6 DEF ScanExpired, ScanNothing, vars
<1>7. CASE Crash
  BY <1>7 DEF Crash, End
<1>8. CASE UNCHANGED vars
  BY <1>8 DEF vars
<1> HIDE DEF Accounted
<1> QED
  BY <1>1, <1>2, <1>3, <1>4, <1>5, <1>6, <1>7, <1>8 DEF Next, CleanerNext

\* A session that ended without a share leaves no file, unless the PUT came
\* late, a request found the session expired, the storage failed, or a crash
\* hit a proxy upload while it wrote or had written (services.py:314-411,
\* views.py:555-696, tasks.py:103-132).
THEOREM Cleanness == Spec => []NothingLeft
<1>1. Init => Accounted
  BY DEF Init, Accounted, Processes
<1>2. TypeOK /\ Accounted => NothingLeft
  BY PresignConstants DEF TypeOK, Accounted, NothingLeft, Engaged, Processes
<1>3. IInv => TypeOK /\ NoneYet
  BY DEF IInv, Safe
<1> QED
  BY <1>1, <1>2, <1>3, AccountedStep, Inductive, PTL DEF Spec
=============================================================================
