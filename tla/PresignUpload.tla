---------------------------- MODULE PresignUpload ----------------------------
(***************************************************************************)
(* One session of a presigned upload.  In the mode "direct" the client     *)
(* puts the file into the storage by a presigned URL and then confirms; in *)
(* the mode "proxy" it sends the file to the server.  Confirmations and    *)
(* proxy uploads (Commits) publish the file; a cancellation, the task that *)
(* cleans expired sessions, or any request that finds the session expired, *)
(* ends the session.                                                       *)
(*                                                                         *)
(* All of them name one path of the storage and one token of the quota.    *)
(* Each reads the session once, at its beginning, and goes by what it read *)
(* then.  What reserve_storage decides is in module StorageQuota; here it  *)
(* finds the reservation in force, or grants or refuses a new one.         *)
(***************************************************************************)
EXTENDS Integers

CONSTANTS Commits,       \* requests that confirm (direct) or upload (proxy)
          Cancels,       \* requests that cancel
          Cleaner,       \* the task clean_expired_presign_sessions
          Clients,       \* PUTs to the presigned URL, which bypass the server
          NoFile,        \* nothing is at the path of the session
          StorageFails,  \* TRUE iff calls of the storage may fail
          MaxMishaps     \* how many crashes and statements that raise

Processes == Commits \cup Cancels \cup {Cleaner}

ASSUME PresignConstants ==
    /\ Commits \cap Cancels = {}
    /\ Cleaner \notin Commits \cup Cancels
    /\ Commits \cap Clients = {}
    /\ NoFile \notin Commits \cup Clients
    /\ StorageFails \in BOOLEAN
    /\ MaxMishaps \in Nat

VARIABLES
    mode,      \* column mode
    session,   \* the row of the session
    late,      \* its expires_at has passed
    held,      \* the reservation of the session is there
    file,      \* who wrote what is at the path
    rows,      \* requests that published a FileCodes row
    pc,        \* where each process is
    puts,      \* PUTs under way
    putsDone,  \* PUTs that have ended
    mishaps,   \* crashes and statements that raised
    seen,      \* history: the file a request was going to publish
    met,       \* history: processes that held the session with another one
    cut,       \* history: requests cut off between their share and the session
    replaced,  \* history: requests whose file a later PUT may have replaced
    bare,      \* history: requests that published without a reservation
    lapsed,    \* history: processes whose reservation lapsed under them
    loose      \* history: why a file may stay that nothing names

ghostVars == <<seen, met, cut, replaced, bare, lapsed, loose>>
putVars   == <<puts, putsDone>>
vars == <<mode, session, late, held, file, rows, pc, putVars, mishaps,
          ghostVars>>

SessionStates == {"new", "creating", "open", "gone"}
PcStates == {"idle", "dropping", "reserving", "checking", "saving",
             "writing", "publishing", "undoing", "looking", "unlinking",
             "deleting", "releasing", "over"}

Goto(p, l) == pc' = [pc EXCEPT ![p] = l]
Engaged(p) == pc[p] \notin {"idle", "over"}

\* The cleaner goes on to its next round where a request has answered.
End(p) == IF p = Cleaner THEN "idle" ELSE "over"
\* A request deletes the session and then the reservation, the cleaner the
\* reservation and then the session.
AfterFile(p)    == IF p = Cleaner THEN "releasing" ELSE "deleting"
AfterDelete(p)  == IF p = Cleaner THEN "idle" ELSE "releasing"
AfterRelease(p) == IF p = Cleaner THEN "deleting" ELSE "over"

-----------------------------------------------------------------------------
Init ==
    /\ mode \in {"direct", "proxy"}
    /\ session = "new"
    /\ late = FALSE
    /\ held = FALSE
    /\ file = NoFile
    /\ rows = {}
    /\ pc = [p \in Processes |-> "idle"]
    /\ puts = {}
    /\ putsDone = {}
    /\ mishaps = 0
    /\ seen = [p \in Commits |-> NoFile]
    /\ met = {}
    /\ cut = {}
    /\ replaced = {}
    /\ bare = {}
    /\ lapsed = {}
    /\ loose = FALSE

\* presign_upload_init reserves the bytes ...
InitReserve ==
    /\ session = "new"
    /\ session' = "creating"
    /\ held' = TRUE
    /\ UNCHANGED <<mode, late, file, rows, pc, putVars, mishaps, ghostVars>>

\* ... and inserts the session, or releases them when a step between raises.
InitCreate ==
    /\ session = "creating"
    /\ session' = "open"
    /\ UNCHANGED <<mode, late, held, file, rows, pc, putVars, mishaps,
                   ghostVars>>

InitRaises ==
    /\ session = "creating"
    /\ session' = "gone"
    /\ held' = FALSE
    /\ UNCHANGED <<mode, late, file, rows, pc, putVars, mishaps, ghostVars>>

Age ==
    /\ session = "open" /\ ~late
    /\ late' = TRUE
    /\ UNCHANGED <<mode, session, held, file, rows, pc, putVars, mishaps,
                   ghostVars>>

\* The reservation reached its time and was deleted.
Lapse ==
    /\ held
    /\ held' = FALSE
    /\ lapsed' = lapsed \cup {p \in Processes : Engaged(p)}
    /\ UNCHANGED <<mode, session, late, file, rows, pc, putVars, mishaps,
                   seen, met, cut, replaced, bare, loose>>

\* The URL is good for as long as the session; a PUT that it admitted ends
\* whenever it ends, also when the session has gone.
PutBegins(d) ==
    /\ mode = "direct" /\ session \in {"open", "gone"} /\ ~late
    /\ d \notin puts \cup putsDone
    /\ puts' = puts \cup {d}
    /\ UNCHANGED <<mode, session, late, held, file, rows, pc, putsDone,
                   mishaps, ghostVars>>

\* A process that will not look at the file again before the session is gone.
Past(p) == pc[p] \in {"deleting", "releasing"}

PutEnds(d) ==
    /\ d \in puts
    /\ puts' = puts \ {d}
    /\ putsDone' = putsDone \cup {d}
    /\ file' = d
    /\ replaced' = replaced \cup {p \in Commits : seen[p] # NoFile}
    /\ loose' = (loose \/ session = "gone" \/ \E p \in Processes : Past(p))
    /\ UNCHANGED <<mode, session, late, held, rows, pc, mishaps, seen, met,
                   cut, bare, lapsed>>

-----------------------------------------------------------------------------
(* Confirmation and proxy upload.                                          *)

\* Reading the session while another process holds it.
Meets(p) == LET others == {q \in Processes \ {p} : Engaged(q)} IN
    met' = IF others = {} THEN met ELSE met \cup {p} \cup others

\* _get_valid_session: 404 when there is none; an expired one is deleted here,
\* and its reservation, but not its file.
ReadSession(p) ==
    /\ pc[p] = "idle"
    /\ session \in {"open", "gone"}
    /\ IF session = "gone" THEN Goto(p, "over") /\ UNCHANGED met
       ELSE /\ Goto(p, IF late THEN "dropping" ELSE "reserving")
            /\ Meets(p)
    /\ UNCHANGED <<mode, session, late, held, file, rows, putVars, mishaps,
                   seen, cut, replaced, bare, lapsed, loose>>

DropExpired(p) ==
    /\ pc[p] = "dropping"
    /\ session' = "gone"
    /\ loose' = (loose \/ file # NoFile)
    /\ Goto(p, "releasing")
    /\ UNCHANGED <<mode, late, held, file, rows, putVars, mishaps, seen, met,
                   cut, replaced, bare, lapsed>>

\* reserve_storage: the reservation of the session if it is in force, which is
\* not prolonged, or a new one.
Reserve(p) ==
    /\ pc[p] = "reserving"
    /\ held' = TRUE
    /\ lapsed' = lapsed \ {p}
    /\ Goto(p, IF mode = "direct" THEN "checking" ELSE "saving")
    /\ UNCHANGED <<mode, session, late, file, rows, putVars, mishaps, seen,
                   met, cut, replaced, bare, loose>>

\* The quota is exhausted: a confirmation removes file and session and then
\* answers 507; a proxy upload only answers 507.
Refuse(p) ==
    /\ pc[p] = "reserving" /\ ~held
    /\ Goto(p, IF mode = "direct" THEN "looking" ELSE "over")
    /\ UNCHANGED <<mode, session, late, held, file, rows, putVars, mishaps,
                   ghostVars>>

\* Fault, in no action: the confirmation does not look for the file.
ConfirmUnseen(p) ==
    /\ pc[p] = "checking"
    /\ seen' = [seen EXCEPT ![p] = file]
    /\ Goto(p, "publishing")
    /\ UNCHANGED <<mode, session, late, held, file, rows, putVars, mishaps,
                   met, cut, replaced, bare, lapsed, loose>>

\* Without a file the confirmation answers 404 and changes nothing.
Confirm(p) ==
    /\ pc[p] = "checking"
    /\ seen' = [seen EXCEPT ![p] = file]
    /\ Goto(p, IF file = NoFile THEN "over" ELSE "publishing")
    /\ UNCHANGED <<mode, session, late, held, file, rows, putVars, mishaps,
                   met, cut, replaced, bare, lapsed, loose>>

\* save_file opens the path, which truncates what is there, and writes it piece
\* by piece...
OpenFile(p) ==
    /\ pc[p] = "saving"
    /\ file' = p
    /\ seen' = [seen EXCEPT ![p] = p]
    /\ Goto(p, "writing")
    /\ UNCHANGED <<mode, session, late, held, rows, putVars, mishaps, met,
                   cut, replaced, bare, lapsed, loose>>

\* ... to the end; a file that was unlinked meanwhile does not come back.
Save(p) ==
    /\ pc[p] = "writing"
    /\ file' = IF file = NoFile THEN NoFile ELSE p
    /\ Goto(p, "publishing")
    /\ UNCHANGED <<mode, session, late, held, rows, putVars, mishaps,
                   ghostVars>>

\* It raises midway, and nothing removes what it wrote.
SaveRaises(p) ==
    /\ pc[p] = "writing"
    /\ StorageFails
    /\ loose' = TRUE
    /\ Goto(p, "over")
    /\ UNCHANGED <<mode, session, late, held, file, rows, putVars, mishaps,
                   seen, met, cut, replaced, bare, lapsed>>

\* A size or a type that is refused, a file that cannot be opened, or one that
\* file_exists cannot ask for: the reservation is left to its time.
Fails(p) ==
    /\ \/ pc[p] = "saving"
       \/ pc[p] = "checking" /\ StorageFails
    /\ Goto(p, "over")
    /\ UNCHANGED <<mode, session, late, held, file, rows, putVars, mishaps,
                   ghostVars>>

\* create_file_record
Publish(p) ==
    /\ pc[p] = "publishing"
    /\ rows' = rows \cup {p}
    /\ bare' = IF held THEN bare ELSE bare \cup {p}
    /\ Goto(p, "deleting")
    /\ UNCHANGED <<mode, session, late, held, file, putVars, mishaps, seen,
                   met, cut, replaced, lapsed, loose>>

\* It raises: rollback_saved_file.
PublishRaises(p) ==
    /\ pc[p] = "publishing"
    /\ Goto(p, "undoing")
    /\ UNCHANGED <<mode, session, late, held, file, rows, putVars, mishaps,
                   ghostVars>>

Undo(p) ==
    /\ pc[p] = "undoing"
    /\ \/ file' = NoFile /\ UNCHANGED loose
       \/ StorageFails /\ loose' = TRUE /\ UNCHANGED file
    /\ Goto(p, "over")
    /\ UNCHANGED <<mode, session, late, held, rows, putVars, mishaps, seen,
                   met, cut, replaced, bare, lapsed>>

-----------------------------------------------------------------------------
(* Cancellation, cleaning, and what every end has in common.               *)

\* presign_upload_cancel
Cancel(x) ==
    /\ pc[x] = "idle"
    /\ session \in {"open", "gone"}
    /\ IF session = "gone" THEN Goto(x, "over") /\ UNCHANGED met
       ELSE /\ Goto(x, IF mode = "direct" THEN "looking" ELSE "deleting")
            /\ Meets(x)
    /\ UNCHANGED <<mode, session, late, held, file, rows, putVars, mishaps,
                   seen, cut, replaced, bare, lapsed, loose>>

\* clean_expired_presign_sessions reads the sessions that have expired.
ScanExpired ==
    /\ pc[Cleaner] = "idle"
    /\ session = "open" /\ late
    /\ Goto(Cleaner, IF mode = "direct" THEN "looking" ELSE "releasing")
    /\ Meets(Cleaner)
    /\ UNCHANGED <<mode, session, late, held, file, rows, putVars, mishaps,
                   seen, cut, replaced, bare, lapsed, loose>>

ScanNothing ==
    /\ pc[Cleaner] = "idle"
    /\ ~(session = "open" /\ late)
    /\ UNCHANGED vars

\* Fault, in no action: the session ends without a look at its file.
LookAway(p) ==
    /\ pc[p] = "looking"
    /\ Goto(p, AfterFile(p))
    /\ UNCHANGED <<mode, session, late, held, file, rows, putVars, mishaps,
                   ghostVars>>

\* file_exists, then delete_file.
Look(p) ==
    /\ pc[p] = "looking"
    /\ Goto(p, IF file = NoFile THEN AfterFile(p) ELSE "unlinking")
    /\ UNCHANGED <<mode, session, late, held, file, rows, putVars, mishaps,
                   ghostVars>>

Unlink(p) ==
    /\ pc[p] = "unlinking"
    /\ file' = NoFile
    /\ Goto(p, AfterFile(p))
    /\ UNCHANGED <<mode, session, late, held, rows, putVars, mishaps,
                   ghostVars>>

\* file_exists answers FALSE when the storage cannot be asked; an exception of
\* delete_file is logged, or passes through the finally of a refused
\* confirmation.
StorageRaises(p) ==
    /\ pc[p] \in {"looking", "unlinking"}
    /\ StorageFails
    /\ loose' = TRUE
    /\ Goto(p, AfterFile(p))
    /\ UNCHANGED <<mode, session, late, held, file, rows, putVars, mishaps,
                   seen, met, cut, replaced, bare, lapsed>>

\* Fault, in no action: the session outlives its end.
DeleteNothing(p) ==
    /\ pc[p] = "deleting"
    /\ Goto(p, AfterDelete(p))
    /\ UNCHANGED <<mode, session, late, held, file, rows, putVars, mishaps,
                   ghostVars>>

\* session.delete(), also of a row that has gone.
DeleteSession(p) ==
    /\ pc[p] = "deleting"
    /\ session' = "gone"
    /\ Goto(p, AfterDelete(p))
    /\ UNCHANGED <<mode, late, held, file, rows, putVars, mishaps, ghostVars>>

Release(p) ==
    /\ pc[p] = "releasing"
    /\ held' = FALSE
    /\ Goto(p, AfterRelease(p))
    /\ UNCHANGED <<mode, session, late, file, rows, putVars, mishaps,
                   ghostVars>>

Mishap == mishaps < MaxMishaps /\ mishaps' = mishaps + 1

\* The deletion of the session or of the reservation raises: the request ends
\* with an error, the cleaner logs it and goes on to its next round.
StatementRaises(p) ==
    /\ pc[p] \in {"dropping", "deleting", "releasing"}
    /\ Mishap
    /\ cut' = IF pc[p] = "deleting" THEN cut \cup ({p} \cap rows) ELSE cut
    /\ Goto(p, End(p))
    /\ UNCHANGED <<mode, session, late, held, file, rows, putVars, seen, met,
                   replaced, bare, lapsed, loose>>

Crash ==
    /\ Mishap
    /\ session' = IF session = "creating" THEN "gone" ELSE session
    /\ pc' = [p \in Processes |-> IF Engaged(p) THEN End(p) ELSE pc[p]]
    /\ cut' = cut \cup {p \in rows : pc[p] = "deleting"}
    /\ loose' = (loose \/ \E p \in Processes :
                             /\ mode = "proxy"
                             /\ pc[p] \in {"writing", "publishing", "undoing"})
    /\ UNCHANGED <<mode, late, held, file, rows, putVars, seen, met, replaced,
                   bare, lapsed>>

-----------------------------------------------------------------------------
CommitNext(p) ==
    \/ ReadSession(p)
    \/ DropExpired(p)
    \/ Reserve(p)
    \/ Refuse(p)
    \/ Confirm(p)
    \/ OpenFile(p)
    \/ Save(p)
    \/ SaveRaises(p)
    \/ Fails(p)
    \/ Publish(p)
    \/ PublishRaises(p)
    \/ Undo(p)

EndNext(p) ==
    \/ Look(p)
    \/ Unlink(p)
    \/ StorageRaises(p)
    \/ DeleteSession(p)
    \/ Release(p)
    \/ StatementRaises(p)

CleanerNext == ScanExpired \/ ScanNothing \/ EndNext(Cleaner)

Next ==
    \/ InitReserve
    \/ InitCreate
    \/ InitRaises
    \/ Age
    \/ Lapse
    \/ \E d \in Clients : PutBegins(d) \/ PutEnds(d)
    \/ \E p \in Commits : CommitNext(p) \/ EndNext(p)
    \/ \E x \in Cancels : Cancel(x) \/ EndNext(x)
    \/ CleanerNext
    \/ Crash

Spec == Init /\ [][Next]_vars

\* Time passes and the task is a loop that survives every exception; requests
\* and clients may stop anywhere.
FairSpec == Spec /\ WF_vars(Age) /\ WF_vars(Lapse) /\ WF_vars(CleanerNext)

-----------------------------------------------------------------------------
(* Properties that hold.                                                   *)

\* Every variable has its type, and a request that is about to publish has
\* found or opened a file.
TypeOK ==
    /\ mode \in {"direct", "proxy"}
    /\ session \in SessionStates
    /\ late \in BOOLEAN
    /\ held \in BOOLEAN
    /\ file \in Commits \cup Clients \cup {NoFile}
    /\ rows \subseteq Commits
    /\ pc \in [Processes -> PcStates]
    /\ puts \subseteq Clients
    /\ putsDone \subseteq Clients
    /\ mishaps \in Nat
    /\ seen \in [Commits -> Commits \cup Clients \cup {NoFile}]
    /\ \A p \in Commits :
          pc[p] \in {"writing", "publishing"} => seen[p] # NoFile
    /\ met \subseteq Processes
    /\ cut \subseteq Commits
    /\ replaced \subseteq Commits
    /\ bare \subseteq Commits
    /\ lapsed \subseteq Processes
    /\ loose \in BOOLEAN

\* What a share was published with stays: the cleaning, a cancellation, a
\* refused or failed confirmation delete the file of a published share, and
\* another upload overwrites it, only if they held the session together with
\* the request that published it, if a crash or a statement that raised kept
\* that one from deleting the session, or if the client put another file by the
\* URL it still has.
PublishedKept ==
    \A p \in rows : \/ (file = seen[p] /\ seen[p] # NoFile)
                    \/ p \in met \cup cut \cup replaced

\* A session is published once, except by requests that held it together or
\* by a retry after such a crash or failure.
PublishedOnce ==
    \A p, q \in rows : p = q \/ {p, q} \cap (met \cup cut) # {}

\* A share is inserted under the reservation of its session, so that the quota
\* counted it, unless that lapsed under the request, which reserve_storage does
\* not prolong, or another request of the session released it.
PublishedCharged == bare \subseteq met \cup lapsed

\* A published session: its file stays, it has one share, the quota counts it.
PublishedInv == PublishedKept /\ PublishedOnce /\ PublishedCharged

\* When a session has ended without a share its file is gone, unless the PUT
\* was late, the session was dropped by a request that found it expired, the
\* storage failed, or a crash hit a proxy upload.  What a proxy upload that is
\* cut short has written stays: nothing rolls it back, and the cleaner looks
\* only for the files of direct sessions.
NothingLeft ==
    (/\ session = "gone" /\ rows = {} /\ puts = {}
     /\ \A p \in Processes : ~Engaged(p))
        => file = NoFile \/ loose

\* An abandoned session ends, and so does its reservation, across mishaps and
\* failures of the storage.
SessionEnds == (session = "open") ~> (session = "gone" /\ ~held)
=============================================================================
