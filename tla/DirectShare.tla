---------------------------- MODULE DirectShare ----------------------------
(***************************************************************************)
(* POST /share/text and POST /share/file: an upload that is complete when  *)
(* the handler starts reserves its bytes, stores its file, inserts its     *)
(* FileCodes row and releases the reservation (create_text_share and       *)
(* create_file_share of apps/base/services.py).  The token of the          *)
(* reservation is fresh for each request.                                  *)
(***************************************************************************)
EXTENDS StorageQuota

CONSTANTS Texts,        \* requests that carry a text and store no file
          Codes,        \* retrieval codes get_random_code draws from
          NoCode,       \* no code has been drawn
          MaxTime,      \* bounds of the instance
          MaxMishaps    \* crashes, and calls and statements that raise

ASSUME DirectConstants ==
    /\ \A p, q \in Requests : TokenOf[p] = TokenOf[q] => p = q
    /\ Texts \subseteq Requests
    /\ NoCode \notin Codes
    /\ MaxTime \in Nat
    /\ MaxMishaps \in Nat

VARIABLES
    pc,        \* where each request is
    code,      \* the code it drew
    stored,    \* requests whose file is in the storage
    going,     \* rows whose deletion has dealt with the file
    mishaps,   \* crashes, and calls and statements that raised
    late,      \* history: rows inserted when their reservation had lapsed
    lost,      \* history: requests a crash, or a release that raised, cut short
    leaked,    \* history: requests whose rollback failed
    left,      \* history: rows whose file the expiry task could not delete
    torn       \* history: rows whose deletion stopped after the file

shareVars == <<pc, code, stored, going>>
ghostVars == <<late, lost, leaked, left, torn>>
vars == <<now, rows, quotaVars, shareVars, mishaps, ghostVars>>

PcStates == {"idle", "reserving", "saving", "creating", "rollback",
             "releasing", "over"}

\* The codes of the rows in the table.
TakenCodes == {code[p] : p \in rows}

\* The reservation of the request is still in force.
Backed(p) == p \in resv /\ expires[p] > now

Step(p, l) == pc' = [pc EXCEPT ![p] = l]

-----------------------------------------------------------------------------
Init ==
    /\ now = 0
    /\ rows = {}
    /\ QuotaInit
    /\ pc = [p \in Requests |-> "idle"]
    /\ code = [p \in Requests |-> NoCode]
    /\ stored = {}
    /\ going = {}
    /\ mishaps = 0
    /\ late = {}
    /\ lost = {}
    /\ leaked = {}
    /\ left = {}
    /\ torn = {}

\* The clock goes on after the last request for every reservation to lapse.
MaxTTL == CHOOSE t \in {TTL[p] : p \in Requests} : \A p \in Requests : TTL[p] <= t
Tick ==
    /\ now < MaxTime + MaxTTL + 1
    /\ now' = now + 1
    /\ UNCHANGED <<rows, quotaVars, shareVars, mishaps, ghostVars>>

\* A call of the storage or a statement raises.
Raises == mishaps < MaxMishaps /\ mishaps' = mishaps + 1

Arrive(p) ==
    /\ pc[p] = "idle"
    /\ now < MaxTime
    /\ ReserveNothing(p) \/ ReserveBegin(p)
    /\ Step(p, "reserving")
    /\ UNCHANGED <<now, rows, code, stored, going, mishaps, ghostVars>>

Reserve(p) ==
    /\ pc[p] = "reserving"
    /\ ReserveStep(p)
    /\ UNCHANGED <<now, rows, shareVars, mishaps, ghostVars>>

\* 507: nothing was stored and nothing is held.
Deny(p) ==
    /\ pc[p] = "reserving"
    /\ qpc[p] = "refused"
    /\ Step(p, "over")
    /\ UNCHANGED <<now, rows, quotaVars, code, stored, going, mishaps,
                   ghostVars>>

\* Fault, in no action: a text is given no code of its own.
DrawForFiles(p) ==
    /\ pc[p] = "reserving"
    /\ qpc[p] = "granted"
    /\ \E c \in Codes \ TakenCodes :
          code' = IF p \in Texts THEN code ELSE [code EXCEPT ![p] = c]
    /\ Step(p, IF p \in Texts THEN "creating" ELSE "saving")
    /\ UNCHANGED <<now, rows, quotaVars, stored, going, mishaps, ghostVars>>

\* get_expire_info: draw a code that no row has.
Draw(p) ==
    /\ pc[p] = "reserving"
    /\ qpc[p] = "granted"
    /\ \E c \in Codes \ TakenCodes : code' = [code EXCEPT ![p] = c]
    /\ Step(p, IF p \in Texts THEN "creating" ELSE "saving")
    /\ UNCHANGED <<now, rows, quotaVars, stored, going, mishaps, ghostVars>>

\* Fault, in no action: a file is not rolled back once it has a code.
HandlerForgets(p) == IF code[p] = NoCode THEN "rollback" ELSE "releasing"

\* Where an exception leads: a file is rolled back, a text only released.
Handler(p) == IF p \in Texts THEN "releasing" ELSE "rollback"

\* get_expire_info: 403, the lifetime asked for is too long.
RejectLifetime(p) ==
    /\ pc[p] = "reserving"
    /\ qpc[p] = "granted"
    /\ Step(p, Handler(p))
    /\ UNCHANGED <<now, rows, quotaVars, code, stored, going, mishaps,
                   ghostVars>>

Save(p) ==
    /\ pc[p] = "saving"
    /\ stored' = stored \cup {p}
    /\ Step(p, "creating")
    /\ UNCHANGED <<now, rows, quotaVars, code, going, mishaps, ghostVars>>

\* save_file raised, before or after it began the file.
SaveRaises(p) ==
    /\ pc[p] = "saving"
    /\ Raises
    /\ stored' = stored \/ stored' = stored \cup {p}
    /\ Step(p, "rollback")
    /\ UNCHANGED <<now, rows, quotaVars, code, going, ghostVars>>

\* Fault, in no action: no index makes a code unique.
CreateAnyCode(p) ==
    /\ pc[p] = "creating"
    /\ rows' = rows \cup {p}
    /\ late' = IF Limit = 0 \/ Size[p] = 0 \/ Backed(p) THEN late
               ELSE late \cup {p}
    /\ Step(p, "releasing")
    /\ UNCHANGED <<now, quotaVars, code, stored, going, mishaps, lost, leaked,
                   left, torn>>

\* FileCodes.create
Create(p) ==
    /\ pc[p] = "creating"
    /\ code[p] \notin TakenCodes
    /\ rows' = rows \cup {p}
    /\ late' = IF Limit = 0 \/ Size[p] = 0 \/ Backed(p) THEN late
               ELSE late \cup {p}
    /\ Step(p, "releasing")
    /\ UNCHANGED <<now, quotaVars, code, stored, going, mishaps, lost, leaked,
                   left, torn>>

\* Another request inserted the same code since this one drew it, or the
\* statement raises for a reason of its own.
CreateRaises(p) ==
    /\ pc[p] = "creating"
    /\ \/ code[p] \in TakenCodes /\ UNCHANGED mishaps
       \/ Raises
    /\ Step(p, Handler(p))
    /\ UNCHANGED <<now, rows, quotaVars, code, stored, going, ghostVars>>

\* rollback_saved_file
Rollback(p) ==
    /\ pc[p] = "rollback"
    /\ stored' = stored \ {p}
    /\ Step(p, "releasing")
    /\ UNCHANGED <<now, rows, quotaVars, code, going, mishaps, ghostVars>>

\* A failure of the rollback is logged and swallowed.
RollbackRaises(p) ==
    /\ pc[p] = "rollback"
    /\ Raises
    /\ leaked' = leaked \cup {p}
    /\ Step(p, "releasing")
    /\ UNCHANGED <<now, rows, quotaVars, code, stored, going, late, lost, left,
                   torn>>

\* finally: release_storage
Release(p) ==
    /\ pc[p] = "releasing"
    /\ ReleaseToken(p)
    /\ Step(p, "over")
    /\ UNCHANGED <<now, rows, expires, qpc, qnow, code, stored, going, mishaps,
                   ghostVars>>

\* It raised: the reservation is left to its expiry.
ReleaseRaises(p) ==
    /\ pc[p] = "releasing"
    /\ Raises
    /\ lost' = lost \cup {p}
    /\ Step(p, "over")
    /\ UNCHANGED <<now, rows, quotaVars, code, stored, going, late, leaked,
                   left, torn>>

-----------------------------------------------------------------------------
(* The rest of the server, as far as it matters here.                      *)

\* The expiry task or an administrator deletes a share, first its file, then
\* its row.  Who else has the share then is the matter of ShareLifecycle.  The
\* task goes on to the row when the file cannot be deleted.
WithdrawFile(p) ==
    /\ p \in rows \ going
    /\ going' = going \cup {p}
    /\ \/ stored' = stored \ {p} /\ UNCHANGED <<left, mishaps>>
       \/ /\ Raises /\ p \in stored
          /\ left' = left \cup {p}
          /\ UNCHANGED stored
    /\ UNCHANGED <<now, rows, quotaVars, pc, code, late, lost, leaked, torn>>

WithdrawRow(p) ==
    /\ p \in going
    /\ rows' = rows \ {p}
    /\ going' = going \ {p}
    /\ UNCHANGED <<now, quotaVars, pc, code, stored, mishaps, ghostVars>>

\* The deletion of the row raised: the row stays, without its file.
WithdrawRowRaises(p) ==
    /\ p \in going
    /\ Raises
    /\ going' = going \ {p}
    /\ torn' = torn \cup {p}
    /\ UNCHANGED <<now, rows, quotaVars, pc, code, stored, late, lost, leaked,
                   left>>

Lapse ==
    /\ LapseAll
    /\ UNCHANGED <<now, rows, expires, qpc, qnow, shareVars, mishaps,
                   ghostVars>>

\* A file that is being saved may stay in part.
Crash ==
    /\ mishaps < MaxMishaps
    /\ mishaps' = mishaps + 1
    /\ pc' = [p \in Requests |-> IF pc[p] = "idle" THEN "idle" ELSE "over"]
    /\ lost' = lost \cup {p \in Requests : pc[p] \notin {"idle", "over"}}
    /\ torn' = torn \cup going
    /\ going' = {}
    /\ \E S \in SUBSET {p \in Requests : pc[p] = "saving"} :
          stored' = stored \cup S
    /\ UNCHANGED <<now, rows, quotaVars, code, late, leaked, left>>

Request(p) ==
    \/ Arrive(p)
    \/ Reserve(p)
    \/ Deny(p)
    \/ Draw(p)
    \/ RejectLifetime(p)
    \/ Save(p)
    \/ SaveRaises(p)
    \/ Create(p)
    \/ CreateRaises(p)
    \/ Rollback(p)
    \/ RollbackRaises(p)
    \/ Release(p)
    \/ ReleaseRaises(p)
    \/ WithdrawFile(p)
    \/ WithdrawRow(p)
    \/ WithdrawRowRaises(p)

Next ==
    \/ Tick
    \/ \E p \in Requests : Request(p)
    \/ Lapse
    \/ Crash

Spec == Init /\ [][Next]_vars

\* Time passes and the expiry task runs; no request has to go on.
FairSpec == Spec /\ WF_vars(Tick) /\ WF_vars(Lapse)

-----------------------------------------------------------------------------
(* Properties that hold.                                                   *)

\* Every variable has its type and every row has a code.
TypeOK ==
    /\ QuotaTypeOK
    /\ pc \in [Requests -> PcStates]
    /\ code \in [Requests -> Codes \cup {NoCode}]
    /\ \A p \in rows : code[p] \in Codes
    /\ stored \subseteq Requests
    /\ mishaps \in Nat
    /\ late \subseteq Requests
    /\ lost \subseteq Requests
    /\ going \subseteq rows
    /\ leaked \subseteq Requests
    /\ left \subseteq Requests
    /\ torn \subseteq Requests

\* The quota: the bytes of the rows that were inserted in time and of the
\* reservations in force never exceed the limit, however the statements of
\* concurrent uploads interleave and whatever a crash leaves behind.  A row
\* inserted after its reservation lapsed (late) may exceed it: the handler
\* does not look at the quota again.
QuotaInv ==
    Limit > 0 => Bytes((rows \ late) \cup Live(now)) <= Limit

\* A request that has answered holds no capacity, unless a crash cut it short
\* or the release itself raised, whichever of its other steps failed.
HeldInv ==
    \A p \in resv : pc[p] \in {"idle", "over"} => p \in lost

\* A file without a row belongs to a request that is going to insert the row
\* or to delete the file, or to one that a crash or a failed rollback ended, or
\* it is one the expiry task could not delete; the docstring of
\* rollback_saved_file leaves the second to the expiry task, which goes by rows
\* and never finds it.  And the row of a file share has its file, except while
\* its deletion is between the two, or was stopped there.
FilesMatchRows ==
    /\ \A p \in stored \ rows :
          pc[p] \in {"creating", "rollback"} \/ p \in lost \cup leaked \cup left
    /\ \A p \in rows : p \in Texts \/ p \in stored \/ p \in going \cup torn

\* Two rows never have the same code, although a code is checked against the
\* table long before its row is inserted.
CodesUnique == \A p, q \in rows : code[p] = code[q] => p = q

\* Capacity comes back: every reservation disappears, even that of a request
\* that stalls or crashed.
CapacityReturns == \A p \in Requests : p \in resv ~> p \notin resv
=============================================================================
