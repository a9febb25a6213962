--------------------------- MODULE ShareLifecycle ---------------------------
(***************************************************************************)
(* The life of a published share: the FileCodes row and the stored file it *)
(* names, as retrieval requests, administrators and the expiry task use    *)
(* them.                                                                   *)
(*                                                                         *)
(* The server is one asyncio process over a SQL database.  A statement is  *)
(* atomic and a handler can be interleaved with any other at each of its   *)
(* awaits, so every statement and every call of the storage is an action.  *)
(* A crash forgets the handlers and keeps rows and files; a statement that *)
(* raises changes nothing and ends what its handler was doing.             *)
(***************************************************************************)
EXTENDS Integers, FiniteSets

CONSTANTS Shares,       \* identities of rows; a primary key is never reused
          Texts,        \* shares whose content is in the row
          Refs,         \* shares that refer to a file of the NAS directory
          Readers,      \* retrieval requests in flight
          Admins,       \* administration requests in flight
          NoTime,       \* the NULL of the column expired_at
          NoShare,      \* a request that is not about a share
          Lifetimes,    \* durations the styles minute, hour and day yield
          Day,          \* the lifetime given to the style count, and to extend
          MaxSave,      \* settings.max_save_seconds
          DirectLinks,  \* TRUE iff the backend answers URLs of its own
          StorageFails, \* TRUE iff deleting a stored file may raise
          AdminOps,     \* what administrators do in this instance
          MaxTime, MaxCount, MaxUses,      \* bounds of the instance
          MaxMishaps    \* crashes, and statements of the database that raise

Ops == {"rename", "extend", "permanent", "reset", "edit", "delete"}

ASSUME ShareConstants ==
    /\ Texts \subseteq Shares
    /\ Refs \subseteq Shares
    /\ NoShare \notin Shares
    /\ NoTime \notin Int
    /\ Lifetimes \subseteq Nat
    /\ Day \in Nat
    /\ MaxSave \in Nat
    /\ DirectLinks \in BOOLEAN
    /\ StorageFails \in BOOLEAN
    /\ AdminOps \subseteq Ops
    /\ MaxTime \in Nat
    /\ MaxCount \in Nat
    /\ MaxUses \in Nat
    /\ MaxMishaps \in Nat

VARIABLES
    now,       \* the clock
    born,      \* rows ever inserted
    live,      \* rows in the table
    count,     \* column expired_count
    used,      \* column used_count
    exp,       \* column expired_at
    stored,    \* shares whose file is in the storage
    rpc,       \* where each retrieval request is
    rshare,    \* the share it found
    rlink,     \* its answer carries a URL of the backend
    apc,       \* where each administration request is
    ashare,    \* the share it is about
    anew,      \* the row it is going to write
    asets,     \* it means to change expired_count
    sweep,     \* rows the expiry task read and has not come to
    doomed,    \* the row whose file it has just deleted
    mishaps,   \* crashes, and statements that raised
    taken,     \* history: retrievals granted per share
    cap,       \* history: retrievals granted or still allowed by the last limit
    stale,     \* history: shares a late write moved back to an older row
    revived,   \* history: shares written since the expiry task read them
    torn,      \* history: shares whose deletion stopped at the row
    left       \* history: shares whose file the expiry task could not delete

rowVars    == <<live, count, used, exp>>
readerVars == <<rpc, rshare, rlink>>
adminVars  == <<apc, ashare, anew, asets>>
sweepVars  == <<sweep, doomed>>
ghostVars  == <<taken, cap, stale, revived, torn, left>>
vars == <<now, born, rowVars, stored, readerVars, adminVars, sweepVars,
          mishaps, ghostVars>>

Times == Nat \cup {NoTime}
Row   == [count : Int, used : Nat, exp : Times]

ReaderStates == {"idle", "found", "consumed", "fresh", "served", "missed",
                 "raised"}
AdminStates  == {"idle", "editing", "deleting", "unlinked"}

-----------------------------------------------------------------------------
(* What the code computes from a row.                                      *)

HasFile(s) == s \notin Texts \cup Refs

\* FileCodes.is_expired
IsExpired(s) == /\ exp[s] # NoTime
                /\ \/ count[s] < 0 /\ exp[s] < now
                   \/ count[s] = 0

\* Fault, in no action: a use is granted at zero.
EligibleTwice(s) == \/ count[s] >= 0
                    \/ count[s] < 0 /\ exp[s] = NoTime
                    \/ count[s] < 0 /\ exp[s] # NoTime /\ exp[s] > now

\* The rows that the UPDATE of consume_file_usage accepts.
Eligible(s) == \/ count[s] > 0
               \/ count[s] < 0 /\ exp[s] = NoTime
               \/ count[s] < 0 /\ exp[s] # NoTime /\ exp[s] > now

\* The rows that the SELECT of delete_expire_files returns.
Lapsed(s) == \/ exp[s] # NoTime /\ exp[s] < now
             \/ count[s] = 0

\* get_expire_info: a limit of uses comes with a lifetime of one day.  The
\* forms of a text ask for a positive value; those of the resumable uploads
\* and of the NAS shares do not (0 stands for any duration that is over at
\* once), and a NAS share may name an unknown style.
Durations(s) == {l \in IF s \in Texts THEN Lifetimes ELSE Lifetimes \cup {0} :
                    l <= MaxSave}
Limits(s) == IF s \in Texts THEN 1..MaxCount ELSE -1..MaxCount

ExpireInfo(s) ==
    {[exp |-> now + d, count |-> -1] : d \in Durations(s)}
    \cup {[exp |-> now + Day, count |-> n] :
             n \in {m \in Limits(s) : Day <= MaxSave}}
    \cup {[exp |-> NoTime, count |-> -1]}
    \cup {[exp |-> now + Day, count |-> -1] : t \in Refs \cap {s}}

\* _extended_expiration
Extended(s) ==
    Day + (IF exp[s] # NoTime /\ exp[s] > now THEN exp[s] ELSE now)

\* The values an administrator may ask for; those of the form are bounded.
NewTimes(s)  == {exp[s], Extended(s), NoTime} \cup 0..MaxTime
NewCounts(s) == {count[s]} \cup -1..MaxCount

-----------------------------------------------------------------------------
Init ==
    /\ now = 0
    /\ born = {}
    /\ live = {}
    /\ count = [s \in Shares |-> -1]
    /\ used = [s \in Shares |-> 0]
    /\ exp = [s \in Shares |-> NoTime]
    /\ stored = {}
    /\ rpc = [r \in Readers |-> "idle"]
    /\ rshare = [r \in Readers |-> NoShare]
    /\ rlink = [r \in Readers |-> FALSE]
    /\ apc = [a \in Admins |-> "idle"]
    /\ ashare = [a \in Admins |-> NoShare]
    /\ anew = [a \in Admins |-> [count |-> -1, used |-> 0, exp |-> NoTime]]
    /\ asets = [a \in Admins |-> FALSE]
    /\ sweep = {}
    /\ doomed = {}
    /\ mishaps = 0
    /\ taken = [s \in Shares |-> 0]
    /\ cap = [s \in Shares |-> 0]
    /\ stale = {}
    /\ revived = {}
    /\ torn = {}
    /\ left = {}

\* A statement of the database raises.
Raises == mishaps < MaxMishaps /\ mishaps' = mishaps + 1

Tick ==
    /\ now < MaxTime
    /\ now' = now + 1
    /\ UNCHANGED <<born, rowVars, stored, readerVars, adminVars, sweepVars,
                   mishaps, ghostVars>>

\* FileCodes.create at the end of an upload: the file is already stored.
Publish(s) ==
    /\ s \notin born
    /\ \E e \in ExpireInfo(s) :
          /\ exp' = [exp EXCEPT ![s] = e.exp]
          /\ count' = [count EXCEPT ![s] = e.count]
          /\ cap' = [cap EXCEPT ![s] = e.count]
    /\ used' = [used EXCEPT ![s] = 0]
    /\ born' = born \cup {s}
    /\ live' = live \cup {s}
    /\ stored' = IF HasFile(s) THEN stored \cup {s} ELSE stored
    /\ UNCHANGED <<now, readerVars, adminVars, sweepVars, mishaps, taken,
                   stale, revived, torn, left>>

-----------------------------------------------------------------------------
(* Retrieval: GET and POST /share/select, GET /share/download.             *)

\* get_code_file_by_code.  A POST for a file that has a limit, or that the
\* backend serves through this server, answers the download URL and changes
\* nothing; for an unlimited file it takes the backend's own URL.
Lookup(r, s) ==
    /\ rpc[r] = "idle"
    /\ s \in live
    /\ ~IsExpired(s)
    /\ taken[s] < MaxUses
    /\ \E link \in BOOLEAN :
          /\ link => DirectLinks /\ HasFile(s) /\ count[s] < 0
          /\ rlink' = [rlink EXCEPT ![r] = link]
    /\ rpc' = [rpc EXCEPT ![r] = "found"]
    /\ rshare' = [rshare EXCEPT ![r] = s]
    /\ UNCHANGED <<now, born, rowVars, stored, adminVars, sweepVars, mishaps,
                   ghostVars>>

\* The UPDATE of consume_file_usage found the row.
Consume(r) ==
    LET s == rshare[r] IN
    /\ rpc[r] = "found"
    /\ s \in live
    /\ Eligible(s)
    /\ count' = [count EXCEPT ![s] = IF @ > 0 THEN @ - 1 ELSE @]
    /\ used' = [used EXCEPT ![s] = @ + 1]
    /\ taken' = [taken EXCEPT ![s] = @ + 1]
    /\ rpc' = [rpc EXCEPT ![r] = "consumed"]
    /\ UNCHANGED <<now, born, live, exp, stored, rshare, rlink, adminVars,
                   sweepVars, mishaps, cap, stale, revived, torn, left>>

\* It found none: the answer is 404.
Refuse(r) ==
    /\ rpc[r] = "found"
    /\ ~(rshare[r] \in live /\ Eligible(rshare[r]))
    /\ rpc' = [rpc EXCEPT ![r] = "idle"]
    /\ rshare' = [rshare EXCEPT ![r] = NoShare]
    /\ rlink' = [rlink EXCEPT ![r] = FALSE]
    /\ UNCHANGED <<now, born, rowVars, stored, adminVars, sweepVars, mishaps,
                   ghostVars>>

\* refresh_from_db: raises when the row has gone; a text, a NAS file and a
\* URL are answered from the row, a stored file has yet to be opened.
Refresh(r) ==
    LET s == rshare[r] IN
    /\ rpc[r] = "consumed"
    /\ rpc' = [rpc EXCEPT ![r] = IF s \notin live THEN "missed"
                                 ELSE IF HasFile(s) /\ ~rlink[r] THEN "fresh"
                                 ELSE "served"]
    /\ UNCHANGED <<now, born, rowVars, stored, rshare, rlink, adminVars,
                   sweepVars, mishaps, ghostVars>>

\* The refresh itself raised, after the use was counted.
RefreshRaises(r) ==
    /\ rpc[r] = "consumed"
    /\ Raises
    /\ rpc' = [rpc EXCEPT ![r] = "raised"]
    /\ UNCHANGED <<now, born, rowVars, stored, rshare, rlink, adminVars,
                   sweepVars, ghostVars>>

\* get_file_response: 404 when the file has gone.
Serve(r) ==
    /\ rpc[r] = "fresh"
    /\ rpc' = [rpc EXCEPT ![r] = IF rshare[r] \in stored THEN "served"
                                 ELSE "missed"]
    /\ UNCHANGED <<now, born, rowVars, stored, rshare, rlink, adminVars,
                   sweepVars, mishaps, ghostVars>>

Leave(r) ==
    /\ rpc[r] \in {"served", "missed", "raised"}
    /\ rpc' = [rpc EXCEPT ![r] = "idle"]
    /\ rshare' = [rshare EXCEPT ![r] = NoShare]
    /\ rlink' = [rlink EXCEPT ![r] = FALSE]
    /\ UNCHANGED <<now, born, rowVars, stored, adminVars, sweepVars, mishaps,
                   ghostVars>>

-----------------------------------------------------------------------------
(* Administration.  A write is Model.save(): an UPDATE of every column by  *)
(* primary key, from the row as it was read.                               *)

\* What an operation makes of the row it read: the expiry and the limit.
Asks(s, op, e, c) ==
    \/ op = "rename"    /\ e = exp[s]      /\ c = count[s]
    \/ op = "extend"    /\ e = Extended(s) /\ c = count[s]
    \/ op = "permanent" /\ e = NoTime      /\ c = -1
    \/ op = "reset"     /\ e = exp[s]      /\ c \in 1..MaxCount
    \/ op = "edit"      /\ e \in {exp[s], NoTime} \cup 0..MaxTime

\* Whether the operation means to write expired_count.  The form of one share
\* leaves out a value that has not changed, the form of many does not.
SetsCount(s, op, c) ==
    CASE op \in {"permanent", "reset"} -> {TRUE}
      [] op \in {"rename", "extend"}   -> {FALSE}
      [] OTHER -> IF c = count[s] THEN BOOLEAN ELSE {TRUE}

AdminRead(a, s, op) ==
    /\ apc[a] = "idle"
    /\ s \in live
    /\ op \in AdminOps
    /\ \E e \in NewTimes(s), c \in NewCounts(s) : \E sets \in SetsCount(s, op, c) :
          /\ Asks(s, op, e, c)
          /\ e # NoTime => e <= MaxTime + Day   \* a bound
          /\ anew' = [anew EXCEPT ![a] = [count |-> c, used |-> used[s],
                                          exp |-> e]]
          /\ asets' = [asets EXCEPT ![a] = sets]
    /\ apc' = [apc EXCEPT ![a] = "editing"]
    /\ ashare' = [ashare EXCEPT ![a] = s]
    /\ UNCHANGED <<now, born, rowVars, stored, readerVars, sweepVars, mishaps,
                   ghostVars>>

\* Fault, in no action: the request does not forget its share.
AdminIdleKeepsShare(a) ==
    /\ apc' = [apc EXCEPT ![a] = "idle"]
    /\ anew' = [anew EXCEPT ![a] = [count |-> -1, used |-> 0, exp |-> NoTime]]
    /\ asets' = [asets EXCEPT ![a] = FALSE]
    /\ UNCHANGED ashare
AdminIdle(a) ==
    /\ apc' = [apc EXCEPT ![a] = "idle"]
    /\ ashare' = [ashare EXCEPT ![a] = NoShare]
    /\ anew' = [anew EXCEPT ![a] = [count |-> -1, used |-> 0, exp |-> NoTime]]
    /\ asets' = [asets EXCEPT ![a] = FALSE]

\* The history of a write: the limit it sets, and whether it moved the
\* counters back to an older row.
Overwrites(a) == LET s == ashare[a] IN
    \/ anew[a].used # used[s]
    \/ ~asets[a] /\ anew[a].count # count[s]

AdminSave(a) ==
    LET s == ashare[a] IN
    /\ apc[a] = "editing"
    /\ s \in live
    /\ count' = [count EXCEPT ![s] = anew[a].count]
    /\ used' = [used EXCEPT ![s] = anew[a].used]
    /\ exp' = [exp EXCEPT ![s] = anew[a].exp]
    /\ cap' = IF asets[a] THEN [cap EXCEPT ![s] = taken[s] + anew[a].count]
              ELSE cap
    /\ stale' = IF Overwrites(a) THEN stale \cup {s} ELSE stale
    /\ revived' = revived \cup {s}
    /\ AdminIdle(a)
    /\ UNCHANGED <<now, born, live, stored, readerVars, sweepVars, mishaps,
                   taken, torn, left>>

\* Fault, in no action: save() inserts a row that is not there.
AdminSaveUpsert(a) ==
    LET s == ashare[a] IN
    /\ apc[a] = "editing"
    /\ s \notin live
    /\ live' = live \cup {s}
    /\ AdminIdle(a)
    /\ UNCHANGED <<now, born, count, used, exp, stored, readerVars, sweepVars,
                   mishaps, ghostVars>>

\* An UPDATE of a row that has been deleted changes nothing and says nothing.
AdminSaveNothing(a) ==
    /\ apc[a] = "editing"
    /\ ashare[a] \notin live
    /\ AdminIdle(a)
    /\ UNCHANGED <<now, born, rowVars, stored, readerVars, sweepVars, mishaps,
                   ghostVars>>

\* delete_file and delete_files: read, delete the file, delete the row.
AdminDelete(a, s) ==
    /\ apc[a] = "idle"
    /\ s \in live
    /\ "delete" \in AdminOps
    /\ apc' = [apc EXCEPT ![a] = "deleting"]
    /\ ashare' = [ashare EXCEPT ![a] = s]
    /\ UNCHANGED <<now, born, rowVars, stored, readerVars, anew, asets,
                   sweepVars, mishaps, ghostVars>>

AdminUnlink(a) ==
    /\ apc[a] = "deleting"
    /\ stored' = IF HasFile(ashare[a]) THEN stored \ {ashare[a]} ELSE stored
    /\ apc' = [apc EXCEPT ![a] = "unlinked"]
    /\ UNCHANGED <<now, born, rowVars, readerVars, ashare, anew, asets,
                   sweepVars, mishaps, ghostVars>>

\* The storage raised: the row is kept and the request reports the failure.
AdminUnlinkFails(a) ==
    /\ apc[a] = "deleting"
    /\ StorageFails /\ HasFile(ashare[a])
    /\ AdminIdle(a)
    /\ UNCHANGED <<now, born, rowVars, stored, readerVars, sweepVars, mishaps,
                   ghostVars>>

AdminDrop(a) ==
    /\ apc[a] = "unlinked"
    /\ live' = live \ {ashare[a]}
    /\ AdminIdle(a)
    /\ UNCHANGED <<now, born, count, used, exp, stored, readerVars, sweepVars,
                   mishaps, ghostVars>>

\* The deletion of its note or of its row raised: the row stays, without file.
AdminDropRaises(a) ==
    /\ apc[a] = "unlinked"
    /\ Raises
    /\ torn' = torn \cup (live \cap {ashare[a]})
    /\ AdminIdle(a)
    /\ UNCHANGED <<now, born, rowVars, stored, readerVars, sweepVars,
                   taken, cap, stale, revived, left>>

-----------------------------------------------------------------------------
(* The expiry task.                                                        *)

\* Fault, in no action: a share is taken at the instant of its expiry.
SweepScanAtExpiry ==
    /\ sweep = {} /\ doomed = {}
    /\ sweep' = {s \in live : \/ exp[s] # NoTime /\ exp[s] <= now
                              \/ count[s] = 0}
    /\ revived' = {}
    /\ UNCHANGED <<now, born, rowVars, stored, readerVars, adminVars, doomed,
                   mishaps, taken, cap, stale, torn, left>>
SweepScan ==
    /\ sweep = {} /\ doomed = {}
    /\ sweep' = {s \in live : Lapsed(s)}
    /\ revived' = {}
    /\ UNCHANGED <<now, born, rowVars, stored, readerVars, adminVars, doomed,
                   mishaps, taken, cap, stale, torn, left>>

\* Fault, in no action: the files of all rows read are deleted before the rows.
SweepUnlinkAll(s) ==
    /\ s \in sweep /\ doomed = {}
    /\ stored' = stored \ {t \in sweep : HasFile(t)}
    /\ sweep' = sweep \ {s}
    /\ doomed' = {s}
    /\ UNCHANGED <<now, born, rowVars, readerVars, adminVars, mishaps,
                   ghostVars>>
\* Fault, in no action: a row whose file cannot be deleted is skipped unmarked.
SweepUnlinkRetries(s) ==
    /\ s \in sweep /\ doomed = {}
    /\ sweep' = sweep \ {s}
    /\ \/ /\ stored' = IF HasFile(s) THEN stored \ {s} ELSE stored
          /\ doomed' = {s}
       \/ /\ StorageFails /\ HasFile(s)
          /\ UNCHANGED <<stored, doomed>>
    /\ UNCHANGED <<now, born, rowVars, readerVars, adminVars, mishaps,
                   ghostVars>>

\* A failure to delete the file is logged and the row is deleted all the same.
SweepUnlink(s) ==
    /\ s \in sweep /\ doomed = {}
    /\ \/ /\ stored' = IF HasFile(s) THEN stored \ {s} ELSE stored
          /\ UNCHANGED left
       \/ /\ StorageFails /\ HasFile(s)
          /\ left' = left \cup {s}
          /\ UNCHANGED stored
    /\ sweep' = sweep \ {s}
    /\ doomed' = {s}
    /\ UNCHANGED <<now, born, rowVars, readerVars, adminVars, mishaps, taken,
                   cap, stale, revived, torn>>

SweepDrop(s) ==
    /\ s \in doomed
    /\ live' = live \ {s}
    /\ doomed' = {}
    /\ UNCHANGED <<now, born, count, used, exp, stored, readerVars, adminVars,
                   sweep, mishaps, ghostVars>>

\* The deletion of the row raised, which is logged: the row stays, and keeps
\* its file only if that could not be deleted either.
SweepDropRaises(s) ==
    /\ s \in doomed
    /\ Raises
    /\ torn' = torn \cup (live \cap {s})
    /\ doomed' = {}
    /\ UNCHANGED <<now, born, rowVars, stored, readerVars, adminVars, sweep,
                   taken, cap, stale, revived, left>>

-----------------------------------------------------------------------------
BeingDeleted(s) ==
    \/ s \in doomed
    \/ \E a \in Admins : apc[a] = "unlinked" /\ ashare[a] = s

Crash ==
    /\ mishaps < MaxMishaps
    /\ mishaps' = mishaps + 1
    /\ rpc' = [r \in Readers |-> "idle"]
    /\ rshare' = [r \in Readers |-> NoShare]
    /\ rlink' = [r \in Readers |-> FALSE]
    /\ apc' = [a \in Admins |-> "idle"]
    /\ ashare' = [a \in Admins |-> NoShare]
    /\ anew' = [a \in Admins |-> [count |-> -1, used |-> 0, exp |-> NoTime]]
    /\ asets' = [a \in Admins |-> FALSE]
    /\ sweep' = {}
    /\ doomed' = {}
    /\ torn' = torn \cup {s \in live : BeingDeleted(s)}
    /\ UNCHANGED <<now, born, rowVars, stored, taken, cap, stale, revived,
                   left>>

ReaderNext(r) ==
    \/ \E s \in Shares : Lookup(r, s)
    \/ Consume(r)
    \/ Refuse(r)
    \/ Refresh(r)
    \/ RefreshRaises(r)
    \/ Serve(r)
    \/ Leave(r)

AdminNext(a) ==
    \/ \E s \in Shares, op \in AdminOps : AdminRead(a, s, op)
    \/ AdminSave(a)
    \/ AdminSaveNothing(a)
    \/ \E s \in Shares : AdminDelete(a, s)
    \/ AdminUnlink(a)
    \/ AdminUnlinkFails(a)
    \/ AdminDrop(a)
    \/ AdminDropRaises(a)

SweepNext ==
    \/ SweepScan
    \/ \E s \in Shares : SweepUnlink(s)
    \/ \E s \in Shares : SweepDrop(s)
    \/ \E s \in Shares : SweepDropRaises(s)

Next ==
    \/ Tick
    \/ \E s \in Shares : Publish(s)
    \/ \E r \in Readers : ReaderNext(r)
    \/ \E a \in Admins : AdminNext(a)
    \/ SweepNext
    \/ Crash

Spec == Init /\ [][Next]_vars

\* The expiry task is a loop that survives every exception; requests may stop.
FairSpec == Spec /\ WF_vars(SweepNext)

-----------------------------------------------------------------------------
(* Properties that hold.                                                   *)

\* Every variable has its type, a request that is under way is about a share
\* that was published, and an idle one holds none.
TypeOK ==
    /\ now \in Nat
    /\ mishaps \in Nat
    /\ born \subseteq Shares
    /\ live \subseteq born
    /\ count \in [Shares -> Int]
    /\ used \in [Shares -> Nat]
    /\ exp \in [Shares -> Times]
    /\ stored \subseteq born
    /\ rpc \in [Readers -> ReaderStates]
    /\ rshare \in [Readers -> Shares \cup {NoShare}]
    /\ rlink \in [Readers -> BOOLEAN]
    /\ \A r \in Readers : IF rpc[r] = "idle" THEN rshare[r] = NoShare
                          ELSE rshare[r] \in born
    /\ apc \in [Admins -> AdminStates]
    /\ ashare \in [Admins -> Shares \cup {NoShare}]
    /\ \A a \in Admins : IF apc[a] = "idle" THEN ashare[a] = NoShare
                         ELSE ashare[a] \in born
    /\ anew \in [Admins -> Row]
    /\ asets \in [Admins -> BOOLEAN]
    /\ sweep \subseteq born
    /\ doomed \subseteq born
    /\ \A s, t \in doomed : s = t
    /\ taken \in [Shares -> Nat]
    /\ \A s \in Shares \ born : taken[s] = 0
    /\ cap \in [Shares -> Int]
    /\ stale \subseteq Shares
    /\ revived \subseteq Shares
    /\ torn \subseteq Shares
    /\ left \subseteq Shares

\* consume_file_usage spends a limit exactly: as long as no late write moved
\* the row back, the retrievals granted and the retrievals left make up the
\* limit that was last set, and used_count is the number granted, whatever
\* requests and administrators interleave.
BudgetInv ==
    \A s \in born \ stale :
        /\ used[s] = taken[s]
        /\ count[s] >= 0 => taken[s] + count[s] = cap[s]

\* What the expiry task is about to delete is still expired when it comes to
\* it, however long after its SELECT, unless an administrator wrote the row.
SweepInv ==
    \A s \in (sweep \cup doomed) \cap live : s \in revived \/ Lapsed(s)

\* A row names a file that exists, except while a deletion is between its two
\* steps, or a crash or a statement that raised stopped one there.
FileInv ==
    \A s \in live : HasFile(s) =>
        s \in stored \/ BeingDeleted(s) \/ s \in torn

\* A retrieval that was counted and found nothing lost its share to a deletion,
\* done, under way, or stopped between the file and the row.
MissedInv ==
    \A r \in Readers : rpc[r] = "missed" =>
        \/ rshare[r] \notin live
        \/ BeingDeleted(rshare[r])
        \/ rshare[r] \in torn

\* Files are deleted before their rows, so neither a crash nor a race nor a
\* statement that raises leaves a file that no row names: only a failure of the
\* storage under the expiry task does.
NoOrphanFile == stored \subseteq live \cup left

\* Rows and files match, however deletions, failures and crashes interleave.
FilesMatchRows == FileInv /\ NoOrphanFile

\* A deleted share never comes back, not even by the save() of a handler that
\* read it before.
GoneStaysGone == [][born \ live \subseteq born' \ live']_vars

\* Readers, administrators, the expiry task and crashes together do no more
\* than DownloadBudget allows: no use is granted at zero or of a deleted share,
\* a grant spends exactly one use, and only a late write of an older row
\* (models.py: save() of every column) changes what is left otherwise.
Abstract == INSTANCE DownloadBudget
            WITH published <- born, open <- live, left <- count,
                 granted <- taken, limit <- cap, slipped <- stale
RefinesBudget == Abstract!Spec

\* The expiry task removes every share that stays expired, across crashes,
\* failures of the storage and statements that raise.
ExpiredRemoved ==
    \A s \in Shares : (s \in live /\ Lapsed(s)) ~> ~(s \in live /\ Lapsed(s))

-----------------------------------------------------------------------------
(* A statement of the documents that the code does not keep.               *)

\* docs/guide/share.md:115: a limited share is retrieved at most that often.
DownloadsWithinLimit ==
    \A s \in born : count[s] >= 0 => taken[s] + count[s] <= cap[s]
=============================================================================
