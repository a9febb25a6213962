---------------------------- MODULE AdminRecords ----------------------------
(***************************************************************************)
(* What the administrators' requests read, change and write back whole: in *)
(* the table keyvalue the settings, the activity log, the view presets and *)
(* the note and tags of a file; in memory the copy of the settings.        *)
(*                                                                         *)
(* Settings, log and presets are written under keyvalue_write_lock, an     *)
(* asyncio.Lock.  The log and the presets are also read under it; the      *)
(* settings are taken from memory before, and the note and tags do without *)
(* it, as does the login that renews an old hash of the password.  This is *)
(* the server with one worker that the documentation asks for.             *)
(***************************************************************************)
EXTENDS Integers, FiniteSets

CONSTANTS Updates,     \* PATCH /admin/config/update, each of a field of its own
          Passwords,   \* those that change the password too
          Logins,      \* POST /admin/login with the right password
          Saves,       \* saving a view preset, which is named by the request
          Drops,       \* deleting a view preset
          Target,      \* the preset that each of them deletes
          Notes,       \* writing the note of the file
          Tags,        \* writing its tags
          Deletes,     \* deleting the file
          First,       \* the password and the secret of the initialisation
          None,        \* no note, no tags, nobody
          MaxLog,      \* MAX_ADMIN_ACTIVITIES
          MaxPresets,  \* MAX_VIEW_PRESETS
          MaxRequests, \* how many requests are made
          MaxMishaps   \* bounds of the instance: crashes, statements that raise

Writers  == Updates \cup Logins       \* of the settings
Meta     == Notes \cup Tags
Requests == Writers \cup Saves \cup Drops \cup Meta \cup Deletes

ASSUME RecordsConstants ==
    /\ Passwords \subseteq Updates
    /\ Updates \cap Logins = {}
    /\ Notes \cap Tags = {}
    /\ Writers \cap (Saves \cup Drops \cup Meta \cup Deletes) = {}
    /\ Saves \cap Drops = {}
    /\ (Saves \cup Drops) \cap (Meta \cup Deletes) = {}
    /\ Meta \cap Deletes = {}
    /\ Target \in [Drops -> Saves]
    /\ First \notin Updates
    /\ None \notin Requests
    /\ MaxLog \in Nat \ {0}
    /\ MaxPresets \in Nat
    /\ MaxRequests \in Nat
    /\ MaxMishaps \in Nat

VARIABLES
    row,       \* the settings in the table
    mem,       \* the settings in memory
    lock,      \* who holds keyvalue_write_lock
    log,       \* the activity log
    presets,   \* the view presets
    live,      \* the row of the file is there
    meta,      \* its note and tags
    pc,        \* where each request is
    config,    \* the settings a request is going to write
    copy,      \* the log or the presets it has read
    next,      \* the note and tags it is going to write
    mishaps,
    answered,  \* history: requests past their write (and, of settings, reload)
    recorded,  \* history: requests that wrote the log
    wanted,    \* history: presets saved and not deleted since
    crossed,   \* history: settings writers that were under way together
    before,    \* history: secrets in use when a request began
    mixed,     \* history: requests on the file that were under way together
    torn,      \* history: a deletion stopped between its two steps
    expired    \* history: the expiry task has deleted the row of the file

settingsVars == <<row, mem, config, crossed, before>>
listVars     == <<log, presets, copy, recorded, wanted>>
fileVars     == <<live, meta, next, mixed, torn, expired>>
vars == <<settingsVars, listVars, fileVars, lock, pc, mishaps, answered>>

Settings == [opts : SUBSET Updates, password : Updates \cup {First},
             secret : Updates \cup {First}, weak : BOOLEAN]
MetaRows == [there : BOOLEAN, note : Notes \cup {None}, tags : Tags \cup {None}]
NoMeta   == [there |-> FALSE, note |-> None, tags |-> None]
Origin   == [opts |-> {}, password |-> First, secret |-> First, weak |-> TRUE]

\* Waiting for the lock or holding it, and the other steps.
WaitStates == {"queueing", "presets", "log"}
HoldStates == {"writing", "listing", "saving", "reading", "logging"}
FreeStates == {"idle", "reloading", "rehashing", "renewing", "merging",
               "storing", "forgetting", "deleting", "over"}

Goto(r, l)  == pc' = [pc EXCEPT ![r] = l]
Begun       == {r \in Requests : pc[r] # "idle"}
MayBegin(r) == pc[r] = "idle" /\ Cardinality(Begun) < MaxRequests
Contended   == lock # None \/ \E r \in Requests : pc[r] \in WaitStates
Writing(r)  == pc[r] \in {"queueing", "writing", "reloading", "rehashing",
                          "renewing"}
OnFile(r)   == pc[r] \in {"merging", "storing", "forgetting", "deleting"}

\* A request that begins beside others of its kind.
Crosses(r) == LET others == {q \in Requests : Writing(q)} IN
    crossed' = IF others = {} THEN crossed ELSE crossed \cup {r} \cup others
Mixes(r) == LET others == {q \in Requests : OnFile(q)} IN
    mixed' = IF others = {} THEN mixed ELSE mixed \cup {r} \cup others

-----------------------------------------------------------------------------
Init ==
    /\ row = Origin
    /\ mem = Origin
    /\ lock = None
    /\ log = {}
    /\ presets = {}
    /\ live = TRUE
    /\ meta = NoMeta
    /\ pc = [r \in Requests |-> "idle"]
    /\ config = [r \in Writers |-> Origin]
    /\ copy = [r \in Requests |-> {}]
    /\ next = [r \in Meta |-> NoMeta]
    /\ mishaps = 0
    /\ answered = {}
    /\ recorded = {}
    /\ wanted = {}
    /\ crossed = {}
    /\ before = [r \in Updates |-> {}]
    /\ mixed = {}
    /\ torn = FALSE
    /\ expired = FALSE

-----------------------------------------------------------------------------
(* Settings.                                                               *)

\* Fault, in no action: the settings that the request does not name are reset.
ChangedAlone(u, c) ==
    [opts     |-> {u},
     password |-> IF u \in Passwords THEN u ELSE c.password,
     secret   |-> IF u \in Passwords THEN u ELSE c.secret,
     weak     |-> c.weak /\ u \notin Passwords]

\* A new password comes with a new secret for the signatures of the sessions.
Changed(u, c) ==
    [opts     |-> c.opts \cup {u},
     password |-> IF u \in Passwords THEN u ELSE c.password,
     secret   |-> IF u \in Passwords THEN u ELSE c.secret,
     weak     |-> c.weak /\ u \notin Passwords]

\* update_config makes the whole settings from those in memory.  It goes on to
\* its write at once when nobody holds the lock or waits for it.
UpdateBegin(u) ==
    /\ MayBegin(u)
    /\ config' = [config EXCEPT ![u] = Changed(u, mem)]
    /\ before' = [before EXCEPT ![u] = {row.secret, mem.secret}]
    /\ Crosses(u)
    /\ IF Contended THEN Goto(u, "queueing") /\ UNCHANGED lock
       ELSE Goto(u, "writing") /\ lock' = u
    /\ UNCHANGED <<row, mem, listVars, fileVars, mishaps, answered>>

UpdateWrite(u) ==
    /\ pc[u] = "writing"
    /\ row' = config[u]
    /\ lock' = None
    /\ Goto(u, "reloading")
    /\ UNCHANGED <<mem, config, crossed, before, listVars, fileVars, mishaps,
                   answered>>

\* refresh_settings(force=True); the activity is recorded next.
Reload(u) ==
    /\ pc[u] = "reloading"
    /\ mem' = row
    /\ answered' = answered \cup {u}
    /\ Goto(u, "log")
    /\ UNCHANGED <<row, config, crossed, before, listVars, fileVars, lock,
                   mishaps>>

\* refresh_settings of the middleware and of the tasks, when the two seconds
\* that the copy is good for have passed.
Refresh ==
    /\ mem # row
    /\ mem' = row
    /\ UNCHANGED <<row, config, crossed, before, listVars, fileVars, lock, pc,
                   mishaps, answered>>

\* login verifies the password against memory.  One that was hashed the old
\* way is hashed anew: the settings are read, changed and saved without lock.
LoginBegin(l) ==
    /\ MayBegin(l)
    /\ IF mem.weak
       THEN /\ config' = [config EXCEPT ![l] = mem]
            /\ Crosses(l)
            /\ Goto(l, "rehashing")
            /\ UNCHANGED answered
       ELSE /\ answered' = answered \cup {l}
            /\ Goto(l, "over")
            /\ UNCHANGED <<config, crossed>>
    /\ UNCHANGED <<row, mem, before, listVars, fileVars, lock, mishaps>>

LoginRead(l) ==
    /\ pc[l] = "rehashing"
    /\ config' = [config EXCEPT ![l] =
                     [row EXCEPT !.password = config[l].password,
                                 !.weak = FALSE]]
    /\ Goto(l, "renewing")
    /\ UNCHANGED <<row, mem, crossed, before, listVars, fileVars, lock,
                   mishaps, answered>>

LoginWrite(l) ==
    /\ pc[l] = "renewing"
    /\ row' = config[l]
    /\ mem' = [mem EXCEPT !.password = config[l].password, !.weak = FALSE]
    /\ answered' = answered \cup {l}
    /\ Goto(l, "over")
    /\ UNCHANGED <<config, crossed, before, listVars, fileVars, lock, mishaps>>

-----------------------------------------------------------------------------
(* The lock, the presets and the activity log.                             *)

HoldsFor(l) == IF l = "queueing" THEN "writing"
               ELSE IF l = "presets" THEN "listing"
               ELSE "reading"

\* Fault, in no action: the lock is not taken.
AcquireNothing(r) ==
    /\ pc[r] \in WaitStates
    /\ Goto(r, HoldsFor(pc[r]))
    /\ UNCHANGED <<settingsVars, listVars, fileVars, lock, mishaps, answered>>

Acquire(r) ==
    /\ pc[r] \in WaitStates
    /\ lock = None
    /\ lock' = r
    /\ Goto(r, HoldsFor(pc[r]))
    /\ UNCHANGED <<settingsVars, listVars, fileVars, mishaps, answered>>

PresetBegin(r) ==
    /\ r \in Saves \cup Drops
    /\ MayBegin(r)
    /\ Goto(r, "presets")
    /\ UNCHANGED <<settingsVars, listVars, fileVars, lock, mishaps, answered>>

\* Fault, in no action: an error answer keeps the lock.
PresetReadKeeps(r) ==
    /\ pc[r] = "listing"
    /\ copy' = [copy EXCEPT ![r] = presets]
    /\ Goto(r, IF r \in Drops /\ Target[r] \notin presets THEN "over" ELSE "saving")
    /\ UNCHANGED <<settingsVars, log, presets, recorded, wanted, fileVars, lock,
                   mishaps, answered>>

\* Reading the list under the lock.  It may be full, or lack the preset that is
\* to be deleted: 400 or 404, and the lock is given back.
PresetRead(r) ==
    /\ pc[r] = "listing"
    /\ copy' = [copy EXCEPT ![r] = presets]
    /\ IF \/ r \in Saves /\ r \notin presets /\ Cardinality(presets) >= MaxPresets
          \/ r \in Drops /\ Target[r] \notin presets
       THEN Goto(r, "over") /\ lock' = None
       ELSE Goto(r, "saving") /\ UNCHANGED lock
    /\ UNCHANGED <<settingsVars, log, presets, recorded, wanted, fileVars,
                   mishaps, answered>>

WithPreset(r, s) == IF r \in Saves THEN s \cup {r} ELSE s \ {Target[r]}

PresetWrite(r) ==
    /\ pc[r] = "saving"
    /\ presets' = WithPreset(r, copy[r])
    /\ wanted' = WithPreset(r, wanted)
    /\ lock' = None
    /\ answered' = answered \cup {r}
    /\ Goto(r, "log")
    /\ UNCHANGED <<settingsVars, log, copy, recorded, fileVars, mishaps>>

\* record_admin_activity swallows every exception.
LogRead(r) ==
    /\ pc[r] = "reading"
    /\ copy' = [copy EXCEPT ![r] = log]
    /\ Goto(r, "logging")
    /\ UNCHANGED <<settingsVars, log, presets, recorded, wanted, fileVars,
                   lock, mishaps, answered>>

\* The new activity comes first and the last of a full list falls out; which
\* one that is depends on the times, which are read before the lock is taken.
LogWrite(r) ==
    /\ pc[r] = "logging"
    /\ \E lost \in SUBSET copy[r] :
          /\ Cardinality(lost) = IF Cardinality(copy[r]) < MaxLog THEN 0 ELSE 1
          /\ log' = (copy[r] \ lost) \cup {r}
    /\ recorded' = recorded \cup {r}
    /\ lock' = None
    /\ Goto(r, "over")
    /\ UNCHANGED <<settingsVars, presets, copy, wanted, fileVars, mishaps,
                   answered>>

LogFails(r) ==
    /\ pc[r] \in {"reading", "logging"}
    /\ lock' = None
    /\ Goto(r, "over")
    /\ UNCHANGED <<settingsVars, listVars, fileVars, mishaps, answered>>

-----------------------------------------------------------------------------
(* Note and tags of a file, and its deletion.                              *)

\* update_file_metadata: 404 without the file ...
MetaBegin(r) ==
    /\ r \in Meta /\ MayBegin(r)
    /\ IF live THEN Goto(r, "merging") /\ Mixes(r)
       ELSE Goto(r, "over") /\ UNCHANGED mixed
    /\ UNCHANGED <<settingsVars, listVars, live, meta, next, torn, expired,
                   lock, mishaps, answered>>

\* Fault, in no action: what the request does not set is cleared.
MetaReadNothing(r) ==
    /\ pc[r] = "merging"
    /\ next' = [next EXCEPT ![r] =
           [there |-> TRUE, note |-> IF r \in Notes THEN r ELSE None,
            tags |-> IF r \in Tags THEN r ELSE None]]
    /\ Goto(r, "storing")
    /\ UNCHANGED <<settingsVars, listVars, live, meta, mixed, torn, expired,
                   lock, mishaps, answered>>

\* ... then note and tags are read, one of them is replaced, ...
MetaRead(r) ==
    /\ pc[r] = "merging"
    /\ next' = [next EXCEPT ![r] =
           [there |-> TRUE, note |-> IF r \in Notes THEN r ELSE meta.note,
            tags |-> IF r \in Tags THEN r ELSE meta.tags]]
    /\ Goto(r, "storing")
    /\ UNCHANGED <<settingsVars, listVars, live, meta, mixed, torn, expired,
                   lock, mishaps, answered>>

\* ... and both are written.
MetaWrite(r) ==
    /\ pc[r] = "storing"
    /\ meta' = next[r]
    /\ answered' = answered \cup {r}
    /\ Goto(r, "log")
    /\ UNCHANGED <<settingsVars, listVars, live, next, mixed, torn, expired,
                   lock, mishaps>>

\* _delete_file_code, after the stored file: note and tags, then the row.
DeleteBegin(d) ==
    /\ MayBegin(d)
    /\ IF live THEN Goto(d, "forgetting") /\ Mixes(d)
       ELSE Goto(d, "over") /\ UNCHANGED mixed
    /\ UNCHANGED <<settingsVars, listVars, live, meta, next, torn, expired,
                   lock, mishaps, answered>>

\* Fault, in no action: note and tags are left in the table.
ForgetNothing(d) ==
    /\ pc[d] = "forgetting"
    /\ Goto(d, "deleting")
    /\ UNCHANGED <<settingsVars, listVars, live, meta, next, mixed, torn,
                   expired, lock, mishaps, answered>>

Forget(d) ==
    /\ pc[d] = "forgetting"
    /\ meta' = NoMeta
    /\ Goto(d, "deleting")
    /\ UNCHANGED <<settingsVars, listVars, live, next, mixed, torn, expired,
                   lock, mishaps, answered>>

DeleteRow(d) ==
    /\ pc[d] = "deleting"
    /\ live' = FALSE
    /\ answered' = answered \cup {d}
    /\ Goto(d, "log")
    /\ UNCHANGED <<settingsVars, listVars, meta, next, mixed, torn, expired,
                   lock, mishaps>>

\* The expiry task deletes the row, in the end, and knows of no note or tags.
Expire ==
    /\ live
    /\ live' = FALSE
    /\ expired' = TRUE
    /\ UNCHANGED <<settingsVars, listVars, meta, next, mixed, torn, lock, pc,
                   mishaps, answered>>

-----------------------------------------------------------------------------
\* A crash ends every request; the start reads the settings.
Crash ==
    /\ mishaps < MaxMishaps
    /\ mishaps' = mishaps + 1
    /\ mem' = row
    /\ lock' = None
    /\ pc' = [r \in Requests |-> IF pc[r] = "idle" THEN "idle" ELSE "over"]
    /\ torn' = (torn \/ \E r \in Requests : pc[r] = "deleting")
    /\ UNCHANGED <<row, config, crossed, before, listVars, live, meta, next,
                   mixed, expired, answered>>

\* A statement raises: the request ends with an error, and with it the block
\* that has the lock.  A login goes on without the new hash.
StatementRaises(r) ==
    /\ mishaps < MaxMishaps
    /\ mishaps' = mishaps + 1
    /\ pc[r] \in {"writing", "reloading", "rehashing", "renewing", "listing",
                  "saving", "merging", "storing", "forgetting", "deleting"}
    /\ lock' = IF lock = r THEN None ELSE lock
    /\ answered' = IF r \in Logins THEN answered \cup {r} ELSE answered
    /\ torn' = (torn \/ pc[r] = "deleting")
    /\ Goto(r, "over")
    /\ UNCHANGED <<settingsVars, listVars, live, meta, next, mixed, expired>>

Begin(r) ==
    \/ r \in Updates /\ UpdateBegin(r)
    \/ r \in Logins /\ LoginBegin(r)
    \/ PresetBegin(r)
    \/ r \in Meta /\ MetaBegin(r)
    \/ r \in Deletes /\ DeleteBegin(r)

\* A step of a request that has begun.
Step(r) ==
    \/ r \in Updates /\ (UpdateWrite(r) \/ Reload(r))
    \/ r \in Logins /\ (LoginRead(r) \/ LoginWrite(r))
    \/ Acquire(r)
    \/ PresetRead(r)
    \/ PresetWrite(r)
    \/ LogRead(r)
    \/ LogWrite(r)
    \/ LogFails(r)
    \/ r \in Meta /\ (MetaRead(r) \/ MetaWrite(r))
    \/ r \in Deletes /\ (Forget(r) \/ DeleteRow(r))

Next ==
    \/ \E r \in Requests : Begin(r) \/ Step(r) \/ StatementRaises(r)
    \/ Refresh
    \/ Expire
    \/ Crash

Spec == Init /\ [][Next]_vars

\* The event loop runs every handler on.
FairSpec == Spec /\ \A r \in Requests : WF_vars(Step(r))

-----------------------------------------------------------------------------
(* Properties that hold.                                                   *)

\* Every variable has its type; who has the lock is in a section that it
\* guards, and nobody else is.
TypeOK ==
    /\ row \in Settings
    /\ mem \in Settings
    /\ log \subseteq Requests
    /\ presets \subseteq Saves
    /\ live \in BOOLEAN
    /\ meta \in MetaRows
    /\ pc \in [Requests -> WaitStates \cup HoldStates \cup FreeStates]
    /\ lock \in Requests \cup {None}
    /\ \A r \in Requests : lock = r <=> pc[r] \in HoldStates
    /\ config \in [Writers -> Settings]
    /\ copy \in [Requests -> SUBSET Requests]
    /\ next \in [Meta -> MetaRows]
    /\ mishaps \in Nat
    /\ answered \subseteq Requests
    /\ recorded \subseteq Requests
    /\ wanted \subseteq Saves
    /\ crossed \subseteq Writers
    /\ before \in [Updates -> SUBSET (Updates \cup {First})]
    /\ mixed \subseteq Meta \cup Deletes
    /\ torn \in BOOLEAN
    /\ expired \in BOOLEAN

\* An answered change of a setting stays in the table and in memory, unless the
\* request crossed another one that writes the settings.
UpdatesKept ==
    \A u \in Updates \cap answered :
        u \in crossed \/ (u \in row.opts /\ u \in mem.opts)

\* Once a change of the password was answered, no session signed before it is
\* accepted any more, with the same exception.
OldSessionsEnd ==
    \A u \in Passwords \cap answered : u \in crossed \/ mem.secret \notin before[u]

\* What the server goes by is what the table says when no writer of the
\* settings is under way, with the same exception, and but for an update that
\* ended without an answer.
Unread == \E u \in Updates \ answered : pc[u] = "over"
MemoryCurrent ==
    (\A r \in Requests : ~Writing(r)) => crossed # {} \/ Unread \/ mem = row

\* The settings: what was answered is in force, whatever requests overlap.
SettingsKept == UpdatesKept /\ OldSessionsEnd /\ MemoryCurrent

\* Presets are exactly those saved and not deleted since, in whatever order the
\* requests came, and never more than the limit.
PresetsExact == presets = wanted /\ Cardinality(presets) <= MaxPresets

\* No activity is lost to another that was recorded at the same time: the log
\* has as many as it can hold of those that were recorded.
LogComplete ==
    /\ log \subseteq recorded
    /\ recorded = log \/ Cardinality(log) >= MaxLog
    /\ Cardinality(log) <= MaxLog

\* The lists that are read and written under the lock lose no change.
ListsKept == PresetsExact /\ LogComplete

\* What overlapping requests do to those lists is what they would have done one
\* after the other, each at the moment of its write: none brings back what went
\* since it read the list, forgets what came, or passes the limit for it.
Atomic == INSTANCE AtomicLists WITH made <- answered \cap (Saves \cup Drops),
                                    told <- recorded
ListsAtomic == Atomic!Spec

\* A note is not erased by a change of the tags, nor tags by a change of the
\* note, while the file is there, except by a request that was under way at
\* the same time or a deletion that was stopped before the row.
MetaKept ==
    \A r \in Meta \cap answered :
        \/ ~live \/ torn \/ r \in mixed
        \/ \E d \in Deletes : pc[d] = "deleting"
        \/ IF r \in Notes THEN meta.note # None ELSE meta.tags # None

\* A file that an administrator deletes leaves no note and no tags, except by
\* requests that were on it at the same time.  A file that expires does: nothing
\* ever deletes its row of the table keyvalue.
NoOrphanMeta == meta.there /\ ~live => mixed # {} \/ expired

\* The note and the tags of a file stay while it does, and a deletion by an
\* administrator takes them along; the expiry task does not.
MetaInv == MetaKept /\ NoOrphanMeta

\* Every request ends: whoever waits for the lock gets it, whatever way the
\* others took out of it, an error among them.  Each request is made once, so
\* that in the end none is under way.
RequestsEnd == <>[](\A r \in Requests : pc[r] \in {"idle", "over"})

-----------------------------------------------------------------------------
(* A statement of a comment that the code does not keep.                   *)

\* config_service.py:26-27: the lock keeps concurrent changes of the settings
\* from overwriting each other.
NoLostUpdate == \A u \in Updates \cap answered : u \in row.opts
=============================================================================
