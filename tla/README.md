# FileCodeBox in TLA+

A verification development of the server of FileCodeBox: an asyncio (FastAPI)
process that stores texts and files, hands out a retrieval code for each, and
deletes them when a time or a number of retrievals is used up.  The modules are
translated from the Python source under `src/`; line numbers below refer to it,
and `PROJECT.json` maps every definition to the lines it stands for.

The server is one process, but for `Startup`, where several workers share a database and a
lock file, and for the two places where a thread of the pool matters (`DownloadGate`,
`Startup`). A handler runs without interruption between two of its `await`s and may be
interleaved with any other handler at each of them; a SQL statement is atomic, and one that
raises changes nothing; no handler opens a transaction around a read and the write that
depends on it, except where this file says so. So, in every module, one SQL statement or one
call of the storage is one action. A crash forgets all handlers and keeps the tables and the
files.

## 1. Inventory

| Part | State it keeps | Operations | What is hard, and what makes it correct |
|---|---|---|---|
| Shares (`apps/base/views.py`, `models.py`, `tasks.py`, `apps/admin/services.py`) | `FileCodes` rows: `expired_at`, `expired_count`, `used_count`; one stored file per row | publish, look up, consume a use, serve; rename, edit, extend, make permanent, reset the limit, delete; expiry task | handlers write back whole rows they read long before (`save()` without `update_fields`); the expiry task works from a snapshot; file and row are deleted in two steps. A limit is spent exactly, nothing is deleted that is not expired, nothing deleted comes back, rows and files match, the expired disappears |
| Storage quota (`apps/base/quota.py`) | `StorageReservation` rows with an expiry | reserve, release, lapse | uploads compete for the last bytes; only the single `INSERT ... SELECT ... WHERE` decides; a reservation lapses under a slow upload. The limit is never exceeded, capacity comes back |
| Direct shares (`services.py` `FileUploadService`) | a reservation, a stored file, a row | text share, file share, with rollback | each step may fail, the rollback may fail too, codes are drawn long before they are inserted |
| Chunked uploads (`services.py`, `views.py`, `tasks.py`) | `UploadChunk` rows, `.part` files, the `.merging` file, a reservation | init, chunk, status, complete, cancel, cleaner | completion takes long and races with itself, with chunks, with cancellation and with the cleaner |
| Presigned uploads (the same files) | `PresignUploadSession` rows, a remote file, a reservation | init, proxy, confirm, cancel, status, cleaner | confirmation races with itself, with expiry and with cancellation, all of which may delete the file |
| Settings (`apps/base/config.py`, `apps/admin/config_service.py`, `core/settings.py`) | one `KeyValue` row and its copy in memory | initialise, prepare at the start, update, change the password, renew a hash at login, reload | read-modify-write, half of it outside the lock; several workers initialise at once. What was answered stays in force, one initialisation wins |
| Administrator's key-value records (`apps/admin/services.py`) | `KeyValue` rows: notes and tags, view presets, activity log | set, delete, append | read-modify-write between handlers, under a lock or not. No preset or activity is lost, notes stay with their file and go when an administrator deletes it |
| Administration pages (`apps/admin/services.py`, `apps/admin/views.py`) | none | state, timeline, filters and figures of shares | five predicates of one row, in SQL and in Python, beside those of retrieval and the expiry task: they should differ only where it is known |
| Rate limits (`apps/base/dependencies.py`) | an ordered record by address, in memory | check, count, evict, clean | checked in a thread before the request, counted after it |
| Database and start (`core/database.py`, `main.py`) | schema, record of migrations, a lock file | migrate, prepare, serve | crash between a migration and its record; several workers start at once; threads that wait for the lock |
| Download tokens (`core/utils.py`) | none | make, check | the boundary of the time window, the change of the secret |
| Storage directories (`core/storage/webdav.py`, `local.py`, `apps/base/tasks.py`) | directories and files | make the parents, write, delete, remove empty ones | a directory found empty is filled before it is removed, and "empty" is read off another server's answer |
| Everything else | none, or a remote service's | authentication, the rest of the remote storages, validation of names and headers, NAS paths, MCP, pages, logging | see section 7 |

How they interact: every upload calls `reserve_storage` first and `release_storage`
last, and ends by inserting a `FileCodes` row, which from then on counts against
the quota itself; the expiry task (`delete_expire_files`) deletes lapsed
reservations and expired shares; the cleaner (`clean_incomplete_uploads`) ends
sessions of chunked and presigned uploads that were abandoned; retrieval and
administration meet in the `FileCodes` row.

The hazards - what a test would hardly reach, with the line where it bites and the
property that would catch it - are listed in `PROJECT.json`.

## 2. Modules

| Module | Models | Used by |
|---|---|---|
| `ShareLifecycle` | the row and the file of published shares, under retrieval, administration, expiry and crashes | `AdminView`, `ShareLifecycleProofs` |
| `DownloadBudget` | abstract: what a share promises about its download limit | `ShareLifecycle` implements it |
| `AdminView` | what the administration pages derive from the rows | `MCShareLifecycle`, `ShareLifecycleProofs` |
| `StorageQuota` | `reserve_storage` as a sub-machine, `release_storage`, the lapse of reservations | extended by `DirectShare` |
| `DirectShare` | `create_text_share` and `create_file_share` on top of `StorageQuota` | `MCDirectShare`, `DirectShareProofs` |
| `ChunkUpload` | one session of a chunked upload: chunks, resumption, completion, cancellation, the cleaner, crashes | `MCChunkUpload`, `ChunkUploadProofs` |
| `PresignUpload` | one session of a presigned upload: PUTs of the client, confirmation, proxy upload, cancellation, the cleaner, crashes | `MCPresignUpload`, `PresignUploadProofs` |
| `AdminRecords` | settings, presets, activity log, notes and tags, and the lock of some of them | `MCAdminRecords`, `AdminRecordsProofs` |
| `AtomicLists` | abstract: presets and log change at once, one request after the other | `AdminRecords` implements it |
| `InitializeOnce` | abstract: one password is chosen, for ever | `Startup` implements it |
| `Startup` | workers that migrate and prepare the settings, the set-up of the system, the lock file | `MCStartup`, `StartupProofs` |
| `StorageDirs` | directories under uploads and deletions, on the local and the WebDAV storage | `MCStorageDirs`, `StorageDirsProofs` |
| `DownloadGate` | the limit of failures by address and the key of a download | `MCDownloadGate`, `DownloadGateProofs` |
| the other `...Proofs` | theorems about the module of that name | |
| `MC...` | instances for TLC: symmetries, functions over the model values | the `.cfg` files |

### ShareLifecycle

State: `live`, `count`, `used`, `exp` are the rows of `FileCodes` with their columns
`expired_count`, `used_count` and `expired_at` (NULL is `NoTime`); `stored` is the set
of shares whose file is in the storage.  `rpc` says which `await` a retrieval is at,
`apc` the same of an administration request, and `anew` is the row object such a
request holds and is going to save.  `sweep` is the list the expiry task got from its
SELECT, `doomed` the row whose file it has just deleted.

| Code | Actions |
|---|---|
| `get_code_file_by_code`, `consume_file_usage`, `select_file`, `get_code_file`, `download_file` | `Lookup`, `Consume` / `Refuse`, `Refresh` / `RefreshRaises`, `Serve`, `Leave` |
| `update_file`, `update_files`, `apply_file(s)_policy_action`: read, change the object, `save()` | `AdminRead`, `AdminSave` / `AdminSaveNothing` |
| `delete_file(s)`: delete the file, delete the row | `AdminDelete`, `AdminUnlink` / `AdminUnlinkFails`, `AdminDrop` / `AdminDropRaises` |
| `delete_expire_files`: SELECT, then for each row delete the file and the row | `SweepScan`, `SweepUnlink`, `SweepDrop` / `SweepDropRaises` |
| the end of every upload | `Publish`, with the values `get_expire_info` can produce (`ExpireInfo`) |
| `_build_admin_file_item`, `_build_file_status_insights`, `_build_file_timeline`, `_match_admin_file`, `_match_admin_file_health`, `build_file_health_summary`, `dashboard` | the operators of `AdminView` |

`DownloadBudget` is what a visitor is promised, without requests, clock, files and task: a
grant spends one use, a limit is set anew for the grants to come, what was closed stays
closed; `Slip` is the one step that breaks the promise, an older row written back.
`ShareLifecycle` implements it (`RefinesBudget`) under the mapping of rows to uses left and
of granted retrievals to uses granted; every other step is a stutter.

Abstractions: time is a number of days; a duration that is negative or zero is
`0` (the uploads that validate it accept only positive ones); settings do not
change; text shares have no file of their own, NAS shares refer to one that is never
deleted.  A request that finds nothing, that is refused before it touches the
row, or whose first statement raises changes nothing and has no action; the statements
that raise with something done before them (`Raises`: the refresh after a use was counted,
the deletion of a row or of its note after the file has gone) have one.

History variables - `taken`, `cap`, `stale`, `revived`, `torn`, `left` - are written
by the actions and read by the properties only.  They are there because the code
has known exceptions (section 6) and the properties say exactly how far they reach:
`BudgetInv` speaks of every share that no late `save()` moved back, and so on.

### StorageQuota and DirectShare

`reserve_storage` deletes a lapsed reservation of its token, looks for one in force,
inserts one if `SUM(size)` of the rows and of the reservations in force leaves room
(`Fits`, one statement over both tables), and looks again when the insert did nothing:
`ReserveBegin`, `ReservePurge`, `ReserveFind`, `ReserveInsert` / `ReserveInsertNone`,
`ReserveRecheck`.  The time it compares with is read once, at the beginning (`qnow`).
`Bytes` is the sum of the sizes, written as the number of pairs of a request and one
of its bytes: a cardinality, so that the proofs need no induction.

`DirectShare` adds the handlers: `Arrive`, `Reserve`, `Deny`, `Draw` (a code that no row
has), `RejectLifetime`, `Save` / `SaveRaises`, `Create` / `CreateRaises` (the column `code`
is unique), `Rollback` / `RollbackRaises`, `Release` / `ReleaseRaises`. `WithdrawFile`,
`WithdrawRow` and `WithdrawRowRaises` are the deletion of a share, whose other actors
`ShareLifecycle` has; `Lapse` is the statement of the expiry task that deletes lapsed
reservations.

Abstractions: sizes are small numbers; `storage_limit` does not change while requests
run; that a reservation of the same token but another size is answered 409 is left
out, because a direct share draws a fresh token.

### ChunkUpload

State: `session` is the row with `chunk_index` -1 (`"new"` before the init, `"gone"` when it
was deleted), `records` the rows of chunks, named by the request that made them, `held`
the reservation of the session, `old` whether it has passed `chunk_expire_hours`.  `temp`
and `part` are the `.tmp` and `.part` paths of each index, which refer to an inode, named by the upload
that created it; `whole` are those that hold all of their chunk, and `file` is what an upload has open.
`merging` and `output` are the `.merging` path and the merged file; their inodes are named by the
completion that created them and filled with the chunks in `content`.  `shares` are the rows published.
`pc` says which `await` a request is at, and a completion keeps the records it has
read (`listed`), the file it has open (`inode`) and the chunk it is at (`next`).

| Code | Actions |
|---|---|
| `init_chunk_upload` | `InitUpload`; when it finds the session `ReadSession`, `Reserve` / `Refuse` |
| `upload_chunk` | `ReadSession`, `Reserve` / `Refuse`, `CheckChunk`, `OpenTemp`, `WriteTemp`, `RenameTemp` / `SaveChunkRaises`, `FindRecord`, `CreateRecord` |
| `complete_chunked_upload` | `ReadSession`, `Reserve` / `Refuse`, `Count` / `CountTooLarge`, `OpenMerging`, `MergeChunk` for each chunk / `MergeAborts` (a `ValueError`) / `MergeFails`, `RenameMerging`, `Publish` / `PublishRaises`, `Clean` / `CleanRaises`, `Delete`, `Release`; after an exception `CleanFailed` |
| `cancel_upload` | `ReadToCancel`, `Clean` / `CleanRaises`, `Delete`, `Release` |
| `clean_incomplete_uploads` | `ReadToClean` / `NothingToClean`, `Clean` / `CleanRaises`, `Delete`, `Release`, and again |

Abstractions: one session; its clients upload one file, so that the chunk with an index
always has one hash and `_verify_and_hash_chunk` succeeds on what is whole; the write and the close
of a chunk are one step, after which the file is whole unless another upload truncated it since it was
opened, and a chunk is read and appended to the merged file in one step.  What
`reserve_storage` decides is a grant or, when the reservation had lapsed, a grant or a
refusal; the sum itself is `StorageQuota`'s.  An init that makes the session is one step, since the
session is known to nobody before it answers; one that finds it is a process of `Resumes` and reads the
session before it reserves.  Storage is the local one; `rmtree` may leave any part
of the chunks and only log it, and `CleanRaises` stands for an exception that does come
out of `clean_chunks`.  The share is not deleted again: that is `ShareLifecycle`.

History variables: `strays` are the processes that wrote something while or after the
session was deleted, `litter` the chunks that a cleaning could not delete, `cleaned` says
that a cleaning began, `disturbed` are the uploads whose `.tmp` file another one truncated
or renamed, `mixed` holds the inodes that two completions wrote or that one completion
renamed although another had created them.

### PresignUpload

State: `session` is the row, `late` whether its `expires_at` has passed, `held` its
reservation, `file` who wrote what is at the path of the session, `puts` the PUTs of the client
that are under way: they bypass the server and end when they end, also after the session
has gone.  `rows` are the shares published.  All requests of a session name one path and
one token of the quota.

| Code | Actions |
|---|---|
| `presign_upload_init` | `InitReserve`, `InitCreate` / `InitRaises` |
| `_get_valid_session`: read, and drop an expired session | `ReadSession`, `DropExpired` |
| `confirm_direct_upload` | `Reserve` / `Refuse`, `Confirm` / `Fails`, `Publish` / `PublishRaises`, `Undo`, then `DeleteSession`, `Release` / `StatementRaises` |
| `commit_proxy_upload` | `Reserve` / `Refuse`, `Fails` (the file is not what was announced), `OpenFile`, `Save` / `SaveRaises`, `Publish` / `PublishRaises`, `Undo`, `DeleteSession`, `Release` / `StatementRaises` |
| `presign_upload_cancel` | `Cancel`, `Look`, `Unlink` / `StorageRaises`, `DeleteSession`, `Release` / `StatementRaises` |
| `clean_expired_presign_sessions` | the same from the cleaner, which releases before it deletes the session |
| the client and the storage, external | `PutBegins`, `PutEnds` |

Abstractions: in the mode direct the storage is S3 as its client uses it, so that
`file_exists` may answer FALSE because the storage could not be asked (`StorageRaises`,
`Fails`); in the mode proxy it is the local one, where a file is there from the moment it is
opened; what `reserve_storage` decides is a reservation found in force, a grant or a
refusal. History variables: `met` are processes that held the session together, `cut`
requests that a crash or a statement that raised stopped between their share and the
deletion of the session, `replaced` those whose file a later PUT may have overwritten,
`lapsed` those whose reservation lapsed under them, `loose` that a file may stay for a
reason the code knows (a late PUT, an expired session dropped by a request, a failed call of
the storage, a crash of a proxy upload). A proxy upload that is cut short while it writes,
by an exception (`services.py:333-336`) or a crash, leaves the part it has written: nothing
rolls it back, and the cleaner looks only for the files of direct sessions (`tasks.py:113`).

### AdminRecords

State: `row` and `mem` are the settings in the table and in memory, `log`, `presets` and
`meta` the other records, `live` the row of the file that `meta` is about, `lock` the
`asyncio.Lock` of `apps/admin/config_service.py`.  A setting is represented by the update that set it
(`opts`), a password and a secret by the request that made it.

| Code | Actions |
|---|---|
| `update_config`: copy the settings, wait for the lock, write all of them, reload | `UpdateBegin`, `Acquire`, `UpdateWrite`, `Reload` |
| `login`: renew an old hash without the lock | `LoginBegin`, `LoginRead`, `LoginWrite` |
| `save_file_view_preset`, `delete_file_view_preset` | `PresetBegin`, `Acquire`, `PresetRead`, `PresetWrite` |
| `record_admin_activity` at the end of each | `Acquire`, `LogRead`, `LogWrite` / `LogFails` |
| `update_file_metadata` | `MetaBegin`, `MetaRead`, `MetaWrite` |
| `delete_file`: the metadata, then the row | `DeleteBegin`, `Forget`, `DeleteRow` |
| `delete_expire_files`, which deletes the row only | `Expire` |
| a statement of any of them that raises, and the block that has the lock with it | `StatementRaises` |
| `refresh_settings` | `Refresh` |

`AtomicLists` is what presets and log promise, without the lock, the handlers and crashes: a
change is made to the list as it is at that moment, and once. `AdminRecords` implements it
(`ListsAtomic`); the step is the write under the lock, and every other one is a stutter.

History variables: `crossed` and `mixed` are the requests that were on the settings, or on
the file, together, `before` the secrets in use when a request began, `torn` says that a
deletion was stopped between the metadata and the row, `expired` that the expiry task has
deleted the row. `Unread`, of `MemoryCurrent`, is an update that ended without an answer,
after which memory may be behind the table until the next `Refresh`.

This is the server with one worker that the documentation asks for: another worker has
another lock and another memory.

### Startup

State: `applied` and `recorded` are the migrations whose statements were run and those in
the table `migrates`; `row` is the settings row, `mem` the memory of each worker; `flock` is
who has the lock file, `pc` where each process is.  A password is represented by its
state (missing, the default, stored as it is, hashed) or by the set-up that chose it.

| Code | Actions |
|---|---|
| `db_startup_lock` | `Lock`, `Unlock`, which needs a free thread of the worker's pool |
| `init_db`, `execute_migrations` | `Start`, `Skip`, `Migrate`, `Record`, `Migrated` |
| `ensure_settings_row`, `ensure_security_settings` | `Load`, `Secure`, `Save` with `Prepared` |
| `setup_submit`, `initialize_system` | `SetupBegin`, `SetupRead`, `SetupWrite`, `SetupReload` |
| the middleware's `refresh_settings` | `Refresh` |

`Once` are the migrations that fail when they are run again: 002 and 004 add columns
without asking whether they are there (`Blocked`).  `InitializeOnce` is the promise of the
set-up, with `Owner` - whose password is in force - as its `winner`.

### StorageDirs

Every file has a directory of its own (that of its upload id) in the shared directory of the
day. The local storage makes both in one step and leaves empty ones to the expiry task
(`MakeDirs`, `Write`, `DeleteLocal`, `SweepLook`, `SweepRemove`), which walks them only when
no `storage_path` is set (`walked`, `tasks.py:33` against `utils.py:37-42`); WebDAV asks for
each level and makes it (`HeadDay`, `MakeDay`, `HeadOwn`, `MakeOwn`, `Write`) and removes on
its way up what it finds empty (`DeleteDav`, `LookOwn`, `RemoveOwn`, `LookDay`,
`RemoveDay`), where a DELETE takes everything below; any of its requests may raise
(`Raises`). What `LooksEmpty` is a number of `<D:response>` in the answer (`webdav.py:76`):
true of what is empty, and of every directory when the server writes another prefix
(`prefix` is FALSE). An upload in chunks first makes `chunks` in its directory and puts them
there (`MakeChunks`, `PutChunk`), then reads them and comes the same way again for the file
(`ReadChunks`, `merged`); `CleanChunks` deletes the chunks with their own directory, and
`chunks` stays. `overlapped` are the uploads that were under way while a directory was
decided to be removed.

Abstractions: `Day` is all the shared directories; one chunk stands for all of an upload,
together with the directory below `chunks` that it is in; the local storage removes its
`chunks` itself (`local.py:205-212`), and its uploads in chunks are `ChunkUpload`'s.

### DownloadGate

`ips`, `count` and `last` are the ordered dictionary of one `IPRateLimit`, `look` the record
that `remove_expired_ip` has at hand. A request asks (`Ask`), is checked by a thread
(`Check`, and `Drop` of a record judged old), and its key is judged (`Judge`), where a wrong
one is counted by `Add` with the eviction. `Address` is `get_client_ip`, without the header
X-Real-IP. A key is the window and the secret it was made of, and one that was made up is
`NoKey`: HMAC is taken as it should be. `Tick` is the time and `Rotate` a change of the
password, which replaces the secret.

## 3. Runs

| Run | Instance | Shows |
|---|---|---|
| `share_counters` | one share, two retrievals, one administrator with all operations, the expiry task; limits up to 2 | `TypeOK`, `BudgetInv`, `SweepInv`, `ViewsAgree`, `RefinesBudget` |
| `share_life` | a file and a NAS share without a limit or with none left, a retrieval (also by a URL of the backend), an administrator who extends and deletes, the expiry task, failing storage, one crash or statement that raises, fairness | `FilesMatchRows`, `MissedInv`, `ExpiredRemoved` |
| `quota` | an empty file, a file of 2 bytes and a text of 1 against a limit of 2, one crash or call that raises, fairness | `TypeOK`, `QuotaInv`, `CodesUnique`, `FilesMatchRows`, `CapacityReturns` |
| `chunk` | two chunks uploaded once each, two completions, a cancellation, the cleaner, failing storage | `TypeOK`, `PublishedInv`, `MergingIsRemoved` |
| `chunk_ends` | one chunk uploaded twice, a resumption, a completion, the cleaner, one cleaning that raises, one crash, fairness | `RecordedIsStored`, `GoneLeavesNothing`, `SessionEnds` |
| `presign` | both modes, two confirmations or proxy uploads, a cancellation, the cleaner, one PUT of the client, failing storage, one crash or statement that raises, fairness | `TypeOK`, `PublishedInv`, `NothingLeft`, `SessionEnds` |
| `records` | three of nine requests (two updates, one of the password; a login; two presets and a deletion; a note, a tag, a deletion of the file), the expiry of the file, one crash or statement that raises, fairness | `TypeOK`, `SettingsKept`, `MetaInv`, `ListsAtomic`, `RequestsEnd` |
| `startup` | two workers, three migrations one of which cannot be repeated, two threads, three set-ups in one worker and one in the other, three starts, one crash, new and old databases, fairness | `TypeOK`, `AnswersTrue`, `StartsWell`, `InitializesOnce`, `LockIsTaken` |
| `storage` | three files in one directory of the day, one of them uploaded in chunks, both storages, with and without `storage_path`, WebDAV servers of both prefixes, fairness | `TypeOK`, `SavedKept`, `OnlyChunksStay`, `EmptyRemoved` |
| `gate` | three requests of two clients, one of them direct and by a proxy, forged headers, a limit of 1, two records at most, windows of 2 up to time 4, two secrets | `TypeOK`, `GuessesBounded`, `KeyLives` |
| `share_lost_use`, `settings_lost` | the smallest instance with the behaviour | section 6 |

Why the bounds are enough to be of use.  Two retrievals and a limit of 2 give the race
for the last use and the one before it; one administrator suffices for a write that is
late with respect to a retrieval, and the proofs cover any number.  In `share_life` two shares
are needed for the expiry task to be between two rows while an administrator deletes one of
them.  `MaxTime` of 1 lets a share be live, expire, and be extended past its expiry
(`Extended` may go `Day` further).  In `quota`, the limit admits the file or the text but
not both, and nothing is reserved for the empty file; time passes beyond every
reservation, so that rows inserted late occur; one crash or exception reaches every failure path, and the
proofs cover any number.  In `chunk` two completions are what it
takes to write one `.merging` file from two sides, and two chunks what it takes to be
interrupted in the middle of it; in `chunk_ends` the second upload of the chunk makes the
races for its temporary file and for its record, the resumption reserves after the session was
deleted, and one crash and one exception make the cleaner come back.  In
`presign` two commits, a cancellation and the cleaner are one of each pair that can hold the
session together.  In `records` three requests overlap, which is one more than any lost
change needs; `MaxPresets` of 1 and `MaxLog` of 2 are reached.  In `startup` three set-ups
wait in a worker with two threads, so that the lock can be starved; three starts and one
crash let a migration be found applied and not recorded.  In `storage` two files are what it takes for
one to be put where another was removed, and the third leaves its `chunks`.  In `gate` the time reaches the third
window and the limit is passed; with three addresses and two records somebody is evicted.
Symmetry is used for requests, shares
and codes of which nothing distinguishes one from another, and in runs of safety
properties only (`share_counters`, whose refinement is one too, and `chunk`).

Beside some definitions stand faulty variants ("Fault, in no action").  For every
property of a passing run there is one such fault that breaks it: `PROJECT.json` pairs them
under `mutants`.  They are there to show that the property can fail, and nothing else uses
them.

Deadlock is checked where something can always happen: the expiry task can always read
again (`SweepScan`), the cleaners can always find nothing, and the `Lapse` of `DirectShare`
is always enabled.  `records`, `startup`, `storage` and `gate` really stop, when all their
requests are over, and say so; there `RequestsEnd` and `LockIsTaken` are what speaks of being
stuck.

## 4. Fairness

`ShareLifecycle!FairSpec` asks only that the expiry task goes on (`WF_vars(SweepNext)`):
`main.py` starts it with the server, and it is a `while True` whose body is inside a `try`
that logs every exception and sleeps (`tasks.py:25-56`). `DirectShare!FairSpec` asks that
time passes and that this task deletes lapsed reservations. No request, no client and no
administrator has to do anything: all of them may stop at any step. `ChunkUpload!FairSpec`
and `PresignUpload!FairSpec` ask that time passes and that the cleaner goes round, whose
loop is of the same kind (`tasks.py:59-100` and `tasks.py:103-132`); that `clean_chunks`
raises is bounded in number, since a storage that never deletes anything keeps the session
for ever. `StorageDirs!FairSpec` asks that the task goes on. `AdminRecords!FairSpec` asks
that the event loop runs every handler on (`Step`), and `Startup!FairSpec` that processes
and threads do and that the operating system hands the lock file to one that waits; neither
asks that a request begins, a worker starts or a crash happens. `Unlock` is fair only where
it is enabled, which a starved pool prevents: that is the `Starved` of `LockIsTaken`. A
crash and a statement that raises are bounded in number everywhere, since a server that
fails for ever cleans nothing; neither is asked to happen.

## 5. Proofs

TLAPS proves, for every value of the constants:

* `ShareLifecycleProofs`: `Typing`, `Budget`, `SweptShares`, `NoReturn`, `LostUses`,
  `Matching` - the type invariant and every safety property of `ShareLifecycle`, for any
  number of shares, retrievals and administrators, any lifetimes and any number of crashes;
  `Refinement`: it implements `DownloadBudget`; `Views`: what the pages of `AdminView` say, against what
  retrieval and the task do.
* `DirectShareProofs`: `Typing`, `Quota`, `NothingHeld`, `FilesAndRows`,
  `UniqueCodes`; among the lemmas those about `StorageQuota`: `Bytes` is a natural number, is
  monotone, adds up over disjoint sets; a reservation that passes `Fits` keeps the sum in the limit.
* `ChunkUploadProofs`: `Typing`, `Published`, `Stored`, `GoneClean`, `Removed` - the
  type invariant and every safety property of `ChunkUpload`, for any number of chunks,
  uploads, completions and cancellations.
* `PresignUploadProofs`: `Typing`, `PublishedStays`, `Cleanness`, for any number of requests, PUTs and
  crashes.
* `AdminRecordsProofs`: `Typing`, `Lists`, `SettingsStay`, `NotesStay`, for any number of requests, and
  `Refinement`: it implements `AtomicLists`.
* `StartupProofs`: `Typing`, `Starting`, `Answers`, and `Refinement`: `Startup` implements
  `InitializeOnce`, for any number of workers, set-ups, migrations, threads and crashes.
* `StorageDirsProofs`: `Typing`, `Keeping`, `Tidiness`, for any number of files.
* `DownloadGateProofs`: `TrueAddress`, `Typing`, `Guesses`, `Keys`, for any number of requests,
  clients and proxies, any limit and any length of the windows.

So every invariant and every refinement that a passing run checks is a theorem.

The argument.  In `ShareLifecycle` the properties are inductive together with the type
invariant, except `MissedInv` and `NoOrphanFile`: a retrieval that missed its file had
a row without one, which is `FileInv`, and a file without a row can only come from the
last step of a deletion, so that the invariant has to say that a row in `doomed` or
`unlinked` has no file any more unless the storage failed; a deletion that stops at the row moves it
from `doomed` to `torn`, so that what was `Gone` stays so.  The budget holds because
`Consume` is one statement that tests and decrements; a late `save()` either leaves the
counters as they are or puts the share in `stale`.

In `DirectShare` the inductive invariant is `IInv == TypeOK /\ PcInv`: `PcInv` relates where
a handler is to what `reserve_storage` answered it and to the file and the code it has;
`FilesMatchRows` needs beside it that a row whose deletion is past the file has none, or one
that could not be deleted (`GoingInv`). `QuotaInv` needs a stronger sum, `Charged`: rows in
time together with *all* reservations in force, where a row inserted in time takes the place
of its own reservation, so that `Create` leaves the sum alone; `ReserveInsert` is covered by
the lemma on `Fits`, with the help of `qnow <= now`: a reservation that is in force now was
in force when the request read the clock.

In `ChunkUpload`, `PublishedIsOver` needs that nothing happens before the init
(`NewInv`); `RecordedIsStored` that no inode is at both paths of a chunk and each was made
for that chunk (`ChunkFiles`), that what an undisturbed upload is about to rename is whole
(`ChunkWhole`), and that a request which is about to write its record has stored its chunk
(`ChunkThere`).  `PublishedWhole` needs an account of every inode, in three parts:
a name that no completion has used yet is empty and refers to nothing (`Fresh`); a completion
that writes an inode alone has written every chunk before `next` (`Written`); and what
was renamed is whole (`Output`) - each unless the inode is in `mixed`.  `GoneLeavesNothing`
is strengthened by what the deletion that is under way will leave (`GoneInv`).

In `PresignUpload` the key is `Settled`: a request that published alone and without a crash has
the session for itself until it has deleted it, because nobody who begins later finds it
without being in `met`; so nobody else's `Unlink`, `Save` or `Undo` reaches its file
(`Kept`), and its reservation is the one it found (`Charged`).
That nothing is left needs to say whose a file is that no share names: of a session that is open with
nobody past its file, or of a proxy upload that will publish it or undo it (`Accounted`).

In `AdminRecords`, `ReadInv` says that what was read under the lock is still what the table
has, which makes a write one step of `AtomicLists` and the lists exact (`ListsKept`, which
no run checks: it follows). `Frames` says once which steps touch the settings, the lists and
the file, so that the lemma on each part of the invariant speaks of those steps only. For
the settings, `Carried` says that an answered update is in the row, in memory and in every
copy that somebody is going to write, and `Fresh` and `Ended` say the same of secrets that
must not come back - each unless writers `crossed`, the only way out of it. For notes and
tags, `Merged` says that what a request is going to write has what was answered before it,
`Forgotten` that a row goes after its note and tags, and `Present` that the file of a
request is there or has expired since - each unless requests `mixed`.

In `Startup` the lock file excludes by the type invariant.  `CopyInv` says that what is going to be
written was made from the row as it is, `RowInv` where the row must be there already, `Serving` what
is safe once it was prepared, `OwnerInv` whose password can be in the row.  Only `Load`, `Save` and
`SetupWrite` write the row: the first two keep the owner (`Preparing`), the third finds none.
That no start fails without a crash needs to know who ran a migration and has not recorded it
yet: a worker that still has the lock (`SchemaInv`).

In `StorageDirs`, `Overlaps` notes at every step the uploads that meet a removal (`Met`); a
shared directory that is about to be removed was empty, if that could be read, so what it
holds by then was put there by such an upload (`Late`). That WebDAV keeps no directory it
has emptied needs a reason for every directory there is: a file or `chunks` in it, or a
request that has made it or is going to remove it (`InUse`).

In `DownloadGate` the lemmas are about sequences that name nothing twice: what is left when
an address or the first one is removed is a `PartOf` the sequence, in its order, and the
others are all there. From that and from times that do not run backwards (`Times`) the
records stay in the order of their activity. A client's wrong keys are those in the count of
its record (`Counted`), a client that is not `crowded` has one request past the check at a
time (`Alone`), and while it has, its count is below the limit (`Below`) - each unless its
record was `robbed`; that needs `TrueAddress`, which says whose record it is. How long a key
lives follows from the bounds of a division (`WindowBounds`), and from the secret a key was
made of, which is the present one or an earlier one (`Keyed`).

The refinement of `DownloadBudget` needs that a row read by an administrator differs from
the present one only if a write came between, which puts the share in `stale` when it is
saved (`BudgetSim`). `Views` needs the types and that the table is finite, as its figures
are cardinalities: `ActiveRows` says of one row what each predicate makes of it,
`ActiveCount` adds them up.

Assumptions: the `ASSUME` of each module (`ShareConstants`, `FiniteShares`,
`QuotaConstants`, `DirectConstants`, `ChunkConstants`, `PresignConstants`,
`RecordsConstants`, `StartupConstants`, `DirsConstants`, `GateConstants`), which TLC
evaluates in every run. They say that the constants have their types, that kinds of requests
are disjoint, that only finitely many uploads are made and shares exist, and that a direct
share does not share its token. `DownloadGate` has one more, `ProxiesAppend`: a client comes
itself or by proxies listed in `trusted_proxies`, which put the address they were called
from at the end of the header. It is what proxies are listed there for, "to find the
client's address safely" (`docs/guide/configuration.md:130-131`), and what reading the
header from its end relies on.

Only model-checked: liveness (`ExpiredRemoved`, `CapacityReturns`, both `SessionEnds`, `RequestsEnd`,
`LockIsTaken`, `EmptyRemoved`), which is out of the prover's reach.

## 6. What the code does otherwise than it says

Two statements of the repository have a run that TLC finds violated, and a finding in `PROJECT.json`.

* `share_lost_use`: a `save()` of a row read earlier puts `expired_count` and `used_count`
  back, so that a retrieval that was counted meanwhile is free.
* `settings_lost`: `update_config` copies the settings before it waits for the lock that is
  to keep updates from overwriting each other, and writes the copy.

Others the models contain, found with them, and no run is kept for them:

* `is_expired` (`models.py:36-41`) never says that a share without expiry is used up, and
  `_expired_predicate` (`views.py:123-129`) copies it. The metadata of such a share stay
  visible, its status and its filter say `active` and the dashboard counts it so, while
  retrieval is refused, the expiry task is going to delete it and the state beside the
  status says `expired`: `SpentWithoutExpiry` in `ViewsAgree`.
* A deletion whose last statement raises (`tasks.py:49-52`, `services.py:93-94`) leaves a
  row that is listed and retrieved while its file has gone: every retrieval spends a use and
  answers 404, until the share is deleted again (`torn` in `FilesMatchRows` and
  `MissedInv`).
* A direct URL is decided on (`views.py:158-161`) from a row that a policy action may
  change before the use is counted.
* A file whose rollback failed (`services.py:64-72`) has no row, so the expiry task, which
  goes by rows, never finds it, although the docstring leaves it to the task "once its
  orphaned record ages out" (`services.py:59-61`): `leaked` in `FilesMatchRows`.
* A completion that fails after its merge (`services.py:304`) deletes the chunks and keeps their
  records.  A client that resumes is told that everything is uploaded; a chunk it sends
  again is skipped because of its record; every completion stops at a chunk
  that is not there, until the session is cancelled or old.
* Two uploads of one chunk write one `.tmp` path (`local.py:102-107`). The second truncates
  what the first renames and records; when the second is then cut short by a crash or a
  failed write, the chunk stays torn, is skipped because of its record, and every completion
  stops at its hash (`disturbed` in `RecordedIsStored`).
* Two completions write one `.merging` path (`local.py:128-131`).  The second truncates the file
  that the first renames and publishes; the first then deletes the chunks and the second
  stops, so that the file stays without them.
* The WebDAV storage deletes a directory that it found empty by a request of its own
  (`webdav.py:84-88`), with what an upload has put there meanwhile.
* It takes a directory for empty whose answer has at most one `<D:response>`
  (`webdav.py:76`). The prefix is the server's choice, and Nextcloud, which
  `docs/guide/storage.md:252` and `275` recommend, writes `<d:response>`: there the deletion
  of one file deletes the shared directories with the files of all others (`~prefix` in
  `SavedKept`).
* Chunks are put into `chunks/<upload_id>` (`webdav.py:230`), and `clean_chunks` deletes the
  last level only (`webdav.py:315`, `335`): `chunks`, and with it the directory of the
  upload, stays for ever (`OnlyChunksStay`).
* The expiry task removes empty directories below `data/share/data` (`tasks.py:33`); with
  the documented `storage_path` (`docs/guide/configuration.md:141`) uploads are elsewhere
  (`utils.py:37-42`) and their directories stay (`walked` in `EmptyRemoved`).
* The expiry task deletes the row of a file (`tasks.py:49-50`) and not the
  `admin_file_metadata` of the administrator (`services.py:93` does): note and tags of a
  file that expired stay in the table (`expired` in `NoOrphanMeta`).
* A crash between a migration of `Once` and its record keeps the server from starting: the
  migration fails at every later start (`database.py:116`).
* Threads that wait for the lock file may be all the pool has, and then the one who has the lock
  cannot give it back (`database.py:84-87`).

Weaker behaviours that the passing properties name rather than hide: rows inserted after
their reservation lapsed may exceed the quota (`late` in `QuotaInv`); a share that is
extended after the SELECT of the expiry task is deleted nevertheless (`revived` in
`SweepInv`); a retrieval may be counted and not served when the share is deleted under it
(`MissedInv`) or when the statement after the UPDATE raises (`raised`); a share limited by
count lives a day whatever its remaining count, since `get_expire_info` gives it an
`expired_at` too; two completions may publish two rows for one merged file; a merged file is
left without a row when its publication fails; two uploads of a chunk may record it twice,
after which the number of records is never that of the chunks and no completion succeeds; a
chunk, record or reservation that is written while its session is deleted stays, as when a
resumption read the session before it was deleted and reserves after its capacity was
released (`strays` in `GoneLeavesNothing`); the expiry task deletes the row of a file it
could not delete (`left` in `NoOrphanFile` and in `DirectShare!FilesMatchRows`), and a
deletion that stops at the row leaves the row without its file (`torn`); a presigned URL
outlives its confirmation, so that a late PUT replaces a published file (`replaced` in
`PublishedKept`); two requests that hold a presigned session together may publish it twice
or delete each other's file (`met`), and a crash or a failed statement before the session is
deleted lets the cleaner do so (`cut`); a proxy upload that is cut short leaves part of its
file (`loose`); a session that a request finds expired is dropped with its file left behind
(`loose`); a login that renews a hash may undo a change of the settings, as may two updates
(`crossed`); requests that passed the check of the rate limit together are all judged
(`crowded`), and a thread of the check and the removal of old records may take away one
before its time (`robbed`).

## 7. Not modelled

Authentication and the signing of tokens (cryptography over opaque strings, no state);
the chunk merges and URLs of S3, OneDrive, WebDAV and OpenDAL (the local merge is modelled step by
step; the remote ones are other programs' files behind calls that may fail); validation of file
names and headers and resolution of NAS paths (pure functions over strings and the file
system); HTML of pages, themes and the set-up wizard; the framing of MCP (its tools call the services of
direct shares and retrieval); logging.  In `AdminView`, `storage_metadata_incomplete` never holds,
since uploads write complete rows, and the order and paging of lists are left out.  The limiters of
uploads and metadata are instances of the class that `DownloadGate` models with the one of failures;
that of logins is the same, but no task removes its old records (`tasks.py:36-38`).

## 8. State of the plan

Every component that keeps state of its own has its module, its run and its theorems. What
could still be added: the remote merges, as a variant of the merge in `ChunkUpload`; and
several workers of a running server in `AdminRecords`, which the documentation advises
against.
