------------------------------ MODULE Startup ------------------------------
(***************************************************************************)
(* The start of the server and its set-up.  Each worker is a process of    *)
(* its own; all share the database and the file filecodebox.startup.lock.  *)
(* A worker that starts takes this lock to run the migrations, and again   *)
(* to prepare the settings; then it serves.  A request to set the system   *)
(* up takes the lock too, in the worker that serves it.                    *)
(*                                                                         *)
(* The lock is taken and given back by threads of the worker's pool.  A    *)
(* request that waits for the lock keeps its thread, and who has the lock  *)
(* needs a free one to give it back.                                       *)
(*                                                                         *)
(* The migrations Once change the schema by statements that fail when they *)
(* are run again, each committed at once, and their record in the table    *)
(* migrates is written after them; the others may be run again.            *)
(***************************************************************************)
EXTENDS Integers, FiniteSets

CONSTANTS Workers,
          Setups,      \* POST /setup with a valid password, each of its own
          Host,        \* the worker that serves each
          Last,        \* the migrations are 1 .. Last
          Once,        \* those that cannot be repeated
          Threads,     \* of the pool of a worker
          None,
          MaxStarts,   \* how often workers are started
          MaxCrashes   \* bounds of the instance

Processes == Workers \cup Setups

\* The administrator's password is missing, the default of old versions, one
\* that is stored as it is or hashed, or that of a set-up.
Unset     == {"unset", "legacy"}
Passwords == Unset \cup {"plain", "hashed"} \cup Setups
Settings  == [password : Passwords, secret : {"weak", "good"} \cup Workers]

ASSUME StartupConstants ==
    /\ Workers \cap Setups = {}
    /\ Workers \cap {"weak", "good"} = {}
    /\ Setups \cap (Unset \cup {"plain", "hashed", "before"}) = {}
    /\ Host \in [Setups -> Workers]
    /\ Last \in Nat
    /\ Once \subseteq 1 .. Last
    /\ Threads \in Nat \ {0}
    /\ None \notin Processes \cup Settings \cup {"before"}
    /\ MaxStarts \in Nat
    /\ MaxCrashes \in Nat

VARIABLES
    applied,   \* migrations whose statements were run, some or all of them
    recorded,  \* rows of the table migrates
    row,       \* the settings in the table keyvalue
    mem,       \* the settings in the memory of each worker
    flock,     \* who has the lock file
    pc,        \* where each process is
    at,        \* the migration that a worker has come to
    copy,      \* the settings that a process is going to write
    answer,    \* what each set-up was told
    starts,
    crashes

schemaVars   == <<applied, recorded, at>>
settingsVars == <<row, mem, copy>>
countVars    == <<starts, crashes>>
vars == <<schemaVars, settingsVars, flock, pc, answer, countVars>>

Absent    == [password |-> "unset", secret |-> "weak"]

WaitStates == {"toMigrate", "toLoad", "toInstall"}
HoldStates == {"migrating", "recording", "failing", "migrated", "loading",
               "securing", "saving", "loaded", "choosing", "installing",
               "refused", "installed"}
PcStates   == WaitStates \cup HoldStates
                \cup {"down", "serving", "idle", "reloading", "over"}

Goto(p, l)   == pc' = [pc EXCEPT ![p] = l]
WorkerOf(p)  == IF p \in Workers THEN p ELSE Host[p]
Waiting(w)   == {p \in Processes : pc[p] \in WaitStates /\ WorkerOf(p) = w}
ThreadFree(w) == Cardinality(Waiting(w)) < Threads

\* is_config_initialized
Initialised(c) == c.password \notin Unset

\* Fault, in no action: the secret is made anew at every start.
PreparedAnew(c, w) ==
    [password |-> IF c.password = "legacy" THEN "unset"
                  ELSE IF c.password = "plain" THEN "hashed"
                  ELSE c.password,
     secret   |-> w]

\* prepare_security_config, by worker w
Prepared(c, w) ==
    [password |-> IF c.password = "legacy" THEN "unset"
                  ELSE IF c.password = "plain" THEN "hashed"
                  ELSE c.password,
     secret   |-> IF c.secret = "weak" THEN w ELSE c.secret]

-----------------------------------------------------------------------------
\* A new database, or one that an older version has left: some migrations were
\* run, and the settings may be there.
Init ==
    /\ \E k \in 0 .. Last : applied = 1 .. k
    /\ recorded = applied
    /\ \/ row = None
       \/ applied # {} /\ row \in [password : Passwords \ Setups,
                                   secret : {"weak", "good"}]
    /\ mem = [w \in Workers |-> Absent]
    /\ flock = None
    /\ pc = [p \in Processes |-> IF p \in Workers THEN "down" ELSE "idle"]
    /\ at = [w \in Workers |-> 1]
    /\ copy = [p \in Processes |-> Absent]
    /\ answer = [s \in Setups |-> "none"]
    /\ starts = 0
    /\ crashes = 0

-----------------------------------------------------------------------------
(* The lock.                                                               *)

Start(w) ==
    /\ pc[w] = "down"
    /\ starts < MaxStarts
    /\ starts' = starts + 1
    /\ Goto(w, "toMigrate")
    /\ UNCHANGED <<schemaVars, settingsVars, flock, answer, crashes>>

Holds(l) == IF l = "toMigrate" THEN "migrating"
            ELSE IF l = "toLoad" THEN "loading"
            ELSE "choosing"

\* Fault, in no action: the lock is not taken.
LockNothing(p) ==
    /\ pc[p] \in WaitStates
    /\ Goto(p, Holds(pc[p]))
    /\ at' = IF pc[p] = "toMigrate" THEN [at EXCEPT ![p] = 1] ELSE at
    /\ UNCHANGED <<applied, recorded, settingsVars, flock, answer, countVars>>

Lock(p) ==
    /\ pc[p] \in WaitStates
    /\ flock = None
    /\ flock' = p
    /\ Goto(p, Holds(pc[p]))
    /\ at' = IF pc[p] = "toMigrate" THEN [at EXCEPT ![p] = 1] ELSE at
    /\ UNCHANGED <<applied, recorded, settingsVars, answer, countVars>>

After(l) == IF l = "failing" THEN "down"
            ELSE IF l = "migrated" THEN "toLoad"
            ELSE IF l = "loaded" THEN "serving"
            ELSE IF l = "refused" THEN "over"
            ELSE "reloading"

\* Fault, in no action: a set-up that is refused keeps the lock.
UnlockNotRefused(p) ==
    /\ pc[p] \in {"failing", "migrated", "loaded", "refused", "installed"}
    /\ ThreadFree(WorkerOf(p))
    /\ flock' = IF pc[p] = "refused" THEN flock ELSE None
    /\ Goto(p, After(pc[p]))
    /\ UNCHANGED <<schemaVars, settingsVars, answer, countVars>>

Unlock(p) ==
    /\ pc[p] \in {"failing", "migrated", "loaded", "refused", "installed"}
    /\ ThreadFree(WorkerOf(p))
    /\ flock' = None
    /\ Goto(p, After(pc[p]))
    /\ UNCHANGED <<schemaVars, settingsVars, answer, countVars>>

-----------------------------------------------------------------------------
(* A worker starts.                                                        *)

Skip(w) ==
    /\ pc[w] = "migrating" /\ at[w] \in recorded
    /\ at' = [at EXCEPT ![w] = @ + 1]
    /\ UNCHANGED <<applied, recorded, settingsVars, flock, pc, answer,
                   countVars>>

\* migrations_002 and migrations_004 add columns without asking whether they
\* are there: run a second time their first statement fails.
Blocked(m) == m \in Once \cap applied

\* migrate(): the start ends with the exception of a migration that fails.
Migrate(w) ==
    /\ pc[w] = "migrating" /\ at[w] \in (1 .. Last) \ recorded
    /\ IF Blocked(at[w])
       THEN Goto(w, "failing") /\ UNCHANGED applied
       ELSE Goto(w, "recording") /\ applied' = applied \cup {at[w]}
    /\ UNCHANGED <<recorded, at, settingsVars, flock, answer, countVars>>

\* INSERT INTO migrates
Record(w) ==
    /\ pc[w] = "recording"
    /\ recorded' = recorded \cup {at[w]}
    /\ at' = [at EXCEPT ![w] = @ + 1]
    /\ Goto(w, "migrating")
    /\ UNCHANGED <<applied, settingsVars, flock, answer, countVars>>

Migrated(w) ==
    /\ pc[w] = "migrating" /\ at[w] > Last
    /\ Goto(w, "migrated")
    /\ UNCHANGED <<schemaVars, settingsVars, flock, answer, countVars>>

\* ensure_settings_row, and the settings into memory
Load(w) ==
    /\ pc[w] = "loading"
    /\ row' = IF row = None THEN Prepared(Absent, w) ELSE row
    /\ mem' = [mem EXCEPT ![w] = row']
    /\ Goto(w, "securing")
    /\ UNCHANGED <<copy, schemaVars, flock, answer, countVars>>

\* ensure_security_settings reads the row ...
Secure(w) ==
    /\ pc[w] = "securing"
    /\ copy' = [copy EXCEPT ![w] = Prepared(row, w)]
    /\ Goto(w, IF copy'[w] = row THEN "loaded" ELSE "saving")
    /\ UNCHANGED <<row, mem, schemaVars, flock, answer, countVars>>

\* ... and saves it whole if there was something to change.
Save(w) ==
    /\ pc[w] = "saving"
    /\ row' = copy[w]
    /\ mem' = [mem EXCEPT ![w] = row']
    /\ Goto(w, "loaded")
    /\ UNCHANGED <<copy, schemaVars, flock, answer, countVars>>

-----------------------------------------------------------------------------
(* The set-up, in a worker that serves.                                    *)

\* The middleware reads the settings again when its copy is older than two
\* seconds.
Refresh(w) ==
    /\ pc[w] = "serving" /\ mem[w] # row
    /\ mem' = [mem EXCEPT ![w] = row]
    /\ UNCHANGED <<row, copy, schemaVars, flock, pc, answer, countVars>>

\* setup_submit goes by the memory of its worker first: 303.
SetupBegin(s) ==
    /\ pc[s] = "idle" /\ pc[Host[s]] = "serving"
    /\ IF Initialised(mem[Host[s]])
       THEN Goto(s, "over") /\ answer' = [answer EXCEPT ![s] = "already"]
       ELSE Goto(s, "toInstall") /\ UNCHANGED answer
    /\ UNCHANGED <<schemaVars, settingsVars, flock, countVars>>

\* Fault, in no action: the row is not looked at again under the lock.
SetupReadUnchecked(s) ==
    /\ pc[s] = "choosing"
    /\ copy' = [copy EXCEPT ![s] = [row EXCEPT !.password = s]]
    /\ Goto(s, "installing")
    /\ UNCHANGED <<row, mem, schemaVars, flock, answer, countVars>>

\* initialize_system reads the row under the lock; a system that has been
\* initialised is refused.  A valid secret is kept.
SetupRead(s) ==
    /\ pc[s] = "choosing"
    /\ IF Initialised(row)
       THEN /\ answer' = [answer EXCEPT ![s] = "already"]
            /\ Goto(s, "refused")
            /\ UNCHANGED copy
       ELSE /\ copy' = [copy EXCEPT ![s] = [row EXCEPT !.password = s]]
            /\ Goto(s, "installing")
            /\ UNCHANGED answer
    /\ UNCHANGED <<row, mem, schemaVars, flock, countVars>>

SetupWrite(s) ==
    /\ pc[s] = "installing"
    /\ row' = copy[s]
    /\ Goto(s, "installed")
    /\ UNCHANGED <<mem, copy, schemaVars, flock, answer, countVars>>

SetupReload(s) ==
    /\ pc[s] = "reloading"
    /\ mem' = [mem EXCEPT ![Host[s]] = row]
    /\ answer' = [answer EXCEPT ![s] = "done"]
    /\ Goto(s, "over")
    /\ UNCHANGED <<row, copy, schemaVars, flock, countVars>>

-----------------------------------------------------------------------------
\* A worker and its requests are gone, and the system gives its lock back.
Crash(w) ==
    /\ crashes < MaxCrashes
    /\ crashes' = crashes + 1
    /\ pc[w] # "down"
    /\ pc' = [p \in Processes |->
                 IF p = w THEN "down"
                 ELSE IF p \in Setups /\ Host[p] = w /\ pc[p] # "idle" THEN "over"
                 ELSE pc[p]]
    /\ flock' = IF flock # None /\ WorkerOf(flock) = w THEN None ELSE flock
    /\ UNCHANGED <<schemaVars, settingsVars, answer, starts>>

WorkerStep(w) ==
    \/ Skip(w)
    \/ Migrate(w)
    \/ Record(w)
    \/ Migrated(w)
    \/ Load(w)
    \/ Secure(w)
    \/ Save(w)

SetupStep(s) == SetupRead(s) \/ SetupWrite(s) \/ SetupReload(s)

Next ==
    \/ \E p \in Processes : Lock(p) \/ Unlock(p)
    \/ \E w \in Workers : Start(w) \/ WorkerStep(w) \/ Refresh(w) \/ Crash(w)
    \/ \E s \in Setups : SetupBegin(s) \/ SetupStep(s)

Spec == Init /\ [][Next]_vars

\* Processes and handlers run on, and the lock is handed to one that waits.
FairSpec ==
    /\ Spec
    /\ \A p \in Processes : WF_vars(Lock(p)) /\ WF_vars(Unlock(p))
    /\ \A w \in Workers : WF_vars(WorkerStep(w))
    /\ \A s \in Setups : WF_vars(SetupStep(s))

-----------------------------------------------------------------------------
(* Properties that hold.                                                   *)

\* Every variable has its type; who has the lock is in a section that it
\* guards, and nobody else is.
TypeOK ==
    /\ applied \subseteq 1 .. Last
    /\ recorded \subseteq 1 .. Last
    /\ row \in Settings \cup {None}
    /\ mem \in [Workers -> Settings]
    /\ flock \in Processes \cup {None}
    /\ pc \in [Processes -> PcStates]
    /\ \A p \in Processes : flock = p <=> pc[p] \in HoldStates
    /\ at \in [Workers -> 1 .. Last + 1]
    /\ copy \in [Processes -> Settings]
    /\ answer \in [Setups -> {"none", "already", "done"}]
    /\ starts \in Nat
    /\ crashes \in Nat

\* Whose password is in force.
Owner == IF row = None \/ row.password \in Unset THEN None
         ELSE IF row.password \in {"plain", "hashed"} THEN "before"
         ELSE row.password

Abstract == INSTANCE InitializeOnce
              WITH Candidates <- Setups \cup {"before"}, Nobody <- None,
                   winner <- Owner

\* The set-up chooses one password and none replaces it, whatever workers and
\* requests race: the specification of module InitializeOnce.
InitializesOnce == Abstract!Spec

\* What a set-up was told is true: the password of one that was done is in
\* force, and one that was refused came to a system with another password.
AnswersTrue ==
    \A s \in Setups : /\ answer[s] = "done" => Owner = s
                      /\ answer[s] = "already" => Owner \notin {s, None}

\* A worker serves on the whole schema and with settings that are safe, and
\* all workers sign their sessions with one secret; a set-up under way finds
\* them there.
ServesPrepared ==
    \A w \in Workers : pc[w] = "serving" =>
        /\ recorded = 1 .. Last
        /\ row # None /\ row.password \notin {"legacy", "plain"}
        /\ mem[w].secret = row.secret /\ row.secret # "weak"

\* A start fails only when a crash has come between a migration and its record.
StartsUncrashed == \A w \in Workers : pc[w] = "failing" => crashes > 0

\* A worker that starts comes to serve, and only on what it may serve on.
StartsWell == ServesPrepared /\ StartsUncrashed

\* Those that wait in its worker have all the threads, and so whoever has the
\* lock cannot give it back.
Starved == flock # None /\ ~ThreadFree(WorkerOf(flock))

\* Nobody waits for the lock for ever, unless the lock is starved of threads.
LockIsTaken ==
    \A p \in Processes :
        pc[p] \in WaitStates ~> pc[p] \notin WaitStates \/ Starved
=============================================================================
