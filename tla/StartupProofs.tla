---------------------------- MODULE StartupProofs ----------------------------
(***************************************************************************)
(* Proofs about Startup, for every set of workers and set-ups, any number  *)
(* of migrations and crashes: the type invariant with the exclusion of the *)
(* lock file, what a worker serves on, what a set-up was told, and that    *)
(* the set-up implements InitializeOnce.                                   *)
(***************************************************************************)
EXTENDS Startup, TLAPS

-----------------------------------------------------------------------------
(* The inductive invariant.                                                *)

Places ==
    /\ \A w \in Workers :
          pc[w] \in {"down", "toMigrate", "migrating", "recording", "failing",
                     "migrated", "toLoad", "loading", "securing", "saving",
                     "loaded", "serving"}
    /\ \A s \in Setups :
          pc[s] \in {"idle", "toInstall", "choosing", "installing", "refused",
                     "installed", "reloading", "over"}

\* How far the migrations are, and that without a crash each is recorded by
\* the worker that ran it.
SchemaInv ==
    /\ \A w \in Workers :
          /\ pc[w] = "recording" => at[w] \in 1 .. Last
          /\ pc[w] \in {"migrating", "recording"} => 1 .. at[w] - 1 \subseteq recorded
          /\ pc[w] \in {"migrated", "toLoad", "loading", "securing", "saving",
                        "loaded", "serving"} => recorded = 1 .. Last
    /\ crashes = 0 =>
          \A m \in applied \ recorded :
              \E w \in Workers : pc[w] = "recording" /\ at[w] = m
    /\ StartsUncrashed

\* The settings that a process is going to write were made from the row.
CopyInv ==
    /\ \A w \in Workers :
          /\ pc[w] = "securing" => mem[w] = row
          /\ pc[w] = "saving" => copy[w] = Prepared(row, w)
    /\ \A s \in Setups :
          pc[s] = "installing" =>
              copy[s] = [row EXCEPT !.password = s] /\ ~Initialised(row)

\* Where the row is known to be there.
RowInv ==
    /\ \A w \in Workers :
          pc[w] \in {"securing", "saving", "loaded", "serving"} => row # None
    /\ \A s \in Setups : pc[s] \notin {"idle", "over"} => row # None

Prepares(w) == /\ row.password \notin {"legacy", "plain"}
               /\ mem[w].secret = row.secret /\ row.secret # "weak"

Serving == \A w \in Workers : pc[w] \in {"loaded", "serving"} => Prepares(w)

\* Whose password can be in the row.
OwnerInv ==
    /\ \A w \in Workers :
          Initialised(mem[w]) => row # None /\ Initialised(row)
    /\ \A s \in Setups :
          /\ pc[s] \in {"installed", "reloading"} \/ answer[s] = "done" =>
                row # None /\ row.password = s
          /\ row # None /\ row.password = s =>
                pc[s] \in {"installed", "reloading", "over"} /\ answer[s] # "already"
          /\ pc[s] \notin {"over", "refused"} => answer[s] = "none"
          /\ answer[s] = "already" => row # None /\ Initialised(row)

IInv == TypeOK /\ Places /\ SchemaInv /\ CopyInv /\ RowInv /\ Serving /\ OwnerInv

-----------------------------------------------------------------------------
\* prepare_security_config keeps the owner and leaves nothing unsafe.
LEMMA Preparing ==
    ASSUME NEW c \in Settings, NEW w \in Workers
    PROVE  /\ Prepared(c, w) \in Settings
           /\ Prepared(c, w).password \notin {"legacy", "plain"}
           /\ Prepared(c, w).secret # "weak"
           /\ c.secret # "weak" => Prepared(c, w).secret = c.secret
           /\ Initialised(Prepared(c, w)) <=> Initialised(c)
           /\ \A s \in Setups : Prepared(c, w).password = s <=> c.password = s
BY StartupConstants DEF Prepared, Settings, Passwords, Unset, Initialised

LEMMA Rows ==
    /\ Absent \in Settings /\ ~Initialised(Absent)
    /\ None \notin Settings
    /\ \A c \in Settings, s \in Setups :
          LET d == [c EXCEPT !.password = s]
          IN  d \in Settings /\ d.password = s /\ d.secret = c.secret
              /\ Initialised(d)
BY StartupConstants DEF Absent, Settings, Passwords, Unset, Initialised

LEMMA FreshRow ==
    ASSUME NEW w \in Workers
    PROVE  /\ Prepared(Absent, w) \in Settings
           /\ ~Initialised(Prepared(Absent, w))
           /\ \A s \in Setups : Prepared(Absent, w).password # s
<1>1. \A s \in Setups : Absent.password # s
  BY StartupConstants DEF Absent, Unset
<1> QED
  BY <1>1, Rows, Preparing

LEMMA Past ==
    ASSUME NEW n \in Nat, NEW a \in 1 .. n + 1
    PROVE  /\ a > n => 1 .. a - 1 = 1 .. n
           /\ a <= n => a \in 1 .. n /\ a + 1 \in 1 .. n + 1
           /\ a \in 1 .. n => a + 1 \in 1 .. n + 1
OBVIOUS

\* Every step keeps the types, and the lock to who is in a section it guards.
LEMMA TypeStep ==
    ASSUME TypeOK, Places, SchemaInv, RowInv, [Next]_vars
    PROVE  TypeOK' /\ Places'
<1> USE StartupConstants DEF TypeOK, Places, Processes, WaitStates, HoldStates,
        PcStates, Goto, schemaVars, settingsVars, countVars
<1>1. ASSUME NEW p \in Processes, Lock(p) PROVE TypeOK' /\ Places'
  BY <1>1 DEF Lock, Holds
<1>2. ASSUME NEW p \in Processes, Unlock(p) PROVE TypeOK' /\ Places'
  BY <1>2 DEF Unlock, After
<1>3. ASSUME NEW w \in Workers, Start(w) PROVE TypeOK' /\ Places'
  BY <1>3 DEF Start
<1>4. ASSUME NEW w \in Workers, Skip(w) PROVE TypeOK' /\ Places'
  BY <1>4 DEF Skip, SchemaInv
<1>5. ASSUME NEW w \in Workers, Migrate(w) PROVE TypeOK' /\ Places'
  <2>1. /\ pc[w] = "migrating"
        /\ \E l \in {"failing", "recording"} : pc' = [pc EXCEPT ![w] = l]
    BY <1>5 DEF Migrate
  <2>2. applied' \in SUBSET (1 .. Last)
    <3>1. /\ applied' \in {applied, applied \cup {at[w]}}
          /\ at[w] \in 1 .. Last /\ applied \in SUBSET (1 .. Last)
      BY <1>5 DEF Migrate
    <3> QED
      BY ONLY <3>1
  <2>3. UNCHANGED <<recorded, at, row, mem, copy, flock, answer, starts, crashes>>
    BY <1>5 DEF Migrate
  <2> QED
    BY <2>1, <2>2, <2>3
<1>6. ASSUME NEW w \in Workers, Record(w) PROVE TypeOK' /\ Places'
  <2>1. at[w] \in 1 .. Last
    BY <1>6 DEF Record, SchemaInv
  <2>2. recorded' \in SUBSET (1 .. Last)
    BY <1>6, <2>1 DEF Record
  <2>3. at' \in [Workers -> 1 .. Last + 1]
    <3>1. at[w] + 1 \in 1 .. Last + 1
      BY <2>1, Past
    <3> QED
      BY <1>6, <3>1 DEF Record
  <2> QED
    BY <1>6, <2>2, <2>3 DEF Record
<1>7. ASSUME NEW w \in Workers, Migrated(w) PROVE TypeOK' /\ Places'
  BY <1>7 DEF Migrated
<1>8. ASSUME NEW w \in Workers, Load(w) PROVE TypeOK' /\ Places'
  BY <1>8, Preparing, Rows DEF Load
<1>9. ASSUME NEW w \in Workers, Secure(w) PROVE TypeOK' /\ Places'
  BY <1>9, Preparing, Rows DEF Secure, RowInv
<1>10. ASSUME NEW w \in Workers, Save(w) PROVE TypeOK' /\ Places'
  BY <1>10 DEF Save, RowInv
<1>11. ASSUME NEW w \in Workers, Refresh(w) PROVE TypeOK' /\ Places'
  BY <1>11 DEF Refresh, RowInv
<1>12. ASSUME NEW w \in Workers, Crash(w) PROVE TypeOK' /\ Places'
  BY <1>12 DEF Crash, WorkerOf
<1>13. ASSUME NEW s \in Setups, SetupBegin(s) PROVE TypeOK' /\ Places'
  BY <1>13 DEF SetupBegin
<1>14. ASSUME NEW s \in Setups, SetupRead(s) PROVE TypeOK' /\ Places'
  <2>1. row \in Settings
    BY <1>14 DEF SetupRead, RowInv
  <2>2. copy' \in [Processes -> Settings]
    BY <1>14, <2>1, Rows DEF SetupRead
  <2>3. /\ answer' \in [Setups -> {"none", "already", "done"}]
        /\ pc' = [pc EXCEPT ![s] = pc'[s]] /\ pc[s] = "choosing"
        /\ pc'[s] \in {"refused", "installing"}
        /\ UNCHANGED <<applied, recorded, at, row, mem, flock, starts, crashes>>
    BY <1>14 DEF SetupRead
  <2> QED
    BY <2>2, <2>3
<1>15. ASSUME NEW s \in Setups, SetupWrite(s) PROVE TypeOK' /\ Places'
  BY <1>15 DEF SetupWrite
<1>16. ASSUME NEW s \in Setups, SetupReload(s) PROVE TypeOK' /\ Places'
  BY <1>16 DEF SetupReload, RowInv
<1>17. CASE UNCHANGED vars
  BY <1>17 DEF vars
<1> QED
  BY <1>1, <1>2, <1>3, <1>4, <1>5, <1>6, <1>7, <1>8, <1>9, <1>10, <1>11,
     <1>12, <1>13, <1>14, <1>15, <1>16, <1>17
     DEF Next, WorkerStep, SetupStep

\* A worker goes on only on a schema that is whole.
LEMMA SchemaStep ==
    ASSUME TypeOK, Places, SchemaInv, [Next]_vars
    PROVE  SchemaInv'
<1> USE StartupConstants DEF TypeOK, Places, SchemaInv, StartsUncrashed, Processes,
        WaitStates, HoldStates, Goto, schemaVars, settingsVars, countVars
<1>1. ASSUME NEW p \in Processes, Lock(p) PROVE SchemaInv'
  BY <1>1 DEF Lock, Holds
<1>2. ASSUME NEW p \in Processes, Unlock(p) PROVE SchemaInv'
  BY <1>2 DEF Unlock, After
<1>3. ASSUME NEW w \in Workers, Start(w) PROVE SchemaInv'
  BY <1>3 DEF Start
<1>4. ASSUME NEW w \in Workers, Skip(w) PROVE SchemaInv'
  BY <1>4 DEF Skip
<1>5. ASSUME NEW w \in Workers, Migrate(w) PROVE SchemaInv'
  <2>1. CASE Blocked(at[w])
    <3>1. crashes > 0
      BY <1>5, <2>1 DEF Migrate, Blocked
    <3> QED
      BY <1>5, <2>1, <3>1 DEF Migrate
  <2>2. CASE ~Blocked(at[w])
    <3>1. /\ pc' = [pc EXCEPT ![w] = "recording"] /\ pc[w] = "migrating"
          /\ at[w] \in 1 .. Last /\ applied' = applied \cup {at[w]}
          /\ UNCHANGED <<recorded, at, flock, crashes>>
      BY <1>5, <2>2 DEF Migrate
    <3>2. crashes' = 0 => \A m \in applied' \ recorded' :
              \E v \in Workers : pc'[v] = "recording" /\ at'[v] = m
      BY <3>1
    <3> QED
      BY <3>1, <3>2
  <2> QED
    BY <2>1, <2>2
<1>6. ASSUME NEW w \in Workers, Record(w) PROVE SchemaInv'
  BY <1>6 DEF Record
<1>7. ASSUME NEW w \in Workers, Migrated(w) PROVE SchemaInv'
  <2>1. 1 .. at[w] - 1 = 1 .. Last
    <3>1. at[w] \in 1 .. Last + 1 /\ at[w] > Last /\ Last \in Nat
      BY <1>7 DEF Migrated
    <3> QED
      BY ONLY <3>1, Past
  <2>2. recorded = 1 .. Last
    BY <1>7, <2>1 DEF Migrated
  <2> QED
    BY <1>7, <2>2 DEF Migrated
<1>8. ASSUME NEW w \in Workers, Load(w) PROVE SchemaInv'
  BY <1>8 DEF Load
<1>9. ASSUME NEW w \in Workers, Secure(w) PROVE SchemaInv'
  BY <1>9 DEF Secure
<1>10. ASSUME NEW w \in Workers, Save(w) PROVE SchemaInv'
  BY <1>10 DEF Save
<1>11. ASSUME NEW w \in Workers, Refresh(w) PROVE SchemaInv'
  BY <1>11 DEF Refresh
<1>12. ASSUME NEW w \in Workers, Crash(w) PROVE SchemaInv'
  BY <1>12 DEF Crash
<1>13. ASSUME NEW s \in Setups, SetupBegin(s) PROVE SchemaInv'
  BY <1>13 DEF SetupBegin
<1>14. ASSUME NEW s \in Setups, SetupRead(s) PROVE SchemaInv'
  BY <1>14 DEF SetupRead
<1>15. ASSUME NEW s \in Setups, SetupWrite(s) PROVE SchemaInv'
  BY <1>15 DEF SetupWrite
<1>16. ASSUME NEW s \in Setups, SetupReload(s) PROVE SchemaInv'
  BY <1>16 DEF SetupReload
<1>17. CASE UNCHANGED vars
  BY <1>17 DEF vars
<1> QED
  BY <1>1, <1>2, <1>3, <1>4, <1>5, <1>6, <1>7, <1>8, <1>9, <1>10, <1>11,
     <1>12, <1>13, <1>14, <1>15, <1>16, <1>17
     DEF Next, WorkerStep, SetupStep

\* The settings stay prepared for who serves, and their password with its owner.
LEMMA RowsStep ==
    ASSUME IInv, TypeOK', Places', [Next]_vars
    PROVE  CopyInv' /\ RowInv' /\ Serving' /\ OwnerInv'
<1> USE StartupConstants DEF IInv, TypeOK, Places, CopyInv, RowInv, Serving, Prepares,
        OwnerInv, Processes, WaitStates, HoldStates, Goto, schemaVars,
        settingsVars, countVars
<1>1. ASSUME NEW p \in Processes, Lock(p) PROVE CopyInv' /\ RowInv' /\ Serving' /\ OwnerInv'
  BY <1>1 DEF Lock, Holds
<1>2. ASSUME NEW p \in Processes, Unlock(p) PROVE CopyInv' /\ RowInv' /\ Serving' /\ OwnerInv'
  BY <1>2 DEF Unlock, After
<1>3. ASSUME NEW w \in Workers, Start(w) PROVE CopyInv' /\ RowInv' /\ Serving' /\ OwnerInv'
  BY <1>3 DEF Start
<1>4. ASSUME NEW w \in Workers, Skip(w) PROVE CopyInv' /\ RowInv' /\ Serving' /\ OwnerInv'
  BY <1>4 DEF Skip
<1>5. ASSUME NEW w \in Workers, Migrate(w) PROVE CopyInv' /\ RowInv' /\ Serving' /\ OwnerInv'
  BY <1>5 DEF Migrate
<1>6. ASSUME NEW w \in Workers, Record(w) PROVE CopyInv' /\ RowInv' /\ Serving' /\ OwnerInv'
  BY <1>6 DEF Record
<1>7. ASSUME NEW w \in Workers, Migrated(w) PROVE CopyInv' /\ RowInv' /\ Serving' /\ OwnerInv'
  BY <1>7 DEF Migrated
<1>8. ASSUME NEW w \in Workers, Load(w) PROVE CopyInv' /\ RowInv' /\ Serving' /\ OwnerInv'
  <2>1. /\ pc[w] = "loading" /\ flock = w
        /\ row' = IF row = None THEN Prepared(Absent, w) ELSE row
        /\ mem' = [mem EXCEPT ![w] = row']
        /\ pc' = [pc EXCEPT ![w] = "securing"]
        /\ UNCHANGED <<copy, flock, answer>>
    BY <1>8 DEF Load
  <2>2. /\ \A v \in Workers : pc[v] \notin {"securing", "saving", "loaded"}
        /\ \A s \in Setups : pc[s] # "installing"
    BY <2>1
  <2>3. CASE row # None
    BY <2>1, <2>2, <2>3
  <2>4. CASE row = None
    <3>1. /\ row' \in Settings /\ row' # None /\ ~Initialised(row')
          /\ \A s \in Setups : row'.password # s
      BY <2>1, <2>4, FreshRow, Rows
    <3>2. /\ \A v \in Workers : ~Initialised(mem[v]) /\ pc[v] # "serving"
          /\ \A s \in Setups : /\ pc[s] \in {"idle", "over"}
                                /\ answer[s] = "none"
      BY <2>4
    <3> QED
      BY <2>1, <2>2, <3>1, <3>2
  <2> QED
    BY <2>3, <2>4
<1>9. ASSUME NEW w \in Workers, Secure(w) PROVE CopyInv' /\ RowInv' /\ Serving' /\ OwnerInv'
  BY <1>9, Preparing, Rows DEF Secure
<1>10. ASSUME NEW w \in Workers, Save(w) PROVE CopyInv' /\ RowInv' /\ Serving' /\ OwnerInv'
  <2>1. /\ row \in Settings /\ row # None /\ flock = w
        /\ row' = Prepared(row, w)
        /\ mem' = [mem EXCEPT ![w] = row']
        /\ pc' = [pc EXCEPT ![w] = "loaded"]
        /\ UNCHANGED <<copy, flock, answer>>
    BY <1>10 DEF Save
  <2>2. /\ row' \in Settings /\ row' # None
        /\ row'.password \notin {"legacy", "plain"} /\ row'.secret # "weak"
        /\ row.secret # "weak" => row'.secret = row.secret
        /\ Initialised(row') <=> Initialised(row)
        /\ \A s \in Setups : row'.password = s <=> row.password = s
    BY <2>1, Preparing, Rows
  <2>3. /\ \A v \in Workers \ {w} : pc[v] \notin {"securing", "saving", "loaded"}
        /\ \A s \in Setups : pc[s] # "installing"
    BY <2>1
  <2>4. CopyInv' /\ RowInv'
    BY <2>1, <2>2, <2>3
  <2>5. Serving'
    BY <2>1, <2>2, <2>3
  <2>6. OwnerInv'
    BY <2>1, <2>2
  <2> QED
    BY <2>4, <2>5, <2>6
<1>11. ASSUME NEW w \in Workers, Refresh(w) PROVE CopyInv' /\ RowInv' /\ Serving' /\ OwnerInv'
  BY <1>11 DEF Refresh
<1>12. ASSUME NEW w \in Workers, Crash(w) PROVE CopyInv' /\ RowInv' /\ Serving' /\ OwnerInv'
  BY <1>12 DEF Crash
<1>13. ASSUME NEW s \in Setups, SetupBegin(s) PROVE CopyInv' /\ RowInv' /\ Serving' /\ OwnerInv'
  BY <1>13 DEF SetupBegin, Initialised, Unset
<1>14. ASSUME NEW s \in Setups, SetupRead(s) PROVE CopyInv' /\ RowInv' /\ Serving' /\ OwnerInv'
  BY <1>14, Rows DEF SetupRead
<1>15. ASSUME NEW s \in Setups, SetupWrite(s) PROVE CopyInv' /\ RowInv' /\ Serving' /\ OwnerInv'
  <2>1. /\ row \in Settings /\ ~Initialised(row) /\ flock = s
        /\ row' = [row EXCEPT !.password = s]
        /\ pc' = [pc EXCEPT ![s] = "installed"]
        /\ UNCHANGED <<mem, copy, flock, answer>>
    BY <1>15 DEF SetupWrite
  <2>2. /\ row' \in Settings /\ row'.password = s /\ row'.secret = row.secret
        /\ Initialised(row') /\ row' # None
    BY <2>1, Rows
  <2>3. \A w \in Workers : pc[w] \notin {"securing", "saving", "loaded"}
    BY <2>1
  <2>4. \A r \in Setups \ {s} :
           /\ pc[r] \notin {"installing", "installed", "reloading"}
           /\ answer[r] = "none"
    <3> SUFFICES ASSUME NEW r \in Setups \ {s}
                 PROVE  /\ pc[r] \notin {"installing", "installed", "reloading"}
                        /\ answer[r] = "none"
      OBVIOUS
    <3>1. row.password # r
      BY <2>1 DEF Initialised, Unset
    <3> QED
      BY <2>1, <3>1
  <2>5. answer[s] = "none" /\ pc[s] = "installing"
    BY <1>15 DEF SetupWrite
  <2>6. CopyInv' /\ RowInv'
    BY <2>1, <2>2, <2>3, <2>4
  <2>7. Serving'
    <3>1. row'.password \notin {"legacy", "plain"}
      <4>1. s \notin {"legacy", "plain"}
        BY ONLY StartupConstants, s \in Setups DEF Unset
      <4> QED
        BY ONLY <2>2, <4>1
    <3>2. ASSUME NEW w \in Workers, pc'[w] \in {"loaded", "serving"}
          PROVE  pc[w] = "serving" /\ mem'[w].secret = row.secret
                 /\ row.secret # "weak"
      BY <2>1, <2>3, <3>2
    <3> QED
      BY <2>2, <3>1, <3>2
  <2>8. OwnerInv'
    BY <2>1, <2>2, <2>4, <2>5
  <2> QED
    BY <2>6, <2>7, <2>8
<1>16. ASSUME NEW s \in Setups, SetupReload(s) PROVE CopyInv' /\ RowInv' /\ Serving' /\ OwnerInv'
  BY <1>16 DEF SetupReload, Initialised, Unset
<1>17. CASE UNCHANGED vars
  BY <1>17 DEF vars
<1> QED
  BY <1>1, <1>2, <1>3, <1>4, <1>5, <1>6, <1>7, <1>8, <1>9, <1>10, <1>11,
     <1>12, <1>13, <1>14, <1>15, <1>16, <1>17
     DEF Next, WorkerStep, SetupStep

-----------------------------------------------------------------------------
LEMMA Initially == Init => IInv
<1> SUFFICES ASSUME Init PROVE IInv
  OBVIOUS
<1> USE StartupConstants DEF Init, Processes
<1>1. Absent \in Settings /\ ~Initialised(Absent) /\ None \notin Settings
  BY Rows
<1>2. row \in Settings \cup {None}
  BY DEF Settings
<1>3. /\ applied \subseteq 1 .. Last
      /\ \A s \in Setups : row # None => row.password # s
  BY DEF Passwords
<1>4. TypeOK /\ Places
  BY <1>1, <1>2, <1>3 DEF TypeOK, Places, PcStates, WaitStates, HoldStates
<1>5. SchemaInv
  BY DEF SchemaInv, StartsUncrashed
<1>6. CopyInv /\ RowInv /\ Serving
  BY DEF CopyInv, RowInv, Serving
<1>7. OwnerInv
  BY <1>1, <1>3 DEF OwnerInv
<1> QED
  BY <1>4, <1>5, <1>6, <1>7 DEF IInv

LEMMA Inductive == IInv /\ [Next]_vars => IInv'
<1> SUFFICES ASSUME IInv, [Next]_vars PROVE IInv'
  OBVIOUS
<1>1. TypeOK' /\ Places'
  BY TypeStep DEF IInv
<1> QED
  BY <1>1, SchemaStep, RowsStep DEF IInv

LEMMA Always == Spec => []IInv
BY Initially, Inductive, PTL DEF Spec

\* The types, and the lock file: whoever is in a section that it guards has it.
THEOREM Typing == Spec => []TypeOK
<1>1. IInv => TypeOK
  BY DEF IInv
<1> QED
  BY <1>1, Always, PTL

\* A worker that starts comes to serve on a whole schema and on safe settings,
\* whatever crashed before; without a crash no start fails.
THEOREM Starting == Spec => []StartsWell
<1>1. IInv => StartsWell
  BY DEF IInv, StartsWell, ServesPrepared, StartsUncrashed, SchemaInv, RowInv,
         Serving, Prepares
<1> QED
  BY <1>1, Always, PTL

LEMMA OwnerOf ==
    ASSUME row \in Settings
    PROVE  /\ Owner # None <=> Initialised(row)
           /\ Owner \in Setups \cup {"before", None}
           /\ \A s \in Setups : Owner = s <=> row.password = s
BY StartupConstants DEF Owner, Initialised, Settings, Passwords, Unset, Processes

\* What a set-up was told is true.
THEOREM Answers == Spec => []AnswersTrue
<1>1. IInv => AnswersTrue
  <2> SUFFICES ASSUME IInv, NEW s \in Setups
               PROVE  /\ answer[s] = "done" => Owner = s
                      /\ answer[s] = "already" => Owner \notin {s, None}
    BY DEF AnswersTrue
  <2> QED
    BY OwnerOf DEF IInv, TypeOK, OwnerInv
<1> QED
  BY <1>1, Always, PTL

\* A step leaves the owner alone, or it is a set-up that is the first.
LEMMA OwnerStep ==
    ASSUME IInv, TypeOK', [Next]_vars
    PROVE  \/ Owner' = Owner
           \/ Owner = None /\ Owner' \in Setups
<1>1. CASE row' = row
  BY <1>1 DEF Owner
<1>2. ASSUME NEW w \in Workers, Load(w) PROVE Owner' = Owner
  <2>1. CASE row = None
    <3>1. row' = Prepared(Absent, w) /\ ~Initialised(row')
      BY <1>2, <2>1, Rows, Preparing DEF Load
    <3> QED
      BY <2>1, <3>1 DEF Owner, Initialised
  <2>2. CASE row # None
    BY <1>2, <2>2 DEF Load, Owner
  <2> QED
    BY <2>1, <2>2
<1>3. ASSUME NEW w \in Workers, Save(w) PROVE Owner' = Owner
  <2>1. row \in Settings /\ row' = Prepared(row, w)
    BY <1>3 DEF Save, IInv, TypeOK, RowInv, CopyInv
  <2>2. row' \in Settings
    BY <2>1, Preparing
  <2>3. /\ row'.password = IF row.password = "legacy" THEN "unset"
                           ELSE IF row.password = "plain" THEN "hashed"
                           ELSE row.password
        /\ row # None /\ row' # None
    BY <2>1, <2>2, Rows DEF Prepared
  <2> QED
    BY <2>3 DEF Owner, Unset
<1>4. ASSUME NEW s \in Setups, SetupWrite(s)
      PROVE  Owner = None /\ Owner' = s
  <2>1. row \in Settings /\ ~Initialised(row)
        /\ row' = [row EXCEPT !.password = s]
    BY <1>4 DEF SetupWrite, IInv, TypeOK, RowInv, CopyInv
  <2>2. row' \in Settings /\ row' # None /\ row'.password = s
    BY <2>1, Rows
  <2>3. Owner' = s
    BY <2>2, StartupConstants DEF Owner, Unset
  <2> QED
    BY <2>1, <2>3, OwnerOf
<1> QED
  BY <1>1, <1>2, <1>3, <1>4
     DEF Next, WorkerStep, SetupStep, vars, schemaVars, settingsVars, countVars,
         Lock, Unlock, Start, Skip, Migrate, Record, Migrated, Secure, Refresh,
         Crash, SetupBegin, SetupRead, SetupReload

\* The set-up implements InitializeOnce: one password is chosen, for ever.
THEOREM Refinement == Spec => InitializesOnce
<1>1. Init => Abstract!Init
  <2> SUFFICES ASSUME Init PROVE Owner \in Setups \cup {"before", None}
    BY DEF Abstract!Init, Abstract!TypeOK
  <2> QED
    BY OwnerOf DEF Init, Owner, Settings
<1>2. IInv /\ [Next]_vars => [Abstract!Next]_Owner
  <2> SUFFICES ASSUME IInv, [Next]_vars PROVE [Abstract!Next]_Owner
    OBVIOUS
  <2>1. TypeOK'
    BY Inductive DEF IInv
  <2> QED
    BY <2>1, OwnerStep DEF Abstract!Next, Abstract!Choose
<1> QED
  BY <1>1, <1>2, Always, PTL DEF Spec, InitializesOnce, Abstract!Spec
=============================================================================
