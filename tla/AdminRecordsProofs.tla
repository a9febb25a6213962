------------------------- MODULE AdminRecordsProofs -------------------------
(***************************************************************************)
(* Proofs about AdminRecords, for every set of requests, every length of   *)
(* the lists and every number of crashes: the type invariant with the      *)
(* exclusion of the lock, the lists, the settings, and notes and tags.     *)
(***************************************************************************)
EXTENDS AdminRecords, FiniteSetTheorems, TLAPS

-----------------------------------------------------------------------------
(* The inductive invariant.                                                *)

\* Where a request is that has been answered and tells the log.
Recording == {"log", "reading", "logging", "over"}

\* Which requests come to which steps, and that none changes a list twice.
Places ==
    /\ \A r \in Requests :
          /\ pc[r] \in {"queueing", "writing", "reloading"} => r \in Updates
          /\ pc[r] \in {"rehashing", "renewing"} => r \in Logins
          /\ pc[r] \in {"presets", "listing", "saving"} => r \in Saves \cup Drops
          /\ pc[r] \in {"merging", "storing"} => r \in Meta
          /\ pc[r] \in {"forgetting", "deleting"} => r \in Deletes
    /\ \A r \in recorded : pc[r] = "over"
    /\ \A u \in Updates \cap answered : ~Writing(u) /\ pc[u] # "idle"
    /\ \A r \in (Saves \cup Drops) \cap answered : pc[r] \in Recording

\* What was read under the lock is what the table has.
ReadInv ==
    \A r \in Requests :
        /\ pc[r] = "logging" => copy[r] = log
        /\ pc[r] = "saving" =>
              /\ copy[r] = presets
              /\ r \in Saves => r \in presets \/ Cardinality(presets) < MaxPresets
              /\ r \in Drops => Target[r] \in presets

ListsInv == IsFiniteSet(presets) /\ IsFiniteSet(log) /\ ReadInv /\ ListsKept

\* Writers of the settings that were under way together are known to be.
Together ==
    \A v, w \in Writers : v # w /\ Writing(v) /\ Writing(w) => v \in crossed

Pending(w) == pc[w] \in {"queueing", "writing", "rehashing", "renewing"}

\* A change that was written by a writer alone is in the table, and one that
\* was answered in memory and in all that anybody is going to write.
Carried ==
    \A u \in Updates :
        /\ pc[u] \in {"queueing", "writing"} => u \in config[u].opts
        /\ u \notin crossed =>
              /\ pc[u] = "reloading" => u \in row.opts
              /\ u \in answered =>
                    /\ u \in row.opts /\ u \in mem.opts
                    /\ \A w \in Writers : Pending(w) => u \in config[w].opts

\* A secret is not there before the request that makes it.
Fresh ==
    \A u \in Updates :
        /\ u \notin before[u]
        /\ pc[u] = "idle" =>
              /\ u # row.secret /\ u # mem.secret
              /\ \A w \in Writers : u # config[w].secret
              /\ \A v \in Updates : u \notin before[v]

\* The secrets that a change of the password has ended do not come back.
Ended ==
    \A u \in Passwords :
        /\ pc[u] \in {"queueing", "writing"} => config[u].secret = u
        /\ u \notin crossed =>
              /\ pc[u] = "reloading" => row.secret \notin before[u]
              /\ u \in answered =>
                    /\ row.secret \notin before[u] /\ mem.secret \notin before[u]
                    /\ \A w \in Writers :
                           Pending(w) => config[w].secret \notin before[u]

\* As long as no writers met and none ended without an answer, memory follows
\* the table.
Current ==
    crossed = {} /\ ~Unread =>
        /\ mem = row \/ \E u \in Updates : pc[u] = "reloading"
        /\ \A l \in Logins :
              /\ pc[l] = "rehashing" => config[l] = row
              /\ pc[l] = "renewing" => config[l] = [row EXCEPT !.weak = FALSE]

SettingsInv == Together /\ Carried /\ Fresh /\ Ended /\ Current

-----------------------------------------------------------------------------
\* The records that the steps build.
LEMMA SettingsTypes ==
    ASSUME NEW c \in Settings, NEW d \in Settings
    PROVE  /\ \A u \in Updates : Changed(u, c) \in Settings
           /\ [c EXCEPT !.password = d.password, !.weak = FALSE] \in Settings
<1> USE DEF Settings
<1>1. ASSUME NEW u \in Updates PROVE Changed(u, c) \in Settings
  <2>1. (c.weak /\ u \notin Passwords) \in BOOLEAN
    OBVIOUS
  <2>2. c.opts \cup {u} \in SUBSET Updates
    OBVIOUS
  <2>3. /\ (IF u \in Passwords THEN u ELSE c.password) \in Updates \cup {First}
        /\ (IF u \in Passwords THEN u ELSE c.secret) \in Updates \cup {First}
    OBVIOUS
  <2> QED
    BY <2>1, <2>2, <2>3, Zenon DEF Changed
<1>2. [c EXCEPT !.password = d.password, !.weak = FALSE] \in Settings
  OBVIOUS
<1> QED
  BY <1>1, <1>2

LEMMA MetaTypes ==
    ASSUME NEW m \in MetaRows, NEW r
    PROVE  LET x == [there |-> TRUE, note |-> IF r \in Notes THEN r ELSE m.note,
                     tags |-> IF r \in Tags THEN r ELSE m.tags]
           IN x \in MetaRows /\ NoMeta \in MetaRows
BY DEF MetaRows, NoMeta

\* Every step keeps the types, and the lock to who is in a section it guards.
LEMMA TypeStep ==
    ASSUME TypeOK, Places, ReadInv, [Next]_vars
    PROVE  TypeOK'
<1> USE RecordsConstants DEF TypeOK, Requests, Writers, Meta, WaitStates,
        HoldStates, FreeStates, Goto, settingsVars, listVars, fileVars
<1>1. ASSUME NEW r \in Updates, UpdateBegin(r) PROVE TypeOK'
  <2>1. /\ pc' \in [Requests -> WaitStates \cup HoldStates \cup FreeStates]
        /\ lock' \in Requests \cup {None}
        /\ \A q \in Requests : lock' = q <=> pc'[q] \in HoldStates
    BY <1>1 DEF UpdateBegin, Contended, MayBegin
  <2>2. config' \in [Writers -> Settings]
    BY <1>1, SettingsTypes DEF UpdateBegin
  <2>3. before' \in [Updates -> SUBSET (Updates \cup {First})]
    BY <1>1 DEF UpdateBegin, Settings
  <2>4. crossed' \subseteq Writers
    BY <1>1 DEF UpdateBegin, Crosses, Writing, Places
  <2> QED
    BY <1>1, <2>1, <2>2, <2>3, <2>4 DEF UpdateBegin, Contended
<1>2. ASSUME NEW r \in Updates, UpdateWrite(r) PROVE TypeOK'
  BY <1>2 DEF UpdateWrite
<1>3. ASSUME NEW r \in Updates, Reload(r) PROVE TypeOK'
  BY <1>3 DEF Reload
<1>4. ASSUME NEW r \in Logins, LoginBegin(r) PROVE TypeOK'
  <2>1. /\ pc' \in [Requests -> WaitStates \cup HoldStates \cup FreeStates]
        /\ lock' \in Requests \cup {None}
        /\ \A q \in Requests : lock' = q <=> pc'[q] \in HoldStates
    BY <1>4 DEF LoginBegin, MayBegin
  <2>2. config' \in [Writers -> Settings]
    BY <1>4 DEF LoginBegin
  <2>3. crossed' \subseteq Writers
    BY <1>4 DEF LoginBegin, Crosses, Writing, Places
  <2> QED
    BY <1>4, <2>1, <2>2, <2>3 DEF LoginBegin
<1>5. ASSUME NEW r \in Logins, LoginRead(r) PROVE TypeOK'
  <2>1. /\ pc' \in [Requests -> WaitStates \cup HoldStates \cup FreeStates]
        /\ lock' \in Requests \cup {None}
        /\ \A q \in Requests : lock' = q <=> pc'[q] \in HoldStates
    BY <1>5 DEF LoginRead
  <2>2. config' \in [Writers -> Settings]
    BY <1>5, SettingsTypes DEF LoginRead
  <2> QED
    BY <1>5, <2>1, <2>2 DEF LoginRead
<1>6. ASSUME NEW r \in Logins, LoginWrite(r) PROVE TypeOK'
  <2>1. /\ pc' \in [Requests -> WaitStates \cup HoldStates \cup FreeStates]
        /\ lock' \in Requests \cup {None}
        /\ \A q \in Requests : lock' = q <=> pc'[q] \in HoldStates
    BY <1>6 DEF LoginWrite
  <2>2. mem' \in Settings /\ row' \in Settings
    BY <1>6, SettingsTypes DEF LoginWrite
  <2> QED
    BY <1>6, <2>1, <2>2 DEF LoginWrite
<1>7. ASSUME NEW r \in Requests, Acquire(r) PROVE TypeOK'
  BY <1>7 DEF Acquire, HoldsFor
<1>8. ASSUME NEW r \in Requests, PresetBegin(r) PROVE TypeOK'
  <2>1. /\ pc' \in [Requests -> WaitStates \cup HoldStates \cup FreeStates]
        /\ lock' \in Requests \cup {None}
        /\ \A q \in Requests : lock' = q <=> pc'[q] \in HoldStates
    BY <1>8 DEF PresetBegin, MayBegin
  <2> QED
    BY <1>8, <2>1 DEF PresetBegin
<1>9. ASSUME NEW r \in Requests, PresetRead(r) PROVE TypeOK'
  BY <1>9 DEF PresetRead
<1>10. ASSUME NEW r \in Requests, PresetWrite(r) PROVE TypeOK'
  <2>1. /\ pc' \in [Requests -> WaitStates \cup HoldStates \cup FreeStates]
        /\ lock' \in Requests \cup {None}
        /\ \A q \in Requests : lock' = q <=> pc'[q] \in HoldStates
    BY <1>10 DEF PresetWrite
  <2>2. presets' \subseteq Saves /\ wanted' \subseteq Saves
    BY <1>10 DEF PresetWrite, WithPreset, Places, ReadInv
  <2> QED
    BY <1>10, <2>1, <2>2 DEF PresetWrite
<1>11. ASSUME NEW r \in Requests, LogRead(r) PROVE TypeOK'
  BY <1>11 DEF LogRead
<1>12. ASSUME NEW r \in Requests, LogWrite(r) PROVE TypeOK'
  BY <1>12 DEF LogWrite
<1>13. ASSUME NEW r \in Requests, LogFails(r) PROVE TypeOK'
  BY <1>13 DEF LogFails
<1>14. ASSUME NEW r \in Meta, MetaBegin(r) PROVE TypeOK'
  <2>1. /\ pc' \in [Requests -> WaitStates \cup HoldStates \cup FreeStates]
        /\ lock' \in Requests \cup {None}
        /\ \A q \in Requests : lock' = q <=> pc'[q] \in HoldStates
    BY <1>14 DEF MetaBegin, MayBegin
  <2>2. mixed' \subseteq Meta \cup Deletes
    BY <1>14 DEF MetaBegin, Mixes, OnFile, Places
  <2> QED
    BY <1>14, <2>1, <2>2 DEF MetaBegin
<1>15. ASSUME NEW r \in Meta, MetaRead(r) PROVE TypeOK'
  <2>1. /\ pc' \in [Requests -> WaitStates \cup HoldStates \cup FreeStates]
        /\ lock' \in Requests \cup {None}
        /\ \A q \in Requests : lock' = q <=> pc'[q] \in HoldStates
    BY <1>15 DEF MetaRead
  <2>2. next' \in [Meta -> MetaRows]
    BY <1>15, MetaTypes DEF MetaRead
  <2> QED
    BY <1>15, <2>1, <2>2 DEF MetaRead
<1>16. ASSUME NEW r \in Meta, MetaWrite(r) PROVE TypeOK'
  BY <1>16 DEF MetaWrite
<1>17. ASSUME NEW r \in Deletes, DeleteBegin(r) PROVE TypeOK'
  <2>1. /\ pc' \in [Requests -> WaitStates \cup HoldStates \cup FreeStates]
        /\ lock' \in Requests \cup {None}
        /\ \A q \in Requests : lock' = q <=> pc'[q] \in HoldStates
    BY <1>17 DEF DeleteBegin, MayBegin
  <2>2. mixed' \subseteq Meta \cup Deletes
    BY <1>17 DEF DeleteBegin, Mixes, OnFile, Places
  <2> QED
    BY <1>17, <2>1, <2>2 DEF DeleteBegin
<1>18. ASSUME NEW r \in Deletes, Forget(r) PROVE TypeOK'
  <2>1. /\ pc' \in [Requests -> WaitStates \cup HoldStates \cup FreeStates]
        /\ lock' \in Requests \cup {None}
        /\ \A q \in Requests : lock' = q <=> pc'[q] \in HoldStates
    BY <1>18 DEF Forget
  <2>2. meta' \in MetaRows
    BY <1>18, MetaTypes DEF Forget
  <2> QED
    BY <1>18, <2>1, <2>2 DEF Forget
<1>19. ASSUME NEW r \in Deletes, DeleteRow(r) PROVE TypeOK'
  <2>1. /\ pc' \in [Requests -> WaitStates \cup HoldStates \cup FreeStates]
        /\ \A q \in Requests : lock = q <=> pc'[q] \in HoldStates
    BY <1>19 DEF DeleteRow
  <2>2. answered' \subseteq Requests
    BY <1>19 DEF DeleteRow
  <2>3. live' \in BOOLEAN
    BY <1>19, Zenon DEF DeleteRow
  <2> QED
    BY <1>19, <2>1, <2>2, <2>3 DEF DeleteRow
<1>20. CASE Refresh
  BY <1>20 DEF Refresh
<1>21. CASE Crash
  BY <1>21 DEF Crash
<1>22. CASE UNCHANGED vars
  BY <1>22 DEF vars
<1>23. ASSUME NEW r \in Requests, StatementRaises(r) PROVE TypeOK'
  <2>1. /\ pc' \in [Requests -> WaitStates \cup HoldStates \cup FreeStates]
        /\ lock' \in Requests \cup {None}
        /\ \A q \in Requests : lock' = q <=> pc'[q] \in HoldStates
    BY <1>23 DEF StatementRaises
  <2>2. torn' \in BOOLEAN
    BY <1>23, Zenon DEF StatementRaises
  <2>3. answered' \subseteq Requests /\ mishaps' \in Nat
    BY <1>23 DEF StatementRaises
  <2> QED
    BY <1>23, <2>1, <2>2, <2>3 DEF StatementRaises
<1>24. CASE Expire
  BY <1>24 DEF Expire
<1> QED
  BY <1>1, <1>2, <1>3, <1>4, <1>5, <1>6, <1>7, <1>8, <1>9, <1>10, <1>11,
     <1>12, <1>13, <1>14, <1>15, <1>16, <1>17, <1>18, <1>19, <1>20, <1>21,
     <1>22, <1>23, <1>24
     DEF Next, Begin, Step

\* Every step takes its request where such a request may be.
LEMMA PlacesStep ==
    ASSUME TypeOK, Places, [Next]_vars
    PROVE  Places'
<1> USE RecordsConstants DEF TypeOK, Places, Requests, Writers, Meta, Goto,
        Writing, Recording, settingsVars, listVars, fileVars
<1>1. ASSUME NEW r \in Updates, UpdateBegin(r) PROVE Places'
  BY <1>1 DEF UpdateBegin, MayBegin
<1>2. ASSUME NEW r \in Updates, UpdateWrite(r) PROVE Places'
  BY <1>2 DEF UpdateWrite
<1>3. ASSUME NEW r \in Updates, Reload(r) PROVE Places'
  BY <1>3 DEF Reload
<1>4. ASSUME NEW r \in Logins, LoginBegin(r) PROVE Places'
  BY <1>4 DEF LoginBegin, MayBegin
<1>5. ASSUME NEW r \in Logins, LoginRead(r) PROVE Places'
  BY <1>5 DEF LoginRead
<1>6. ASSUME NEW r \in Logins, LoginWrite(r) PROVE Places'
  BY <1>6 DEF LoginWrite
<1>7. ASSUME NEW r \in Requests, Acquire(r) PROVE Places'
  BY <1>7 DEF Acquire, WaitStates, HoldsFor
<1>8. ASSUME NEW r \in Requests, PresetBegin(r) PROVE Places'
  BY <1>8 DEF PresetBegin, MayBegin
<1>9. ASSUME NEW r \in Requests, PresetRead(r) PROVE Places'
  BY <1>9 DEF PresetRead
<1>10. ASSUME NEW r \in Requests, PresetWrite(r) PROVE Places'
  BY <1>10 DEF PresetWrite
<1>11. ASSUME NEW r \in Requests, LogRead(r) PROVE Places'
  BY <1>11 DEF LogRead
<1>12. ASSUME NEW r \in Requests, LogWrite(r) PROVE Places'
  BY <1>12 DEF LogWrite
<1>13. ASSUME NEW r \in Requests, LogFails(r) PROVE Places'
  BY <1>13 DEF LogFails
<1>14. ASSUME NEW r \in Meta, MetaBegin(r) PROVE Places'
  BY <1>14 DEF MetaBegin, MayBegin
<1>15. ASSUME NEW r \in Meta, MetaRead(r) PROVE Places'
  BY <1>15 DEF MetaRead
<1>16. ASSUME NEW r \in Meta, MetaWrite(r) PROVE Places'
  BY <1>16 DEF MetaWrite
<1>17. ASSUME NEW r \in Deletes, DeleteBegin(r) PROVE Places'
  BY <1>17 DEF DeleteBegin, MayBegin
<1>18. ASSUME NEW r \in Deletes, Forget(r) PROVE Places'
  BY <1>18 DEF Forget
<1>19. ASSUME NEW r \in Deletes, DeleteRow(r) PROVE Places'
  BY <1>19 DEF DeleteRow
<1>20. CASE Refresh
  BY <1>20 DEF Refresh
<1>21. CASE Crash
  BY <1>21 DEF Crash
<1>22. CASE UNCHANGED vars
  BY <1>22 DEF vars
<1>23. ASSUME NEW r \in Requests, StatementRaises(r) PROVE Places'
  BY <1>23 DEF StatementRaises
<1>24. CASE Expire
  BY <1>24 DEF Expire
<1> QED
  BY <1>1, <1>2, <1>3, <1>4, <1>5, <1>6, <1>7, <1>8, <1>9, <1>10, <1>11,
     <1>12, <1>13, <1>14, <1>15, <1>16, <1>17, <1>18, <1>19, <1>20, <1>21,
     <1>22, <1>23, <1>24
     DEF Next, Begin, Step

-----------------------------------------------------------------------------
(* Which steps touch what.                                                 *)

\* Steps of the handlers that change the settings, the lists or the file.
SettingsStep ==
    \/ \E u \in Updates : UpdateBegin(u) \/ UpdateWrite(u) \/ Reload(u)
    \/ \E l \in Logins : LoginBegin(l) \/ LoginRead(l) \/ LoginWrite(l)
    \/ \E r \in Writers : StatementRaises(r)
    \/ Refresh
    \/ Crash
ListStep == \E r \in Requests :
    PresetRead(r) \/ PresetWrite(r) \/ LogRead(r) \/ LogWrite(r)
OnFileStep ==
    \/ \E r \in Meta : MetaBegin(r) \/ MetaRead(r) \/ MetaWrite(r)
    \/ \E d \in Deletes : DeleteBegin(d) \/ Forget(d) \/ DeleteRow(d)
    \/ \E r \in Meta \cup Deletes : StatementRaises(r)
    \/ Expire
    \/ Crash

\* What the other steps leave alone: a writer may get the lock or record its
\* activity meanwhile.
SettingsAlone ==
    /\ UNCHANGED settingsVars
    /\ \A u \in Updates : u \in answered' <=> u \in answered
    /\ \A w \in Writers :
          \/ pc'[w] = pc[w]
          \/ pc[w] = "queueing" /\ pc'[w] = "writing"
          \/ pc[w] \in Recording \ {"over"} /\ pc'[w] \in Recording
ListsAlone ==
    /\ UNCHANGED listVars
    /\ \A r \in Saves \cup Drops : r \in answered' <=> r \in answered
    /\ \A r \in Requests : pc'[r] \in {"saving", "logging"} => pc'[r] = pc[r]
FileAlone ==
    /\ UNCHANGED fileVars
    /\ \A r \in Meta : r \in answered' <=> r \in answered
    /\ \A r \in Meta \cup Deletes :
          \/ pc'[r] = pc[r]
          \/ pc[r] \in Recording /\ pc'[r] \in Recording

\* Every other step leaves them alone.
LEMMA Frames ==
    ASSUME TypeOK, Places, [Next]_vars
    PROVE  /\ SettingsStep \/ SettingsAlone
           /\ ListStep \/ ListsAlone
           /\ OnFileStep \/ FileAlone
<1> USE RecordsConstants DEF TypeOK, Places, Requests, Writers, Meta, Goto,
        Recording, settingsVars, listVars, fileVars
<1>1. ASSUME NEW r \in Updates, UpdateBegin(r)
      PROVE  ListsAlone /\ FileAlone
  BY <1>1 DEF UpdateBegin, MayBegin, ListsAlone, FileAlone
<1>2. ASSUME NEW r \in Updates, UpdateWrite(r)
      PROVE  ListsAlone /\ FileAlone
  BY <1>2 DEF UpdateWrite, ListsAlone, FileAlone
<1>3. ASSUME NEW r \in Updates, Reload(r)
      PROVE  ListsAlone /\ FileAlone
  BY <1>3 DEF Reload, ListsAlone, FileAlone
<1>4. ASSUME NEW r \in Logins, LoginBegin(r)
      PROVE  ListsAlone /\ FileAlone
  BY <1>4 DEF LoginBegin, MayBegin, ListsAlone, FileAlone
<1>5. ASSUME NEW r \in Logins, LoginRead(r)
      PROVE  ListsAlone /\ FileAlone
  BY <1>5 DEF LoginRead, ListsAlone, FileAlone
<1>6. ASSUME NEW r \in Logins, LoginWrite(r)
      PROVE  ListsAlone /\ FileAlone
  BY <1>6 DEF LoginWrite, ListsAlone, FileAlone
<1>7. ASSUME NEW r \in Requests, Acquire(r)
      PROVE  SettingsAlone /\ ListsAlone /\ FileAlone
  BY <1>7
     DEF Acquire, WaitStates, HoldsFor, SettingsAlone, ListsAlone, FileAlone
<1>8. ASSUME NEW r \in Requests, PresetBegin(r)
      PROVE  SettingsAlone /\ ListsAlone /\ FileAlone
  BY <1>8 DEF PresetBegin, MayBegin, SettingsAlone, ListsAlone, FileAlone
<1>9. ASSUME NEW r \in Requests, PresetRead(r)
      PROVE  SettingsAlone /\ FileAlone
  BY <1>9 DEF PresetRead, SettingsAlone, FileAlone
<1>10. ASSUME NEW r \in Requests, PresetWrite(r)
      PROVE  SettingsAlone /\ FileAlone
  BY <1>10 DEF PresetWrite, SettingsAlone, FileAlone
<1>11. ASSUME NEW r \in Requests, LogRead(r)
      PROVE  SettingsAlone /\ FileAlone
  BY <1>11 DEF LogRead, SettingsAlone, FileAlone
<1>12. ASSUME NEW r \in Requests, LogWrite(r)
      PROVE  SettingsAlone /\ FileAlone
  BY <1>12 DEF LogWrite, SettingsAlone, FileAlone
<1>13. ASSUME NEW r \in Requests, LogFails(r)
      PROVE  SettingsAlone /\ ListsAlone /\ FileAlone
  BY <1>13 DEF LogFails, SettingsAlone, ListsAlone, FileAlone
<1>14. ASSUME NEW r \in Meta, MetaBegin(r)
      PROVE  SettingsAlone /\ ListsAlone
  BY <1>14 DEF MetaBegin, MayBegin, SettingsAlone, ListsAlone
<1>15. ASSUME NEW r \in Meta, MetaRead(r)
      PROVE  SettingsAlone /\ ListsAlone
  BY <1>15 DEF MetaRead, SettingsAlone, ListsAlone
<1>16. ASSUME NEW r \in Meta, MetaWrite(r)
      PROVE  SettingsAlone /\ ListsAlone
  BY <1>16 DEF MetaWrite, SettingsAlone, ListsAlone
<1>17. ASSUME NEW r \in Deletes, DeleteBegin(r)
      PROVE  SettingsAlone /\ ListsAlone
  BY <1>17 DEF DeleteBegin, MayBegin, SettingsAlone, ListsAlone
<1>18. ASSUME NEW r \in Deletes, Forget(r)
      PROVE  SettingsAlone /\ ListsAlone
  BY <1>18 DEF Forget, SettingsAlone, ListsAlone
<1>19. ASSUME NEW r \in Deletes, DeleteRow(r)
      PROVE  SettingsAlone /\ ListsAlone
  BY <1>19 DEF DeleteRow, SettingsAlone, ListsAlone
<1>20. ASSUME Refresh PROVE ListsAlone /\ FileAlone
  BY <1>20 DEF Refresh, ListsAlone, FileAlone
<1>21. ASSUME Crash PROVE ListsAlone
  BY <1>21 DEF Crash, ListsAlone
<1>22. ASSUME UNCHANGED vars PROVE SettingsAlone /\ ListsAlone /\ FileAlone
  BY <1>22 DEF vars, SettingsAlone, ListsAlone, FileAlone
<1>23. ASSUME NEW r \in Requests, StatementRaises(r)
       PROVE  /\ r \in Writers \/ SettingsAlone
              /\ ListsAlone
              /\ r \in Meta \cup Deletes \/ FileAlone
  BY <1>23 DEF StatementRaises, SettingsAlone, ListsAlone, FileAlone
<1>24. ASSUME Expire PROVE SettingsAlone /\ ListsAlone
  BY <1>24 DEF Expire, SettingsAlone, ListsAlone
<1> QED
  BY <1>1, <1>2, <1>3, <1>4, <1>5, <1>6, <1>7, <1>8, <1>9, <1>10, <1>11,
     <1>12, <1>13, <1>14, <1>15, <1>16, <1>17, <1>18, <1>19, <1>20, <1>21,
     <1>22, <1>23, <1>24
     DEF Next, Begin, Step, SettingsStep, ListStep, OnFileStep

-----------------------------------------------------------------------------
(* The steps keep the invariant.                                           *)

\* The lock keeps what was read current until it is written back.
LEMMA ListsStep ==
    ASSUME TypeOK, Places, ListsInv, [Next]_vars
    PROVE  ListsInv'
<1> USE RecordsConstants DEF TypeOK, ListsInv, ReadInv, ListsKept, PresetsExact,
        LogComplete, HoldStates, Goto, settingsVars, listVars, fileVars
<1>1. ASSUME NEW r \in Requests, PresetRead(r) PROVE ListsInv'
  BY <1>1, FS_CardinalityType DEF PresetRead
<1>2. ASSUME NEW r \in Requests, PresetWrite(r) PROVE ListsInv'
  <2>1. \A q \in Requests : pc[q] \in {"saving", "logging"} => q = r
    BY <1>2 DEF PresetWrite
  <2>2. /\ presets' = WithPreset(r, presets)
        /\ wanted' = presets'
    BY <1>2 DEF PresetWrite
  <2>3. IsFiniteSet(presets') /\ Cardinality(presets') <= MaxPresets
    <3>1. CASE r \in Saves
      <4>1. r \in presets \/ Cardinality(presets) < MaxPresets
        BY <1>2, <3>1 DEF PresetWrite
      <4>2. presets' = presets \cup {r}
        BY <2>2, <3>1 DEF WithPreset
      <4>3. /\ IsFiniteSet(presets \cup {r})
            /\ Cardinality(presets \cup {r}) =
                   IF r \in presets THEN Cardinality(presets)
                   ELSE Cardinality(presets) + 1
        BY FS_AddElement
      <4>4. Cardinality(presets) \in Nat /\ Cardinality(presets) <= MaxPresets
        BY FS_CardinalityType
      <4> QED
        BY <4>1, <4>2, <4>3, <4>4
    <3>2. CASE r \notin Saves
      <4>1. presets' = presets \ {Target[r]}
        BY <2>2, <3>2 DEF WithPreset
      <4>2. /\ IsFiniteSet(presets \ {Target[r]})
            /\ Cardinality(presets \ {Target[r]}) <= Cardinality(presets)
        BY FS_Subset
      <4> QED
        BY <4>1, <4>2, FS_CardinalityType
    <3> QED
      BY <3>1, <3>2
  <2>4. ReadInv'
    BY <1>2, <2>1 DEF PresetWrite
  <2> QED
    BY <1>2, <2>2, <2>3, <2>4 DEF PresetWrite
<1>3. ASSUME NEW r \in Requests, LogRead(r) PROVE ListsInv'
  BY <1>3 DEF LogRead
<1>4. ASSUME NEW r \in Requests, LogWrite(r) PROVE ListsInv'
  <2>1. PICK lost \in SUBSET log :
            /\ Cardinality(lost) = IF Cardinality(log) < MaxLog THEN 0 ELSE 1
            /\ log' = (log \ lost) \cup {r}
    BY <1>4 DEF LogWrite
  <2>2. r \notin recorded /\ recorded' = recorded \cup {r}
    BY <1>4 DEF LogWrite, Places
  <2>3. /\ IsFiniteSet(lost) /\ IsFiniteSet(log \ lost)
        /\ Cardinality(log \ lost) = Cardinality(log) - Cardinality(lost)
    <3>1. IsFiniteSet(log) /\ log \cap lost = lost
      OBVIOUS
    <3>2. IsFiniteSet(lost)
      BY <3>1, FS_Subset
    <3>3. /\ IsFiniteSet(log \ lost)
          /\ Cardinality(log \ lost)
                 = Cardinality(log) - Cardinality(log \cap lost)
      BY <3>1, FS_Difference
    <3> QED
      BY <3>1, <3>2, <3>3
  <2>4. r \notin log \ lost /\ IsFiniteSet(log')
            /\ Cardinality(log') = Cardinality(log \ lost) + 1
    BY <2>1, <2>2, <2>3, FS_AddElement
  <2>5. log' \subseteq recorded' /\ Cardinality(log') <= MaxLog
    BY <2>1, <2>2, <2>3, <2>4, FS_CardinalityType
  <2>6. recorded' = log' \/ Cardinality(log') >= MaxLog
    <3>1. CASE Cardinality(log) < MaxLog
      <4>1. lost = {}
        BY <2>1, <2>3, <3>1, FS_EmptySet
      <4>2. recorded = log
        BY <3>1, FS_CardinalityType
      <4> QED
        BY <2>1, <2>2, <4>1, <4>2
    <3>2. CASE ~(Cardinality(log) < MaxLog)
      BY <2>1, <2>3, <2>4, <3>2, FS_CardinalityType
    <3> QED
      BY <3>1, <3>2
  <2>7. \A q \in Requests : pc[q] \in {"saving", "logging"} => q = r
    BY <1>4 DEF LogWrite
  <2>8. ReadInv'
    BY <1>4, <2>7 DEF LogWrite
  <2>9. PresetsExact' /\ IsFiniteSet(presets')
    BY <1>4 DEF LogWrite
  <2> QED
    BY <2>4, <2>5, <2>6, <2>8, <2>9
<1>5. CASE ListsAlone
  BY <1>5 DEF ListsAlone
<1> QED
  BY Frames, <1>1, <1>2, <1>3, <1>4, <1>5
     DEF ListStep

\* Writers that meet are noted.
LEMMA TogetherStep ==
    ASSUME TypeOK, Places, Together, [Next]_vars
    PROVE  Together'
<1> USE RecordsConstants DEF TypeOK, Places, Together, Requests, Writers, Meta,
        Goto, Writing, settingsVars, listVars, fileVars
<1>1. ASSUME NEW r \in Updates, UpdateBegin(r) PROVE Together'
  BY <1>1 DEF UpdateBegin, Crosses
<1>2. ASSUME NEW r \in Updates, UpdateWrite(r) PROVE Together'
  BY <1>2 DEF UpdateWrite
<1>3. ASSUME NEW r \in Updates, Reload(r) PROVE Together'
  BY <1>3 DEF Reload
<1>4. ASSUME NEW r \in Logins, LoginBegin(r) PROVE Together'
  BY <1>4 DEF LoginBegin, Crosses
<1>5. ASSUME NEW r \in Logins, LoginRead(r) PROVE Together'
  BY <1>5 DEF LoginRead
<1>6. ASSUME NEW r \in Logins, LoginWrite(r) PROVE Together'
  BY <1>6 DEF LoginWrite
<1>7. CASE Refresh
  BY <1>7 DEF Refresh
<1>8. CASE Crash
  BY <1>8 DEF Crash
<1>9. CASE SettingsAlone
  BY <1>9 DEF SettingsAlone, Recording
<1>10. ASSUME NEW r \in Writers, StatementRaises(r) PROVE Together'
  BY <1>10 DEF StatementRaises
<1> QED
  BY Frames, <1>1, <1>2, <1>3, <1>4, <1>5, <1>6, <1>7, <1>8, <1>9, <1>10
     DEF SettingsStep

\* What was answered is carried on by every writer that follows.
LEMMA CarriedStep ==
    ASSUME TypeOK, Places, Together, Carried, [Next]_vars
    PROVE  Carried'
<1> USE RecordsConstants DEF TypeOK, Places, Carried, Requests, Writers, Meta,
        Goto, Pending, settingsVars, listVars, fileVars
<1>1. ASSUME NEW r \in Updates, UpdateBegin(r) PROVE Carried'
  BY <1>1 DEF UpdateBegin, Crosses, Writing, Changed, MayBegin
<1>2. ASSUME NEW r \in Updates, UpdateWrite(r) PROVE Carried'
  BY <1>2 DEF UpdateWrite, Together, Writing
<1>3. ASSUME NEW r \in Updates, Reload(r) PROVE Carried'
  BY <1>3 DEF Reload, Together, Writing
<1>4. ASSUME NEW r \in Logins, LoginBegin(r) PROVE Carried'
  BY <1>4 DEF LoginBegin, Crosses, Writing, MayBegin
<1>5. ASSUME NEW r \in Logins, LoginRead(r) PROVE Carried'
  BY <1>5 DEF LoginRead, Together, Writing
<1>6. ASSUME NEW r \in Logins, LoginWrite(r) PROVE Carried'
  BY <1>6 DEF LoginWrite, Together, Writing
<1>7. CASE Refresh
  BY <1>7 DEF Refresh
<1>8. CASE Crash
  BY <1>8 DEF Crash
<1>9. CASE SettingsAlone
  BY <1>9 DEF SettingsAlone, Recording
<1>10. ASSUME NEW r \in Writers, StatementRaises(r) PROVE Carried'
  BY <1>10 DEF StatementRaises
<1> QED
  BY Frames, <1>1, <1>2, <1>3, <1>4, <1>5, <1>6, <1>7, <1>8, <1>9, <1>10
     DEF SettingsStep

\* Nobody knows a secret before it is made.
LEMMA FreshStep ==
    ASSUME TypeOK, Places, Fresh, [Next]_vars
    PROVE  Fresh'
<1> USE RecordsConstants DEF TypeOK, Places, Fresh, Requests, Writers, Meta, Goto,
        settingsVars, listVars, fileVars
<1>1. ASSUME NEW r \in Updates, UpdateBegin(r) PROVE Fresh'
  BY <1>1 DEF UpdateBegin, Changed, MayBegin
<1>2. ASSUME NEW r \in Updates, UpdateWrite(r) PROVE Fresh'
  BY <1>2 DEF UpdateWrite
<1>3. ASSUME NEW r \in Updates, Reload(r) PROVE Fresh'
  BY <1>3 DEF Reload
<1>4. ASSUME NEW r \in Logins, LoginBegin(r) PROVE Fresh'
  BY <1>4 DEF LoginBegin
<1>5. ASSUME NEW r \in Logins, LoginRead(r) PROVE Fresh'
  BY <1>5 DEF LoginRead
<1>6. ASSUME NEW r \in Logins, LoginWrite(r) PROVE Fresh'
  BY <1>6 DEF LoginWrite
<1>7. CASE Refresh
  BY <1>7 DEF Refresh
<1>8. CASE Crash
  BY <1>8 DEF Crash
<1>9. CASE SettingsAlone
  BY <1>9 DEF SettingsAlone, Recording
<1>10. ASSUME NEW r \in Writers, StatementRaises(r) PROVE Fresh'
  BY <1>10 DEF StatementRaises
<1> QED
  BY Frames, <1>1, <1>2, <1>3, <1>4, <1>5, <1>6, <1>7, <1>8, <1>9, <1>10
     DEF SettingsStep

\* A secret that was ended stays so.
LEMMA EndedStep ==
    ASSUME TypeOK, Places, Together, Fresh, Ended, [Next]_vars
    PROVE  Ended'
<1> USE RecordsConstants DEF TypeOK, Places, Ended, Requests, Writers, Meta, Goto,
        Pending, settingsVars, listVars, fileVars
<1>1. ASSUME NEW r \in Updates, UpdateBegin(r) PROVE Ended'
  BY <1>1 DEF UpdateBegin, Crosses, Writing, Changed, MayBegin, Fresh
<1>2. ASSUME NEW r \in Updates, UpdateWrite(r) PROVE Ended'
  BY <1>2 DEF UpdateWrite, Together, Writing, Fresh
<1>3. ASSUME NEW r \in Updates, Reload(r) PROVE Ended'
  BY <1>3 DEF Reload, Together, Writing
<1>4. ASSUME NEW r \in Logins, LoginBegin(r) PROVE Ended'
  BY <1>4 DEF LoginBegin, Crosses, Writing, MayBegin
<1>5. ASSUME NEW r \in Logins, LoginRead(r) PROVE Ended'
  BY <1>5 DEF LoginRead, Together, Writing
<1>6. ASSUME NEW r \in Logins, LoginWrite(r) PROVE Ended'
  BY <1>6 DEF LoginWrite, Together, Writing
<1>7. CASE Refresh
  BY <1>7 DEF Refresh
<1>8. CASE Crash
  BY <1>8 DEF Crash
<1>9. CASE SettingsAlone
  BY <1>9 DEF SettingsAlone, Recording
<1>10. ASSUME NEW r \in Writers, StatementRaises(r) PROVE Ended'
  BY <1>10 DEF StatementRaises
<1> QED
  BY Frames, <1>1, <1>2, <1>3, <1>4, <1>5, <1>6, <1>7, <1>8, <1>9, <1>10
     DEF SettingsStep

\* Without a crossing memory is behind only between a write and its reload.
LEMMA CurrentStep ==
    ASSUME TypeOK, Places, Together, Current, [Next]_vars
    PROVE  Current'
<1> USE RecordsConstants DEF TypeOK, Places, Current, Unread, Requests, Writers,
        Meta, Goto, settingsVars, listVars, fileVars
<1>1. ASSUME NEW r \in Updates, UpdateBegin(r) PROVE Current'
  BY <1>1 DEF UpdateBegin, Crosses, Writing, MayBegin
<1>2. ASSUME NEW r \in Updates, UpdateWrite(r) PROVE Current'
  BY <1>2 DEF UpdateWrite, Together, Writing
<1>3. ASSUME NEW r \in Updates, Reload(r) PROVE Current'
  BY <1>3 DEF Reload, Together, Writing
<1>4. ASSUME NEW r \in Logins, LoginBegin(r) PROVE Current'
  <2>1. CASE mem.weak /\ \E q \in Requests : Writing(q)
    <3>1. crossed' # {}
      BY <1>4, <2>1 DEF LoginBegin, Crosses
    <3> QED
      BY <3>1
  <2>2. CASE mem.weak /\ \A q \in Requests : ~Writing(q)
    <3>1. crossed' = crossed /\ config' = [config EXCEPT ![r] = mem]
      BY <1>4, <2>2 DEF LoginBegin, Crosses
    <3>2. crossed = {} /\ ~Unread => mem = row
      BY <2>2 DEF Writing
    <3> QED
      BY <1>4, <2>2, <3>1, <3>2 DEF LoginBegin, Writing
  <2>3. CASE ~mem.weak
    BY <1>4, <2>3 DEF LoginBegin, MayBegin
  <2> QED
    BY <2>1, <2>2, <2>3
<1>5. ASSUME NEW r \in Logins, LoginRead(r) PROVE Current'
  <2>1. crossed = {} /\ ~Unread => config'[r] = [row EXCEPT !.weak = FALSE]
    <3> SUFFICES ASSUME crossed = {}, ~Unread
                 PROVE  config'[r] = [row EXCEPT !.weak = FALSE]
      OBVIOUS
    <3>1. config[r] = row
      BY <1>5 DEF LoginRead
    <3>2. config'[r] = [row EXCEPT !.password = config[r].password, !.weak = FALSE]
      BY <1>5 DEF LoginRead
    <3>3. config'[r] = [row EXCEPT !.password = row.password, !.weak = FALSE]
      BY <3>1, <3>2
    <3> QED
      BY <3>3 DEF Settings
  <2>2. \A l \in Logins \ {r} : config'[l] = config[l] /\ pc'[l] = pc[l]
    BY <1>5 DEF LoginRead
  <2>3. row' = row /\ mem' = mem /\ crossed' = crossed /\ pc'[r] = "renewing"
    BY <1>5 DEF LoginRead
  <2>4. \A u \in Updates : pc'[u] = pc[u]
    BY <1>5 DEF LoginRead
  <2>5. Unread <=> Unread'
    BY <1>5, <2>4 DEF LoginRead
  <2> QED
    BY <2>1, <2>2, <2>3, <2>4, <2>5
<1>6. ASSUME NEW r \in Logins, LoginWrite(r) PROVE Current'
  <2>1. crossed' = crossed /\ (Unread => Unread')
    BY <1>6 DEF LoginWrite
  <2> SUFFICES ASSUME crossed = {}, ~Unread PROVE Current'
    BY <2>1
  <2>2. \A w \in Writers \ {r} : ~Writing(w)
    BY <1>6 DEF LoginWrite, Together, Writing
  <2>3. mem = row /\ config[r] = [row EXCEPT !.weak = FALSE]
    BY <1>6, <2>2 DEF LoginWrite, Writing
  <2>4. row' = config[r]
    BY <1>6 DEF LoginWrite
  <2>5. mem' = [mem EXCEPT !.password = config[r].password, !.weak = FALSE]
    BY <1>6 DEF LoginWrite
  <2>6. mem' = row'
    <3>1. config[r].password = mem.password
      BY <2>3 DEF Settings
    <3>2. mem' = [mem EXCEPT !.password = mem.password, !.weak = FALSE]
      BY <2>5, <3>1
    <3>3. mem' = [mem EXCEPT !.weak = FALSE]
      BY <3>2 DEF Settings
    <3> QED
      BY <2>3, <2>4, <3>3
  <2>7. \A l \in Logins : pc'[l] \notin {"rehashing", "renewing"}
    BY <1>6, <2>2 DEF LoginWrite, Writing
  <2> QED
    BY <2>6, <2>7
<1>7. CASE Refresh
  BY <1>7 DEF Refresh
<1>8. CASE Crash
  BY <1>8 DEF Crash
<1>9. CASE SettingsAlone
  BY <1>9 DEF SettingsAlone, Recording
<1>10. ASSUME NEW r \in Writers, StatementRaises(r) PROVE Current'
  <2>1. pc' = [pc EXCEPT ![r] = "over"] /\ UNCHANGED <<row, mem, config, crossed>>
    BY <1>10 DEF StatementRaises
  <2>2. CASE r \in Updates
    <3>1. Writing(r) /\ r \notin answered /\ answered' = answered
      BY <1>10, <2>2 DEF StatementRaises, Writing
    <3>2. Unread'
      BY <2>1, <2>2, <3>1
    <3> QED
      BY <3>2
  <2>3. CASE r \in Logins
    <3>1. \A u \in Updates : pc'[u] = pc[u] /\ (u \in answered' <=> u \in answered)
      BY <1>10, <2>1, <2>3 DEF StatementRaises
    <3> QED
      BY <2>1, <2>3, <3>1
  <2> QED
    BY <2>2, <2>3
<1> QED
  BY Frames, <1>1, <1>2, <1>3, <1>4, <1>5, <1>6, <1>7, <1>8, <1>9, <1>10
     DEF SettingsStep

-----------------------------------------------------------------------------
IInv == TypeOK /\ Places /\ ListsInv /\ SettingsInv

LEMMA Starting == Init => IInv
<1> SUFFICES ASSUME Init PROVE IInv
  OBVIOUS
<1> USE RecordsConstants DEF Init, Origin, NoMeta
<1>1. TypeOK
  BY DEF TypeOK, Settings, MetaRows, WaitStates, HoldStates, FreeStates
<1>2. Places
  BY DEF Places
<1>3. ListsInv
  BY FS_EmptySet DEF ListsInv, ReadInv, ListsKept, PresetsExact, LogComplete
<1>4. SettingsInv
  BY DEF SettingsInv, Together, Carried, Fresh, Ended, Current, Writing,
         Pending, Requests, Writers
<1> QED
  BY <1>1, <1>2, <1>3, <1>4 DEF IInv

LEMMA Inductive == Spec => []IInv
<1>1. IInv /\ [Next]_vars => IInv'
  BY TypeStep, PlacesStep, ListsStep, TogetherStep, CarriedStep, FreshStep,
     EndedStep, CurrentStep DEF IInv, ListsInv, SettingsInv
<1> QED
  BY Starting, <1>1, PTL DEF Spec

\* The type invariant holds in every reachable state: who has the lock is in a
\* section that it guards, and nobody else is.
THEOREM Typing == Spec => []TypeOK
<1>1. IInv => TypeOK
  BY DEF IInv
<1> QED
  BY <1>1, Inductive, PTL

\* Neither the presets nor the activity log loses a change to a request that
\* overlaps (admin/services.py:316-392 and 780-815).
THEOREM Lists == Spec => []ListsKept
<1>1. IInv => ListsKept
  BY DEF IInv, ListsInv
<1> QED
  BY <1>1, Inductive, PTL

\* AtomicLists counts as everybody does.
LEMMA SameCardinality == \A S : Atomic!Cardinality(S) = Cardinality(S)
BY DEF Atomic!Cardinality, Cardinality

\* A write of a list is one step of AtomicLists, and every other step none.
LEMMA AtomicStep ==
    ASSUME IInv, [Next]_vars
    PROVE  [Atomic!Next]_Atomic!vars
<1> USE RecordsConstants DEF IInv, TypeOK, Places, ListsInv, ReadInv, Goto,
        Requests, Recording
<1> DEFINE made == answered \cap (Saves \cup Drops)
<1>1. ASSUME NEW r \in Requests, PresetWrite(r) PROVE Atomic!Next
  <2>1. r \in Saves \cup Drops /\ r \notin answered /\ made' = made \cup {r}
    BY <1>1 DEF PresetWrite
  <2>2. presets' = WithPreset(r, presets) /\ UNCHANGED <<log, recorded>>
    BY <1>1 DEF PresetWrite
  <2>3. ASSUME r \in Saves PROVE Atomic!Save(r)
    <3>1. r \in presets \/ Cardinality(presets) < MaxPresets
      BY <1>1, <2>3 DEF PresetWrite
    <3> QED
      BY <2>1, <2>2, <2>3, <3>1, SameCardinality DEF WithPreset, Atomic!Save
  <2>4. ASSUME r \in Drops PROVE Atomic!Drop(r)
    <3>1. r \notin Saves /\ Target[r] \in presets
      BY <1>1, <2>4 DEF PresetWrite
    <3> QED
      BY <2>1, <2>2, <2>4, <3>1 DEF WithPreset, Atomic!Drop
  <2> QED
    BY <2>1, <2>3, <2>4 DEF Atomic!Next
<1>2. ASSUME NEW r \in Requests, LogWrite(r) PROVE Atomic!Next
  <2>1. r \notin recorded /\ copy[r] = log
    BY <1>2 DEF LogWrite
  <2>2. /\ recorded' = recorded \cup {r} /\ UNCHANGED <<presets, answered>>
        /\ \E lost \in SUBSET log :
              /\ Cardinality(lost) = IF Cardinality(log) < MaxLog THEN 0 ELSE 1
              /\ log' = (log \ lost) \cup {r}
    BY <1>2, <2>1 DEF LogWrite
  <2> QED
    BY <2>1, <2>2, SameCardinality DEF Atomic!Next, Atomic!Record
<1>3. ASSUME NEW r \in Requests, PresetRead(r) \/ LogRead(r)
      PROVE  UNCHANGED Atomic!vars
  BY <1>3 DEF PresetRead, LogRead, Atomic!vars
<1>4. ASSUME ListsAlone PROVE UNCHANGED Atomic!vars
  <2>1. made' = made
    BY <1>4 DEF ListsAlone
  <2> QED
    BY <1>4, <2>1 DEF ListsAlone, Atomic!vars, listVars
<1> QED
  BY <1>1, <1>2, <1>3, <1>4, Frames DEF ListStep

\* Presets and log implement AtomicLists: overlapping requests change them as if
\* each came alone (admin/services.py:316-392 and 780-815).
THEOREM Refinement == Spec => ListsAtomic
<1>1. Init => Atomic!Init
  BY DEF Init, Atomic!Init
<1>2. IInv /\ [Next]_vars => [Atomic!Next]_Atomic!vars
  BY AtomicStep
<1> QED
  BY <1>1, <1>2, Inductive, PTL DEF Spec, ListsAtomic, Atomic!Spec

\* An answered change of the settings, and of the password above all, stays
\* unless it crossed another writer (config_service.py:64-160).
THEOREM SettingsStay == Spec => []SettingsKept
<1>1. IInv => SettingsKept
  <2> SUFFICES ASSUME IInv PROVE SettingsKept
    OBVIOUS
  <2>1. UpdatesKept
    BY DEF IInv, SettingsInv, Carried, UpdatesKept
  <2>2. OldSessionsEnd
    BY RecordsConstants DEF IInv, SettingsInv, Ended, OldSessionsEnd
  <2>3. MemoryCurrent
    BY DEF IInv, SettingsInv, Current, MemoryCurrent, Unread, Writing, Requests, Writers
  <2> QED
    BY <2>1, <2>2, <2>3 DEF SettingsKept
<1> QED
  BY <1>1, Inductive, PTL

-----------------------------------------------------------------------------
(* The note and the tags of the file.                                      *)

\* The file has gone or is going, so that nothing has to be kept.
Going == ~live \/ torn \/ \E d \in Deletes : pc[d] = "deleting"

\* What the request r set is in the row m.
Has(r, m) == IF r \in Notes THEN m.note # None ELSE m.tags # None

\* Whoever is on the file beside another is known to.
Beside ==
    \A p, q \in Meta \cup Deletes :
        p # q /\ OnFile(p) /\ OnFile(q) => p \in mixed

\* Alone, a request is on a file that is there, or that has expired since.
Present ==
    \A r \in Meta \cup Deletes : OnFile(r) => live \/ r \in mixed \/ expired

\* What is going to be written has what it is for, and what was set before.
Merged ==
    \A q \in Meta : pc[q] = "storing" =>
        /\ Has(q, next[q])
        /\ \A r \in Meta \cap answered :
              Has(r, next[q]) \/ Going \/ r \in mixed

\* Before the row goes the note and tags have gone.
Forgotten == \A d \in Deletes : pc[d] = "deleting" => ~meta.there \/ d \in mixed

FileInv == Beside /\ Present /\ Merged /\ Forgotten /\ MetaInv

LEMMA FileStep ==
    ASSUME TypeOK, Places, FileInv, [Next]_vars
    PROVE  FileInv'
<1> USE RecordsConstants DEF TypeOK, FileInv, Beside, Present, Merged, Forgotten,
        MetaInv, MetaKept, NoOrphanMeta, Going, Has, OnFile, Requests, Writers,
        Meta, MetaRows, Goto, settingsVars, listVars, fileVars
<1>1. ASSUME NEW r \in Meta, MetaBegin(r) PROVE FileInv'
  BY <1>1 DEF MetaBegin, Mixes, MayBegin
<1>2. ASSUME NEW r \in Meta, MetaRead(r) PROVE FileInv'
  BY <1>2 DEF MetaRead
<1>3. ASSUME NEW r \in Meta, MetaWrite(r) PROVE FileInv'
  BY <1>3 DEF MetaWrite
<1>4. ASSUME NEW r \in Deletes, DeleteBegin(r) PROVE FileInv'
  BY <1>4 DEF DeleteBegin, Mixes, MayBegin
<1>5. ASSUME NEW r \in Deletes, Forget(r) PROVE FileInv'
  BY <1>5 DEF Forget, NoMeta
<1>6. ASSUME NEW r \in Deletes, DeleteRow(r) PROVE FileInv'
  BY <1>6 DEF DeleteRow
<1>7. CASE Crash
  BY <1>7 DEF Crash
<1>8. CASE FileAlone
  BY <1>8 DEF FileAlone, Recording
<1>9. ASSUME NEW r \in Meta \cup Deletes, StatementRaises(r) PROVE FileInv'
  BY <1>9 DEF StatementRaises
<1>10. CASE Expire
  BY <1>10 DEF Expire
<1> QED
  BY Frames, <1>1, <1>2, <1>3, <1>4, <1>5, <1>6, <1>7, <1>8, <1>9, <1>10
     DEF OnFileStep

\* Note and tags of a file are not erased by each other's changes, and a
\* deletion by an administrator takes them along, except through requests that
\* were on the file together or a deletion that was stopped before the row
\* (admin/services.py:79-106 and 265-306); the expiry task leaves them.
THEOREM NotesStay == Spec => []MetaInv
<1>1. Init => FileInv
  BY DEF Init, FileInv, Beside, Present, Merged, Forgotten, MetaInv, MetaKept,
         NoOrphanMeta, NoMeta, OnFile, Requests, Meta
<1>2. FileInv => MetaInv
  BY DEF FileInv
<1>3. IInv => TypeOK /\ Places
  BY DEF IInv
<1> QED
  BY <1>1, <1>2, <1>3, FileStep, Inductive, PTL DEF Spec
=============================================================================
