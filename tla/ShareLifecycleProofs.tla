------------------------ MODULE ShareLifecycleProofs ------------------------
(***************************************************************************)
(* Proofs about ShareLifecycle, for every set of shares, requests and      *)
(* administrators and every bound: the type invariant, the accounting of a *)
(* download limit, and what the expiry task may be about to delete.        *)
(***************************************************************************)
EXTENDS AdminView, FiniteSetTheorems, TLAPS

USE ShareConstants DEF Times, Row, ReaderStates, AdminStates, Ops

-----------------------------------------------------------------------------
(* Helpers: what get_expire_info and the administration forms may yield.   *)

\* Every expiry a new share may get is a time or the null.
LEMMA ExpireInfoType ==
    ASSUME now \in Nat, NEW s \in Shares
    PROVE  \A e \in ExpireInfo(s) : e.exp \in Times /\ e.count \in Int
BY DEF ExpireInfo, Durations, Limits

\* Every row an administrator may write is a row.
LEMMA RewriteType ==
    ASSUME TypeOK, NEW s \in Shares, NEW e \in NewTimes(s),
           NEW c \in NewCounts(s)
    PROVE  [count |-> c, used |-> used[s], exp |-> e] \in Row
<1>1. Extended(s) \in Nat
  BY DEF TypeOK, Extended
<1>2. exp[s] \in Times /\ count[s] \in Int /\ used[s] \in Nat
  BY DEF TypeOK
<1>3. e \in Times
  BY <1>1, <1>2 DEF NewTimes
<1>4. c \in Int
  BY <1>2 DEF NewCounts
<1> QED
  BY <1>2, <1>3, <1>4

-----------------------------------------------------------------------------
(* The type invariant.                                                     *)

\* Every step keeps every variable in its type.
LEMMA TypeStep == TypeOK /\ [Next]_vars => TypeOK'
<1> SUFFICES ASSUME TypeOK, [Next]_vars PROVE TypeOK'
  OBVIOUS
<1> USE DEF TypeOK, rowVars, readerVars, adminVars, sweepVars, ghostVars
<1>1. CASE Tick
  BY <1>1 DEF Tick
<1>2. ASSUME NEW s \in Shares, Publish(s) PROVE TypeOK'
  <2>1. PICK e \in ExpireInfo(s) : /\ exp' = [exp EXCEPT ![s] = e.exp]
                                /\ count' = [count EXCEPT ![s] = e.count]
                                /\ cap' = [cap EXCEPT ![s] = e.count]
    BY <1>2 DEF Publish
  <2>2. e.exp \in Times /\ e.count \in Int
    BY ExpireInfoType
  <2>3. /\ exp' \in [Shares -> Times]
        /\ count' \in [Shares -> Int]
        /\ cap' \in [Shares -> Int]
        /\ used' \in [Shares -> Nat]
    BY <1>2, <2>1, <2>2 DEF Publish
  <2> QED
    BY <1>2, <2>3 DEF Publish
<1>3. ASSUME NEW r \in Readers, NEW s \in Shares, Lookup(r, s) PROVE TypeOK'
  BY <1>3 DEF Lookup
<1>4. ASSUME NEW r \in Readers, Consume(r) PROVE TypeOK'
  BY <1>4 DEF Consume
<1>5. ASSUME NEW r \in Readers, Refuse(r) PROVE TypeOK'
  BY <1>5 DEF Refuse
<1>6. ASSUME NEW r \in Readers, Refresh(r) PROVE TypeOK'
  BY <1>6 DEF Refresh
<1>7. ASSUME NEW r \in Readers, Serve(r) PROVE TypeOK'
  BY <1>7 DEF Serve
<1>21. ASSUME NEW r \in Readers, RefreshRaises(r) PROVE TypeOK'
  BY <1>21 DEF RefreshRaises, Raises
<1>8. ASSUME NEW r \in Readers, Leave(r) PROVE TypeOK'
  BY <1>8 DEF Leave
<1>9. ASSUME NEW a \in Admins, NEW s \in Shares, NEW op \in AdminOps,
             AdminRead(a, s, op)
      PROVE TypeOK'
  <2>1. PICK e \in NewTimes(s), c \in NewCounts(s), sets \in BOOLEAN :
          /\ anew' = [anew EXCEPT ![a] = [count |-> c, used |-> used[s],
                                          exp |-> e]]
          /\ asets' = [asets EXCEPT ![a] = sets]
    BY <1>9 DEF AdminRead, SetsCount
  <2>2. [count |-> c, used |-> used[s], exp |-> e] \in Row
    BY RewriteType
  <2>3. anew' \in [Admins -> Row] /\ asets' \in [Admins -> BOOLEAN]
    BY <2>1, <2>2
  <2> QED
    BY <1>9, <2>3 DEF AdminRead
<1>10. ASSUME NEW a \in Admins, AdminSave(a) PROVE TypeOK'
  <2>1. anew[a].count \in Int /\ anew[a].used \in Nat /\ anew[a].exp \in Times
    OBVIOUS
  <2>2. /\ exp' \in [Shares -> Times]
        /\ count' \in [Shares -> Int]
        /\ cap' \in [Shares -> Int]
        /\ used' \in [Shares -> Nat]
    BY <1>10, <2>1 DEF AdminSave
  <2> QED
    BY <1>10, <2>2 DEF AdminSave, AdminIdle
<1>11. ASSUME NEW a \in Admins, AdminSaveNothing(a) PROVE TypeOK'
  BY <1>11 DEF AdminSaveNothing, AdminIdle
<1>12. ASSUME NEW a \in Admins, NEW s \in Shares, AdminDelete(a, s)
       PROVE TypeOK'
  BY <1>12 DEF AdminDelete
<1>13. ASSUME NEW a \in Admins, AdminUnlink(a) PROVE TypeOK'
  BY <1>13 DEF AdminUnlink
<1>14. ASSUME NEW a \in Admins, AdminUnlinkFails(a) PROVE TypeOK'
  BY <1>14 DEF AdminUnlinkFails, AdminIdle
<1>15. ASSUME NEW a \in Admins, AdminDrop(a) PROVE TypeOK'
  BY <1>15 DEF AdminDrop, AdminIdle
<1>22. ASSUME NEW a \in Admins, AdminDropRaises(a) PROVE TypeOK'
  BY <1>22 DEF AdminDropRaises, Raises, AdminIdle
<1>16. CASE SweepScan
  BY <1>16 DEF SweepScan
<1>17. ASSUME NEW s \in Shares, SweepUnlink(s) PROVE TypeOK'
  BY <1>17 DEF SweepUnlink
<1>18. ASSUME NEW s \in Shares, SweepDrop(s) PROVE TypeOK'
  BY <1>18 DEF SweepDrop
<1>23. ASSUME NEW s \in Shares, SweepDropRaises(s) PROVE TypeOK'
  BY <1>23 DEF SweepDropRaises, Raises
<1>19. CASE Crash
  BY <1>19 DEF Crash
<1>20. CASE UNCHANGED vars
  BY <1>20 DEF vars
<1> QED
  BY <1>1, <1>2, <1>3, <1>4, <1>5, <1>6, <1>7, <1>8, <1>9, <1>10, <1>11,
     <1>12, <1>13, <1>14, <1>15, <1>16, <1>17, <1>18, <1>19, <1>20,
     <1>21, <1>22, <1>23
     DEF Next, ReaderNext, AdminNext, SweepNext

\* The type invariant holds in every reachable state.
THEOREM Typing == Spec => []TypeOK
<1>1. Init => TypeOK
  BY DEF Init, TypeOK
<1> QED
  BY <1>1, TypeStep, PTL DEF Spec

-----------------------------------------------------------------------------
(* The accounting of a download limit.  Only an upload, a retrieval and a  *)
(* write of an administrator touch the counters.                           *)

\* Every other step leaves the counters and their history as they were.
budgetVars == <<born, count, used, taken, cap, stale>>

LEMMA BudgetFrame ==
    BudgetInv /\ UNCHANGED budgetVars => BudgetInv'
BY DEF BudgetInv, budgetVars

\* Every step keeps the retrievals granted and those left equal to the limit.
LEMMA BudgetStep == TypeOK /\ BudgetInv /\ [Next]_vars => BudgetInv'
<1> SUFFICES ASSUME TypeOK, BudgetInv, [Next]_vars PROVE BudgetInv'
  OBVIOUS
<1> USE DEF rowVars, readerVars, adminVars, sweepVars, ghostVars
<1>1. CASE UNCHANGED budgetVars
  BY <1>1, BudgetFrame
<1>2. ASSUME NEW s \in Shares, Publish(s) PROVE BudgetInv'
  <2>1. PICK e \in ExpireInfo(s) : /\ count' = [count EXCEPT ![s] = e.count]
                                /\ cap' = [cap EXCEPT ![s] = e.count]
    BY <1>2 DEF Publish
  <2>2. e.count \in Int
    BY ExpireInfoType DEF TypeOK
  <2>3. taken[s] = 0
    BY <1>2 DEF Publish, TypeOK
  <2> QED
    BY <1>2, <2>1, <2>2, <2>3 DEF Publish, BudgetInv, TypeOK
<1>3. ASSUME NEW r \in Readers, Consume(r) PROVE BudgetInv'
  <2> DEFINE s == rshare[r]
  <2>1. s \in born /\ s \in Shares
    BY <1>3 DEF Consume, TypeOK
  <2>2. count[s] # 0
    BY <1>3, <2>1 DEF Consume, Eligible, TypeOK
  <2>3. ASSUME NEW t \in born' \ stale'
        PROVE  /\ used'[t] = taken'[t]
               /\ count'[t] >= 0 => taken'[t] + count'[t] = cap'[t]
    <3>1. CASE t = s
      <4>1. /\ count'[s] = IF count[s] > 0 THEN count[s] - 1 ELSE count[s]
            /\ used'[s] = used[s] + 1
            /\ taken'[s] = taken[s] + 1
            /\ cap'[s] = cap[s]
        BY <1>3, <2>1 DEF Consume, TypeOK
      <4>2. /\ used[s] = taken[s]
            /\ count[s] >= 0 => taken[s] + count[s] = cap[s]
        BY <1>3, <2>1, <2>3, <3>1 DEF Consume, BudgetInv
      <4>3. count[s] \in Int /\ taken[s] \in Nat /\ cap[s] \in Int
        BY <2>1 DEF TypeOK
      <4> QED
        BY <2>2, <3>1, <4>1, <4>2, <4>3
    <3>2. CASE t # s
      BY <1>3, <2>1, <2>3, <3>2 DEF Consume, BudgetInv, TypeOK
    <3> QED
      BY <3>1, <3>2
  <2> QED
    BY <2>3 DEF BudgetInv
<1>4. ASSUME NEW a \in Admins, AdminSave(a) PROVE BudgetInv'
  <2> DEFINE s == ashare[a]
  <2>1. s \in Shares /\ anew[a] \in Row
    BY <1>4 DEF AdminSave, TypeOK
  <2>2. ASSUME NEW t \in born' \ stale'
        PROVE  /\ used'[t] = taken'[t]
               /\ count'[t] >= 0 => taken'[t] + count'[t] = cap'[t]
    <3>1. CASE t = s
      <4>1. ~Overwrites(a) /\ s \notin stale
        BY <1>4, <2>2, <3>1 DEF AdminSave
      <4>2. anew[a].used = used[s] /\ (~asets[a] => anew[a].count = count[s])
        BY <4>1 DEF Overwrites
      <4> QED
        BY <1>4, <2>1, <2>2, <3>1, <4>1, <4>2
           DEF AdminSave, BudgetInv, TypeOK
    <3>2. CASE t # s
      BY <1>4, <2>1, <2>2, <3>2 DEF AdminSave, BudgetInv, TypeOK
    <3> QED
      BY <3>1, <3>2
  <2> QED
    BY <2>2 DEF BudgetInv
<1>5. ASSUME NEW r \in Readers, ReaderNext(r), ~Consume(r)
      PROVE  UNCHANGED budgetVars
  BY <1>5 DEF ReaderNext, Lookup, Refuse, Refresh, RefreshRaises, Serve,
                Leave, budgetVars
<1>6. ASSUME NEW a \in Admins, AdminNext(a), ~AdminSave(a)
      PROVE  UNCHANGED budgetVars
  BY <1>6 DEF AdminNext, AdminRead, AdminSaveNothing, AdminDelete, AdminUnlink,
              AdminUnlinkFails, AdminDrop, AdminDropRaises, budgetVars
<1>7. SweepNext \/ Tick \/ Crash \/ UNCHANGED vars => UNCHANGED budgetVars
  BY DEF SweepNext, SweepScan, SweepUnlink, SweepDrop, SweepDropRaises, Tick,
         Crash, vars, budgetVars
<1> QED
  BY <1>1, <1>2, <1>3, <1>4, <1>5, <1>6, <1>7 DEF Next

\* A limit is spent exactly, for any number of requests and administrators.
THEOREM Budget == Spec => []BudgetInv
<1>1. Init => BudgetInv
  BY DEF Init, BudgetInv
<1> QED
  BY <1>1, BudgetStep, Typing, PTL DEF Spec

-----------------------------------------------------------------------------
(* What the expiry task may be about to delete.                            *)

\* What is in the task's snapshot, or in its hands, stays expired.
LEMMA SweepStep == TypeOK /\ SweepInv /\ [Next]_vars => SweepInv'
<1> SUFFICES ASSUME TypeOK, SweepInv, [Next]_vars,
                    NEW t \in ((sweep \cup doomed) \cap live)'
             PROVE  t \in revived' \/ Lapsed(t)'
  BY DEF SweepInv
<1> USE DEF rowVars, readerVars, adminVars, sweepVars, ghostVars
<1> DEFINE before == t \in (sweep \cup doomed) \cap live
<1>1. ASSUME before, t \in revived' \/ t \notin revived,
             now' \in Nat, now' >= now, exp'[t] = exp[t],
             count[t] = 0 => count'[t] = 0
      PROVE  t \in revived' \/ Lapsed(t)'
  BY <1>1 DEF SweepInv, Lapsed, TypeOK
<1>2. CASE Tick
  BY <1>1, <1>2 DEF Tick, TypeOK
<1>3. ASSUME NEW s \in Shares, Publish(s) PROVE t \in revived' \/ Lapsed(t)'
  <2>1. t # s /\ before
    BY <1>3 DEF Publish, TypeOK
  <2> QED
    BY <1>1, <1>3, <2>1 DEF Publish, TypeOK
<1>4. ASSUME NEW r \in Readers, Consume(r) PROVE t \in revived' \/ Lapsed(t)'
  <2>1. rshare[r] \in Shares /\ count[rshare[r]] # 0
    BY <1>4 DEF Consume, Eligible, TypeOK
  <2> QED
    BY <1>1, <1>4, <2>1 DEF Consume, TypeOK
<1>5. ASSUME NEW r \in Readers, ReaderNext(r), ~Consume(r)
      PROVE  t \in revived' \/ Lapsed(t)'
  <2>1. UNCHANGED <<now, rowVars, sweepVars, revived>>
    BY <1>5 DEF ReaderNext, Lookup, Refuse, Refresh, RefreshRaises, Serve,
                Leave
  <2> QED
    BY <1>1, <2>1 DEF TypeOK
<1>6. ASSUME NEW a \in Admins, AdminSave(a) PROVE t \in revived' \/ Lapsed(t)'
  <2>1. CASE t = ashare[a]
    BY <1>6, <2>1 DEF AdminSave
  <2>2. CASE t # ashare[a]
    BY <1>1, <1>6, <2>2 DEF AdminSave, TypeOK
  <2> QED
    BY <2>1, <2>2
<1>7. ASSUME NEW a \in Admins, AdminNext(a), ~AdminSave(a)
      PROVE  t \in revived' \/ Lapsed(t)'
  <2>1. live' \subseteq live /\ UNCHANGED <<now, count, exp, sweepVars, revived>>
    BY <1>7 DEF AdminNext, AdminRead, AdminSaveNothing, AdminDelete,
                AdminUnlink, AdminUnlinkFails, AdminDrop, AdminDropRaises
  <2> QED
    BY <1>1, <2>1 DEF TypeOK
<1>8. CASE SweepScan
  BY <1>8 DEF SweepScan, Lapsed
<1>9. ASSUME NEW s \in Shares, SweepUnlink(s) PROVE t \in revived' \/ Lapsed(t)'
  BY <1>1, <1>9 DEF SweepUnlink, TypeOK
<1>10. ASSUME NEW s \in Shares, SweepDrop(s) PROVE t \in revived' \/ Lapsed(t)'
  BY <1>1, <1>10 DEF SweepDrop, TypeOK
<1>13. ASSUME NEW s \in Shares, SweepDropRaises(s)
       PROVE  t \in revived' \/ Lapsed(t)'
  BY <1>1, <1>13 DEF SweepDropRaises, TypeOK
<1>11. CASE Crash
  BY <1>11 DEF Crash
<1>12. CASE UNCHANGED vars
  BY <1>1, <1>12 DEF vars, TypeOK
<1> QED
  BY <1>2, <1>3, <1>4, <1>5, <1>6, <1>7, <1>8, <1>9, <1>10, <1>11, <1>12,
     <1>13 DEF Next, SweepNext

\* The expiry task deletes a share that is not expired only after an
\* administrator wrote it behind the task's back.
THEOREM SweptShares == Spec => []SweepInv
<1>1. Init => SweepInv
  BY DEF Init, SweepInv
<1> QED
  BY <1>1, SweepStep, Typing, PTL DEF Spec

-----------------------------------------------------------------------------
(* A deleted share never comes back.                                       *)

\* No step puts back a row that was deleted.
THEOREM NoReturn == Spec => GoneStaysGone
<1>1. TypeOK /\ [Next]_vars => [born \ live \subseteq born' \ live']_vars
  <2> SUFFICES ASSUME TypeOK, Next
               PROVE  born \subseteq born' /\ live' \cap born \subseteq live
    OBVIOUS
  <2> USE DEF rowVars, readerVars, adminVars, sweepVars, ghostVars
  <2>1. ASSUME NEW s \in Shares, Publish(s)
        PROVE  born \subseteq born' /\ live' \cap born \subseteq live
    BY <2>1 DEF Publish
  <2>2. ASSUME NEW r \in Readers, ReaderNext(r)
        PROVE  UNCHANGED <<born, live>>
    BY <2>2 DEF ReaderNext, Lookup, Consume, Refuse, Refresh, RefreshRaises,
                Serve, Leave
  <2>3. ASSUME NEW a \in Admins, AdminNext(a)
        PROVE  born' = born /\ live' \subseteq live
    BY <2>3 DEF AdminNext, AdminRead, AdminSave, AdminSaveNothing, AdminDelete,
                AdminUnlink, AdminUnlinkFails, AdminDrop, AdminDropRaises
  <2>4. SweepNext \/ Tick \/ Crash => born' = born /\ live' \subseteq live
    BY DEF SweepNext, SweepScan, SweepUnlink, SweepDrop, SweepDropRaises,
           Tick, Crash
  <2> QED
    BY <2>1, <2>2, <2>3, <2>4 DEF Next
<1> QED
  BY <1>1, Typing, PTL DEF Spec, GoneStaysGone

-----------------------------------------------------------------------------
(* Rows and files.                                                         *)

\* The share was deleted, is being deleted, or its deletion stopped at the row.
Gone(s) == s \notin live \/ BeingDeleted(s) \/ s \in torn

\* Only a request that found a stored file opens one.
FreshInv == \A r \in Readers : rpc[r] = "fresh" => HasFile(rshare[r])

\* A deletion that has begun ends with the row deleted, or stops at the row.
LEMMA GoneStep ==
    ASSUME TypeOK, [Next]_vars, NEW t \in born, Gone(t)
    PROVE  Gone(t)'
<1> USE DEF rowVars, readerVars, adminVars, sweepVars, ghostVars
<1>1. ASSUME live' \subseteq live, torn \subseteq torn',
             UNCHANGED <<apc, ashare, doomed>>
      PROVE  Gone(t)'
  BY <1>1 DEF Gone, BeingDeleted
<1>2. ASSUME NEW s \in Shares, Publish(s) PROVE Gone(t)'
  BY <1>2 DEF Publish, Gone, BeingDeleted
<1>3. ASSUME NEW r \in Readers, ReaderNext(r) PROVE Gone(t)'
  BY <1>1, <1>3 DEF ReaderNext, Lookup, Consume, Refuse, Refresh,
                    RefreshRaises, Serve, Leave
<1>4. ASSUME NEW a \in Admins, AdminNext(a) PROVE Gone(t)'
  <2>1. /\ live' \subseteq live
        /\ doomed' = doomed /\ torn \subseteq torn'
        /\ \A b \in Admins : b # a => apc'[b] = apc[b] /\ ashare'[b] = ashare[b]
    BY <1>4 DEF AdminNext, AdminRead, AdminSave, AdminSaveNothing,
                AdminDelete, AdminUnlink, AdminUnlinkFails, AdminDrop,
                AdminDropRaises, AdminIdle, TypeOK
  <2>2. apc[a] = "unlinked" => ashare[a] \notin live' \/ ashare[a] \in torn'
    BY <1>4 DEF AdminNext, AdminRead, AdminSave, AdminSaveNothing, AdminDelete,
                AdminUnlink, AdminUnlinkFails, AdminDrop, AdminDropRaises
  <2> QED
    BY <2>1, <2>2 DEF Gone, BeingDeleted
<1>5. CASE SweepScan
  BY <1>1, <1>5 DEF SweepScan
<1>6. ASSUME NEW s \in Shares, SweepUnlink(s) PROVE Gone(t)'
  BY <1>6 DEF SweepUnlink, Gone, BeingDeleted
<1>7. ASSUME NEW s \in Shares, SweepDrop(s) PROVE Gone(t)'
  <2>1. t \in live' => t # s /\ t \in live
    BY <1>7 DEF SweepDrop
  <2>2. t \in doomed => t = s
    BY <1>7 DEF SweepDrop, TypeOK
  <2> QED
    BY <1>7, <2>1, <2>2 DEF SweepDrop, Gone, BeingDeleted, TypeOK
<1>10. ASSUME NEW s \in Shares, SweepDropRaises(s) PROVE Gone(t)'
  <2>1. t \in doomed => t \notin live \/ t \in torn'
    BY <1>10 DEF SweepDropRaises, TypeOK
  <2> QED
    BY <1>10, <2>1 DEF SweepDropRaises, Gone, BeingDeleted
<1>8. CASE Crash
  BY <1>8 DEF Crash, Gone
<1>9. CASE Tick \/ UNCHANGED vars
  BY <1>1, <1>9 DEF Tick, vars
<1> QED
  BY <1>2, <1>3, <1>4, <1>5, <1>6, <1>7, <1>8, <1>9, <1>10
     DEF Next, SweepNext

\* A request opens only what is a stored file.
LEMMA FreshStep == TypeOK /\ FreshInv /\ [Next]_vars => FreshInv'
<1> SUFFICES ASSUME TypeOK, FreshInv, [Next]_vars,
                    NEW q \in Readers, rpc'[q] = "fresh"
             PROVE  HasFile(rshare'[q])
  BY DEF FreshInv, HasFile
<1> USE DEF rowVars, readerVars, adminVars, sweepVars, ghostVars
<1>1. ASSUME rpc'[q] = rpc[q], rshare'[q] = rshare[q]
      PROVE  HasFile(rshare'[q])
  BY <1>1 DEF FreshInv
<1>2. ASSUME NEW r \in Readers, ReaderNext(r), q # r
      PROVE  HasFile(rshare'[q])
  BY <1>1, <1>2 DEF ReaderNext, Lookup, Consume, Refuse, Refresh,
                    RefreshRaises, Serve, Leave, TypeOK
<1>3. ASSUME ReaderNext(q) PROVE HasFile(rshare'[q])
  BY <1>3 DEF ReaderNext, Lookup, Consume, Refuse, Refresh, RefreshRaises,
              Serve, Leave, TypeOK
<1>4. ASSUME NEW a \in Admins, AdminNext(a) PROVE UNCHANGED <<rpc, rshare>>
  BY <1>4 DEF AdminNext, AdminRead, AdminSave, AdminSaveNothing, AdminDelete,
              AdminUnlink, AdminUnlinkFails, AdminDrop, AdminDropRaises
<1>5. SweepNext \/ Tick \/ UNCHANGED vars \/ (\E s \in Shares : Publish(s))
        => UNCHANGED <<rpc, rshare>>
  BY DEF SweepNext, SweepScan, SweepUnlink, SweepDrop, SweepDropRaises, Tick,
         Publish, vars
<1>6. CASE Crash
  BY <1>6 DEF Crash
<1> QED
  BY <1>1, <1>2, <1>3, <1>4, <1>5, <1>6 DEF Next

\* A file disappears only while its row is being deleted.
LEMMA FileStep == TypeOK /\ FileInv /\ [Next]_vars => FileInv'
<1> SUFFICES ASSUME TypeOK, FileInv, [Next]_vars,
                    NEW t \in live', HasFile(t)
             PROVE  t \in stored' \/ Gone(t)'
  BY DEF FileInv, Gone, HasFile
<1> USE DEF rowVars, readerVars, adminVars, sweepVars, ghostVars
<1>1. CASE t \notin live
  <2>1. PICK s \in Shares : Publish(s) /\ s = t
    BY <1>1 DEF Next, ReaderNext, Lookup, Consume, Refuse, Refresh,
                RefreshRaises, Serve, Leave, AdminNext, AdminRead, AdminSave,
                AdminSaveNothing, AdminDelete, AdminUnlink, AdminUnlinkFails,
                AdminDrop, AdminDropRaises, SweepNext, SweepScan,
                SweepUnlink, SweepDrop, SweepDropRaises, Tick, Crash,
                Publish, vars
  <2> QED
    BY <2>1 DEF Publish
<1>2. CASE t \in live /\ Gone(t)
  BY <1>2, GoneStep DEF TypeOK
<1>3. CASE t \in live /\ t \in stored /\ ~Gone(t)
  <2>1. CASE stored \subseteq stored'
    BY <1>3, <2>1
  <2>2. ASSUME NEW a \in Admins, AdminUnlink(a)
        PROVE  t \in stored' \/ Gone(t)'
    BY <1>3, <2>2 DEF AdminUnlink, Gone, BeingDeleted, TypeOK
  <2>3. ASSUME NEW s \in Shares, SweepUnlink(s)
        PROVE  t \in stored' \/ Gone(t)'
    BY <1>3, <2>3 DEF SweepUnlink, Gone, BeingDeleted
  <2>4. ASSUME NEW a \in Admins, AdminNext(a), ~AdminUnlink(a)
        PROVE  stored' = stored
    BY <2>4 DEF AdminNext, AdminRead, AdminSave, AdminSaveNothing, AdminDelete,
                AdminUnlinkFails, AdminDrop, AdminDropRaises
  <2>5. ASSUME NEW r \in Readers, ReaderNext(r) PROVE stored' = stored
    BY <2>5 DEF ReaderNext, Lookup, Consume, Refuse, Refresh, RefreshRaises,
                Serve, Leave
  <2>6. ASSUME \/ SweepScan \/ Tick \/ Crash \/ UNCHANGED vars
               \/ \E s \in Shares : SweepDrop(s) \/ SweepDropRaises(s)
                                  \/ Publish(s)
        PROVE  stored \subseteq stored'
    BY <2>6 DEF SweepScan, SweepDrop, SweepDropRaises, Tick, Crash, Publish,
                vars
  <2> QED
    BY <2>1, <2>2, <2>3, <2>4, <2>5, <2>6 DEF Next, SweepNext
<1> QED
  BY <1>1, <1>2, <1>3 DEF FileInv, Gone

\* A retrieval misses only a share that is gone, and it stays gone.
LEMMA MissedStep ==
    TypeOK /\ FileInv /\ FreshInv /\ MissedInv /\ [Next]_vars => MissedInv'
<1> SUFFICES ASSUME TypeOK, FileInv, FreshInv, MissedInv, [Next]_vars,
                    NEW q \in Readers, NEW t, t = rshare'[q],
                    rpc'[q] = "missed"
             PROVE  Gone(t)'
  BY DEF MissedInv, Gone, BeingDeleted
<1> USE DEF rowVars, readerVars, adminVars, sweepVars, ghostVars
<1>1. \/ rpc[q] = "missed" /\ rshare[q] = t
      \/ Refresh(q)
      \/ Serve(q)
  <2>1. ASSUME NEW r \in Readers, ReaderNext(r), q # r
        PROVE  rpc'[q] = rpc[q] /\ rshare'[q] = rshare[q]
    BY <2>1 DEF ReaderNext, Lookup, Consume, Refuse, Refresh, RefreshRaises,
                Serve, Leave, TypeOK
  <2>2. ASSUME ReaderNext(q) PROVE Refresh(q) \/ Serve(q)
    BY <2>2 DEF ReaderNext, Lookup, Consume, Refuse, RefreshRaises, Leave,
                TypeOK
  <2>3. ASSUME NEW a \in Admins, AdminNext(a) PROVE UNCHANGED <<rpc, rshare>>
    BY <2>3 DEF AdminNext, AdminRead, AdminSave, AdminSaveNothing, AdminDelete,
                AdminUnlink, AdminUnlinkFails, AdminDrop, AdminDropRaises
  <2>4. SweepNext \/ Tick \/ UNCHANGED vars \/ (\E s \in Shares : Publish(s))
          => UNCHANGED <<rpc, rshare>>
    BY DEF SweepNext, SweepScan, SweepUnlink, SweepDrop, SweepDropRaises,
           Tick, Publish, vars
  <2>5. ~Crash
    BY DEF Crash
  <2> QED
    BY <2>1, <2>2, <2>3, <2>4, <2>5 DEF Next
<1>2. t \in born /\ Gone(t)
  <2>1. CASE rpc[q] = "missed" /\ rshare[q] = t
    BY <2>1 DEF TypeOK, MissedInv, Gone
  <2>2. CASE Refresh(q)
    BY <2>2 DEF Refresh, TypeOK, Gone
  <2>3. CASE Serve(q)
    BY <2>3 DEF Serve, TypeOK, FreshInv, FileInv, Gone
  <2> QED
    BY <1>1, <2>1, <2>2, <2>3
<1> QED
  BY <1>2, GoneStep

\* Every row names an existing file, but for deletions under way or cut short.
THEOREM Files == Spec => []FileInv
<1>1. Init => FileInv
  BY DEF Init, FileInv
<1> QED
  BY <1>1, FileStep, Typing, PTL DEF Spec

\* A counted use finds nothing only where its share was deleted or is being
\* deleted, or where a crash or a statement that raised stopped that.
THEOREM LostUses == Spec => []MissedInv
<1>1. Init => FreshInv /\ MissedInv
  BY DEF Init, FreshInv, MissedInv
<1> QED
  BY <1>1, FreshStep, MissedStep, Files, Typing, PTL DEF Spec

-----------------------------------------------------------------------------
(* While the storage works no file is left behind.                         *)

\* A row being deleted has lost its file, and every file has its row, but for
\* the files the expiry task could not delete.
OrphanInv == /\ stored \subseteq {s \in live : HasFile(s)} \cup left
             /\ \A s \in stored \ left : ~BeingDeleted(s)

\* Every deletion takes the file first.
LEMMA OrphanStep == TypeOK /\ OrphanInv /\ [Next]_vars => OrphanInv'
<1> SUFFICES ASSUME TypeOK, OrphanInv, [Next]_vars,
                    NEW t \in stored' \ left'
             PROVE  t \in live' /\ HasFile(t) /\ ~BeingDeleted(t)'
  BY DEF OrphanInv, HasFile
<1> USE DEF rowVars, readerVars, adminVars, sweepVars, ghostVars
<1>1. ASSUME stored' \subseteq stored, UNCHANGED <<live, apc, ashare, doomed, left>>
      PROVE  t \in live' /\ HasFile(t) /\ ~BeingDeleted(t)'
  BY <1>1 DEF OrphanInv, BeingDeleted
<1>2. ASSUME NEW s \in Shares, Publish(s)
      PROVE  t \in live' /\ HasFile(t) /\ ~BeingDeleted(t)'
  <2>1. ~BeingDeleted(s)
    BY <1>2 DEF Publish, BeingDeleted, TypeOK
  <2> QED
    BY <1>2, <2>1 DEF Publish, OrphanInv, BeingDeleted
<1>3. ASSUME NEW r \in Readers, ReaderNext(r)
      PROVE  UNCHANGED <<live, stored, apc, ashare, doomed, left>>
  BY <1>3 DEF ReaderNext, Lookup, Consume, Refuse, Refresh, RefreshRaises,
              Serve, Leave
<1>4. ASSUME NEW a \in Admins, AdminNext(a)
      PROVE  t \in live' /\ HasFile(t) /\ ~BeingDeleted(t)'
  <2>1. /\ t \in stored \ left /\ doomed' = doomed
        /\ \A b \in Admins : b # a => apc'[b] = apc[b] /\ ashare'[b] = ashare[b]
    BY <1>4 DEF AdminNext, AdminRead, AdminSave, AdminSaveNothing,
                AdminDelete, AdminUnlink, AdminUnlinkFails, AdminDrop,
                AdminDropRaises, AdminIdle, TypeOK
  <2>2. apc'[a] = "unlinked" => ashare'[a] # t
    BY <1>4 DEF AdminNext, AdminRead, AdminSave, AdminSaveNothing,
                AdminDelete, AdminUnlink, AdminUnlinkFails, AdminDrop,
                AdminDropRaises, AdminIdle, TypeOK, OrphanInv
  <2>3. t \in live'
    BY <1>4, <2>1 DEF AdminNext, AdminRead, AdminSave, AdminSaveNothing,
                      AdminDelete, AdminUnlink, AdminUnlinkFails, AdminDrop,
                      AdminDropRaises, OrphanInv, BeingDeleted
  <2> QED
    BY <2>1, <2>2, <2>3 DEF OrphanInv, BeingDeleted
<1>5. ASSUME NEW s \in Shares, SweepUnlink(s)
      PROVE  t \in live' /\ HasFile(t) /\ ~BeingDeleted(t)'
  BY <1>5 DEF SweepUnlink, OrphanInv, BeingDeleted
<1>6. ASSUME NEW s \in Shares, SweepDrop(s)
      PROVE  t \in live' /\ HasFile(t) /\ ~BeingDeleted(t)'
  BY <1>6 DEF SweepDrop, OrphanInv, BeingDeleted
<1>9. ASSUME NEW s \in Shares, SweepDropRaises(s)
      PROVE  t \in live' /\ HasFile(t) /\ ~BeingDeleted(t)'
  BY <1>9 DEF SweepDropRaises, OrphanInv, BeingDeleted
<1>7. CASE Crash
  BY <1>7 DEF Crash, OrphanInv, BeingDeleted
<1>8. ASSUME SweepScan \/ Tick \/ UNCHANGED vars
      PROVE  UNCHANGED <<live, stored, apc, ashare, doomed, left>>
  BY <1>8 DEF SweepScan, Tick, vars
<1> QED
  BY <1>1, <1>2, <1>3, <1>4, <1>5, <1>6, <1>7, <1>8, <1>9
     DEF Next, SweepNext

\* No crash, no race and no statement that raises leaves a file that no row
\* names: only a failure of the storage under the expiry task does.
THEOREM NoOrphans == Spec => []NoOrphanFile
<1>1. Init => OrphanInv
  BY DEF Init, OrphanInv, BeingDeleted
<1>2. OrphanInv => NoOrphanFile
  BY DEF OrphanInv, NoOrphanFile
<1>3. TypeOK /\ OrphanInv /\ [Next]_vars => OrphanInv'
  BY OrphanStep
<1> QED
  BY <1>1, <1>2, <1>3, Typing, PTL DEF Spec

\* Rows and files match in both directions.
THEOREM Matching == Spec => []FilesMatchRows
BY Files, NoOrphans, PTL DEF FilesMatchRows

-----------------------------------------------------------------------------
(* The detailed specification implements DownloadBudget.                   *)

\* What the abstract specification sees of a state.
abstractVars == <<born, live, count, taken, cap, stale>>

\* Every step is a step of DownloadBudget or leaves its variables alone.
LEMMA BudgetSim == TypeOK /\ [Next]_vars => [Abstract!Next]_(Abstract!vars)
<1> SUFFICES ASSUME TypeOK, [Next]_vars
             PROVE  Abstract!Next \/ UNCHANGED abstractVars
  BY DEF Abstract!vars, abstractVars
<1> USE DEF rowVars, readerVars, adminVars, sweepVars, ghostVars
<1>1. ASSUME NEW s \in Shares, Publish(s) PROVE Abstract!Next
  <2>1. PICK e \in ExpireInfo(s) : /\ count' = [count EXCEPT ![s] = e.count]
                                  /\ cap' = [cap EXCEPT ![s] = e.count]
    BY <1>1 DEF Publish
  <2>2. count'[s] = e.count
    BY <2>1 DEF TypeOK
  <2>3. Abstract!Publish(s)
    BY <1>1, <2>1, <2>2 DEF Publish, Abstract!Publish
  <2> QED
    BY <2>3 DEF Abstract!Next
<1>2. ASSUME NEW r \in Readers, ReaderNext(r)
      PROVE  Abstract!Next \/ UNCHANGED abstractVars
  <2>1. CASE Consume(r)
    <3>1. rshare[r] \in Shares
      BY <2>1 DEF Consume, TypeOK
    <3>2. Abstract!Grant(rshare[r])
      BY <2>1 DEF Consume, Eligible, Abstract!Grant
    <3> QED
      BY <3>1, <3>2 DEF Abstract!Next
  <2>2. CASE ~Consume(r)
    BY <1>2, <2>2 DEF ReaderNext, Lookup, Refuse, Refresh, RefreshRaises,
                      Serve, Leave, abstractVars
  <2> QED
    BY <2>1, <2>2
<1>3. ASSUME NEW a \in Admins, AdminNext(a)
      PROVE  Abstract!Next \/ UNCHANGED abstractVars
  <2>1. CASE AdminSave(a)
    <3> DEFINE s == ashare[a]
    <3>1. /\ s \in Shares /\ s \in live
          /\ count' = [count EXCEPT ![s] = anew[a].count]
          /\ UNCHANGED <<born, live, taken>>
      BY <2>1 DEF AdminSave, TypeOK
    <3>2. count'[s] = anew[a].count
      BY <3>1 DEF TypeOK
    <3>3. CASE asets[a]
      <4>1. /\ cap' = [cap EXCEPT ![s] = taken[s] + anew[a].count]
            /\ stale' \in {stale, stale \cup {s}}
        BY <2>1, <3>3 DEF AdminSave
      <4>2. Abstract!SetLimit(s)
        BY <3>1, <3>2, <4>1 DEF Abstract!SetLimit
      <4> QED
        BY <3>1, <4>2 DEF Abstract!Next
    <3>4. CASE ~asets[a] /\ Overwrites(a)
      <4>1. cap' = cap /\ stale' = stale \cup {s}
        BY <2>1, <3>4 DEF AdminSave
      <4>2. Abstract!Slip(s)
        BY <3>1, <3>2, <4>1 DEF Abstract!Slip
      <4> QED
        BY <3>1, <4>2 DEF Abstract!Next
    <3>5. CASE ~asets[a] /\ ~Overwrites(a)
      <4>1. cap' = cap /\ stale' = stale /\ anew[a].count = count[s]
        BY <2>1, <3>5 DEF AdminSave, Overwrites
      <4>2. count' = count
        BY <3>1, <4>1 DEF TypeOK
      <4> QED
        BY <3>1, <4>1, <4>2 DEF abstractVars
    <3> QED
      BY <3>3, <3>4, <3>5
  <2>2. CASE AdminDrop(a)
    <3>1. CASE ashare[a] \in live
      <4>1. ashare[a] \in Shares
        BY <3>1 DEF TypeOK
      <4>2. Abstract!Close(ashare[a])
        BY <2>2, <3>1 DEF AdminDrop, Abstract!Close
      <4> QED
        BY <4>1, <4>2 DEF Abstract!Next
    <3>2. CASE ashare[a] \notin live
      BY <2>2, <3>2 DEF AdminDrop, abstractVars
    <3> QED
      BY <3>1, <3>2
  <2>3. CASE ~AdminSave(a) /\ ~AdminDrop(a)
    BY <1>3, <2>3 DEF AdminNext, AdminRead, AdminSaveNothing, AdminDelete,
                      AdminUnlink, AdminUnlinkFails, AdminDropRaises,
                      abstractVars
  <2> QED
    BY <2>1, <2>2, <2>3
<1>4. ASSUME NEW s \in Shares, SweepDrop(s)
      PROVE  Abstract!Next \/ UNCHANGED abstractVars
  <2>1. CASE s \in live
    <3>1. Abstract!Close(s)
      BY <1>4, <2>1 DEF SweepDrop, Abstract!Close
    <3> QED
      BY <3>1 DEF Abstract!Next
  <2>2. CASE s \notin live
    BY <1>4, <2>2 DEF SweepDrop, abstractVars
  <2> QED
    BY <2>1, <2>2
<1>5. ASSUME NEW s \in Shares, SweepUnlink(s) \/ SweepDropRaises(s)
      PROVE  UNCHANGED abstractVars
  BY <1>5 DEF SweepUnlink, SweepDropRaises, abstractVars
<1>6. ASSUME SweepScan \/ Tick \/ Crash \/ UNCHANGED vars
      PROVE  UNCHANGED abstractVars
  BY <1>6 DEF SweepScan, Tick, Crash, vars, abstractVars
<1> QED
  BY <1>1, <1>2, <1>3, <1>4, <1>5, <1>6 DEF Next, SweepNext

\* Whatever readers, administrators, the expiry task and crashes do, a share
\* grants what DownloadBudget grants.
THEOREM Refinement == Spec => RefinesBudget
<1>1. Init => Abstract!Init
  BY DEF Init, Abstract!Init
<1> QED
  BY <1>1, BudgetSim, Typing, PTL DEF Spec, RefinesBudget, Abstract!Spec

-----------------------------------------------------------------------------
(* What the administration pages say.                                      *)

\* The two counts of the dashboard and of the list are about the same rows.
LEMMA CountsAgree ==
    ASSUME TypeOK
    PROVE  /\ DashboardExpired = Listed("expired", "", "")
           /\ DashboardActive = Cardinality(Listed("active", "", ""))
<1>1. \A s \in live : ExpiredInSQL(s) <=> IsExpired(s)
  BY DEF TypeOK, ExpiredInSQL, IsExpired
<1>2. /\ Listed("expired", "", "") = {s \in live : IsExpired(s)}
      /\ Listed("active", "", "") = {s \in live : ~IsExpired(s)}
  BY DEF Listed, Matches, MatchesHealth, Status
<1>3. DashboardExpired = {s \in live : IsExpired(s)}
  BY <1>1 DEF DashboardExpired
<1>4. Listed("active", "", "") = live \ DashboardExpired
  BY <1>2, <1>3
<1>5. IsFiniteSet(live) /\ DashboardExpired \cap live = DashboardExpired
  <2>1. live \subseteq Shares
    BY DEF TypeOK
  <2> QED
    BY <2>1, <1>3, FiniteShares, FS_Subset
<1>6. /\ IsFiniteSet(DashboardExpired)
      /\ Cardinality(live \ DashboardExpired)
             = Cardinality(live) - Cardinality(live \cap DashboardExpired)
  BY <1>3, <1>5, FS_Subset, FS_Difference
<1>7. live \cap DashboardExpired = DashboardExpired
  BY <1>5
<1> QED
  BY <1>2, <1>3, <1>4, <1>6, <1>7 DEF DashboardActive

\* What the status calls active is served, spent without an expiry time, or at
\* the instant of its expiry.
LEMMA ActiveRows ==
    ASSUME TypeOK, NEW s \in live
    PROVE  /\ Status(s) = "expired" => ~Eligible(s) /\ Lapsed(s)
           /\ Status(s) = "active" <=> \/ Eligible(s)
                                       \/ SpentWithoutExpiry(s)
                                       \/ AtItsExpiry(s)
           /\ SpentWithoutExpiry(s) =>
                ~Eligible(s) /\ Lapsed(s) /\ State(s) = "expired"
           /\ Lapsed(s) /\ Status(s) = "active" =>
                \/ SpentWithoutExpiry(s)
                \/ count[s] > 0 /\ exp[s] # NoTime /\ exp[s] < now
<1>1. count[s] \in Int /\ exp[s] \in Times /\ now \in Nat /\ NoTime # now
  BY DEF TypeOK
<1> QED
  BY <1>1 DEF Status, IsExpired, Eligible, Lapsed, SpentWithoutExpiry,
              AtItsExpiry, State, Exhausted, HasLimit, Remaining

\* The dashboard counts as active what retrieval serves, and the other two.
LEMMA ActiveCount ==
    ASSUME TypeOK
    PROVE  DashboardActive =
             Cardinality({s \in live : Eligible(s)})
             + Cardinality({s \in live : SpentWithoutExpiry(s) \/ AtItsExpiry(s)})
<1> DEFINE Served == {s \in live : Eligible(s)}
           Others == {s \in live : SpentWithoutExpiry(s) \/ AtItsExpiry(s)}
<1>1. Listed("active", "", "") = {s \in live : Status(s) = "active"}
  BY DEF Listed, Matches, MatchesHealth
<1>2. Listed("active", "", "") = Served \cup Others
  BY <1>1, ActiveRows
<1>3. Served \cap Others = {}
  <2> SUFFICES ASSUME NEW s \in live, Eligible(s)
               PROVE  ~SpentWithoutExpiry(s) /\ ~AtItsExpiry(s)
    OBVIOUS
  <2>1. count[s] \in Int /\ exp[s] \in Times /\ now \in Nat
    BY DEF TypeOK
  <2> QED
    BY <2>1 DEF Eligible, SpentWithoutExpiry, AtItsExpiry
<1>4. IsFiniteSet(Served) /\ IsFiniteSet(Others)
  <2>1. IsFiniteSet(live)
    BY FiniteShares, FS_Subset DEF TypeOK
  <2> QED
    BY <2>1, FS_Subset
<1>5. Cardinality(Served \cup Others)
        = Cardinality(Served) + Cardinality(Others) - Cardinality({})
  BY <1>3, <1>4, FS_Union
<1>6. /\ Cardinality({}) = 0
      /\ Cardinality(Served) \in Nat /\ Cardinality(Others) \in Nat
  BY <1>4, FS_EmptySet, FS_CardinalityType
<1>7. DashboardActive = Cardinality(Served \cup Others)
  BY <1>2, CountsAgree
<1>8. Cardinality(Served \cup Others)
        = Cardinality(Served) + Cardinality(Others)
  <2> HIDE DEF Served, Others
  <2> QED
    BY <1>5, <1>6
<1> QED
  BY <1>7, <1>8

\* Whatever a row holds, the pages derive this from it.
LEMMA ViewsOfRows == TypeOK => ViewsAgree
<1> SUFFICES ASSUME TypeOK PROVE ViewsAgree
  OBVIOUS
<1>1. \A s \in live : count[s] \in Int /\ exp[s] \in Times /\ now \in Nat
  BY DEF TypeOK
<1>2. StateIsWhatRetrievalDoes
  BY <1>1 DEF StateIsWhatRetrievalDoes, State, IsExpired, Exhausted, HasLimit,
              Remaining, Eligible, AtItsExpiry
<1>6. StatusMissesOnlySpent
  BY ActiveRows, ActiveCount DEF StatusMissesOnlySpent
<1>3. TimelineForetellsRemoval
  BY <1>1 DEF TimelineForetellsRemoval, Lapsed, TimelineExpiry, TimelineLimit,
              Permanent, Exhausted, HasLimit, Remaining
<1>4. Listed("expired", "", "") \subseteq Listed("", "", "danger")
  BY DEF Listed, Matches, MatchesHealth, Status, Severity, State
<1>5. ASSUME NEW f \in Figures
      PROVE  HealthSummary[f] = Cardinality(Listed("", "", f))
  <2>1. \A s \in live : CountsFor(s, f) <=> MatchesHealth(s, f)
    BY <1>5 DEF Figures, CountsFor, MatchesHealth, Severity, State
  <2>2. Listed("", "", f) = {s \in live : MatchesHealth(s, f)}
    BY DEF Listed, Matches
  <2>3. Listed("", "", f) = {s \in live : CountsFor(s, f)}
    BY <2>1, <2>2
  <2> QED
    BY <2>3 DEF HealthSummary
<1> QED
  BY <1>2, <1>3, <1>4, <1>5, <1>6, CountsAgree DEF ViewsAgree, FiguresAgree

\* State and timeline follow retrieval and the expiry task, status and
\* dashboard but for the shares spent without an expiry time, on every row.
THEOREM Views == Spec => []ViewsAgree
BY ViewsOfRows, Typing, PTL
=============================================================================
