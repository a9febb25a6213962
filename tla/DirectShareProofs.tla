------------------------- MODULE DirectShareProofs -------------------------
(***************************************************************************)
(* Proofs about DirectShare, for every set of requests, sizes, lifetimes   *)
(* and limits: the sums of bytes and reserve_storage, the type invariant,  *)
(* the quota, and what the handlers leave behind on every path.            *)
(***************************************************************************)
EXTENDS DirectShare, FiniteSetTheorems, TLAPS

-----------------------------------------------------------------------------
(* SUM(size).                                                              *)

\* A table has finitely many bytes.
LEMMA CellsFinite ==
    ASSUME NEW S \in SUBSET Requests
    PROVE  IsFiniteSet(Cells(S)) /\ Bytes(S) \in Nat
<1>1. IsFiniteSet(S)
  BY QuotaConstants, FS_Subset
<1>2. IsFiniteSet(1..MaxSize)
  BY QuotaConstants, FS_Interval
<1>3. IsFiniteSet(S \X (1..MaxSize))
  BY <1>1, <1>2, FS_Product
<1>4. Cells(S) \subseteq S \X (1..MaxSize)
  BY DEF Cells
<1>5. IsFiniteSet(Cells(S))
  BY <1>3, <1>4, FS_Subset
<1> QED
  BY <1>5, FS_CardinalityType DEF Bytes

\* Fewer rows, fewer bytes.
LEMMA BytesMonotone ==
    ASSUME NEW T \in SUBSET Requests, NEW S \in SUBSET T
    PROVE  Bytes(S) <= Bytes(T)
<1>1. Cells(S) \subseteq Cells(T)
  BY DEF Cells
<1> QED
  BY <1>1, CellsFinite, FS_Subset DEF Bytes

\* Adding the rows of another set adds at most its bytes.
LEMMA BytesUnion ==
    ASSUME NEW S \in SUBSET Requests, NEW T \in SUBSET Requests
    PROVE  Bytes(S \cup T) <= Bytes(S) + Bytes(T)
<1>1. Cells(S \cup T) = Cells(S) \cup Cells(T)
  BY DEF Cells
<1>2. /\ IsFiniteSet(Cells(S)) /\ IsFiniteSet(Cells(T))
      /\ Cardinality(Cells(S)) \in Nat /\ Cardinality(Cells(T)) \in Nat
  BY CellsFinite DEF Bytes
<1>3. Cardinality(Cells(S) \cup Cells(T)) =
          Cardinality(Cells(S)) + Cardinality(Cells(T))
          - Cardinality(Cells(S) \cap Cells(T))
  BY <1>2, FS_Union
<1>4. IsFiniteSet(Cells(S) \cap Cells(T))
  BY <1>2, FS_Intersection
<1>5. Cardinality(Cells(S) \cap Cells(T)) \in Nat
  BY <1>4, FS_CardinalityType
<1>6. Bytes(S \cup T) = Cardinality(Cells(S) \cup Cells(T))
  BY <1>1 DEF Bytes
<1> QED
  <2> DEFINE b == Bytes(S)
             c == Bytes(T)
             i == Cardinality(Cells(S) \cap Cells(T))
  <2>1. b \in Nat /\ c \in Nat /\ i \in Nat /\ Bytes(S \cup T) = b + c - i
    BY <1>2, <1>3, <1>5, <1>6 DEF Bytes
  <2> HIDE DEF b, c, i
  <2>2. Bytes(S \cup T) <= b + c
    BY <2>1
  <2> QED
    BY <2>2 DEF b, c

\* A single row has its size.
LEMMA BytesSingle ==
    ASSUME NEW p \in Requests
    PROVE  Bytes({p}) = Size[p] /\ Size[p] \in Nat
<1>1. Size[p] \in 0..MaxSize /\ MaxSize \in Nat
  BY QuotaConstants
<1>2. Cells({p}) = {p} \X (1..Size[p])
  BY <1>1 DEF Cells
<1>3. IsFiniteSet({p}) /\ Cardinality({p}) = 1
  BY FS_Singleton
<1> DEFINE n == Size[p]
<1>4. n \in Nat
  BY <1>1
<1> HIDE DEF n
<1>5. IsFiniteSet(1..n) /\ Cardinality(1..n) = n
  <2> DEFINE I == 1..n
             k == Cardinality(I)
  <2>1. IsFiniteSet(I) /\ k = IF 1 > n THEN 0 ELSE n - 1 + 1
    BY <1>4, FS_Interval
  <2> HIDE DEF k
  <2>2. k = n
    BY <1>4, <2>1
  <2> QED
    BY <2>1, <2>2 DEF k
<1>6. Cardinality({p} \X (1..n)) = n
  <2> DEFINE S == {p}
             I == 1..n
             s == Cardinality(S)
             k == Cardinality(I)
  <2>1. IsFiniteSet(S) /\ IsFiniteSet(I)
    BY <1>3, <1>5
  <2>2. s = 1 /\ k = n
    BY <1>3, <1>5
  <2> HIDE DEF S, I
  <2>3. Cardinality(S \X I) = s * k
    BY <2>1, FS_Product
  <2> HIDE DEF s, k
  <2>4. s * k = n
    <3>1. s * k = 1 * n
      BY <2>2
    <3>2. 1 * n = n
      BY <1>4
    <3> QED
      BY <3>1, <3>2
  <2> QED
    BY <2>3, <2>4 DEF S, I
<1>7. Bytes({p}) = n
  BY <1>2, <1>6 DEF Bytes, n
<1> QED
  BY <1>4, <1>7 DEF n

\* An empty row has none.
LEMMA BytesEmpty ==
    ASSUME NEW S \in SUBSET Requests, NEW p \in Requests, Size[p] = 0
    PROVE  Bytes(S \cup {p}) = Bytes(S)
<1>1. Cells(S \cup {p}) = Cells(S)
  BY DEF Cells
<1> QED
  BY <1>1 DEF Bytes

-----------------------------------------------------------------------------
(* reserve_storage keeps the quota.                                        *)

\* What the INSERT adds to the reservations in force at any later time fits
\* in the limit with every row and reservation in force then: it counted at
\* least those, since the time it was given lies in the past.
LEMMA InsertFits ==
    ASSUME QuotaTypeOK, NEW p \in Requests, ReserveInsert(p),
           now' = now, rows' = rows
    PROVE  Bytes(rows' \cup Live(now)') <= Limit
<1>1. Live(now)' \subseteq Live(qnow[p]) \cup {p}
  BY DEF ReserveInsert, Live, QuotaTypeOK
<1>2. rows \subseteq Requests /\ Live(qnow[p]) \subseteq Requests
  BY DEF QuotaTypeOK, Live
<1> DEFINE A == rows
           B == Live(qnow[p])
<1> A \in SUBSET Requests /\ B \in SUBSET Requests
  BY <1>2
<1> HIDE DEF A, B
<1>3. Bytes(A \cup B) <= Bytes(A) + Bytes(B)
  BY BytesUnion
<1>4. Bytes((A \cup B) \cup {p}) <= Bytes(A \cup B) + Bytes({p})
  BY BytesUnion
<1>5. Bytes(rows' \cup Live(now)') <= Bytes((A \cup B) \cup {p})
  BY <1>1, BytesMonotone DEF A, B
<1>6. Bytes(A) + Bytes(B) + Size[p] <= Limit
  BY DEF ReserveInsert, Fits, A, B
<1>7. /\ Bytes(A) \in Nat /\ Bytes(B) \in Nat /\ Bytes(A \cup B) \in Nat
      /\ Bytes((A \cup B) \cup {p}) \in Nat
      /\ Bytes({p}) = Size[p] /\ Size[p] \in Nat
  BY CellsFinite, BytesSingle
<1>8. Bytes(rows' \cup Live(now)') \in Nat
  <2>1. rows' \cup Live(now)' \subseteq (A \cup B) \cup {p}
    BY <1>1 DEF A, B
  <2> QED
    BY <2>1, CellsFinite
<1> QED
  BY <1>3, <1>4, <1>5, <1>6, <1>7, <1>8, QuotaConstants

-----------------------------------------------------------------------------
(* The inductive invariant: what is known of a request from where it is.   *)

\* A request has a code when it goes on to store or insert, inserts only what
\* it stored, has a row only afterwards, and has reserved only where
\* reserve_storage returned.
PcInv ==
    /\ \A p \in Requests : pc[p] \in {"saving", "creating"} => code[p] \in Codes
    /\ \A p \in rows : pc[p] \in {"releasing", "over"}
    /\ \A p \in Requests : pc[p] = "saving" => p \notin Texts
    /\ \A p \in Requests : pc[p] = "creating" => p \in Texts \/ p \in stored
    /\ stored \cap Texts = {}
    /\ \A p \in resv : qpc[p] = "granted"

IInv == TypeOK /\ PcInv

\* The steps of reserve_storage keep its types.
LEMMA ReserveType ==
    ASSUME QuotaTypeOK, NEW p \in Requests, now' = now, rows' = rows,
           ReserveStep(p) \/ ReserveNothing(p) \/ ReserveBegin(p)
    PROVE  QuotaTypeOK'
<1> USE QuotaConstants DEF QuotaTypeOK, QuotaStates, Goto
<1>1. CASE ReserveNothing(p)
  BY <1>1 DEF ReserveNothing
<1>2. CASE ReserveBegin(p)
  BY <1>2 DEF ReserveBegin
<1>3. CASE ReservePurge(p)
  BY <1>3 DEF ReservePurge
<1>4. CASE ReserveFind(p)
  BY <1>4 DEF ReserveFind
<1>5. CASE ReserveInsert(p)
  <2>1. qnow[p] + TTL[p] \in Nat
    OBVIOUS
  <2> QED
    BY <1>5, <2>1 DEF ReserveInsert
<1>6. CASE ReserveInsertNone(p)
  BY <1>6 DEF ReserveInsertNone
<1>7. CASE ReserveRecheck(p)
  BY <1>7 DEF ReserveRecheck
<1> QED
  BY <1>1, <1>2, <1>3, <1>4, <1>5, <1>6, <1>7 DEF ReserveStep

\* A step of reserve_storage moves one call, and adds at most the
\* reservation of a call that it grants.
LEMMA ReserveFrame ==
    ASSUME QuotaTypeOK, NEW p \in Requests,
           \A q \in resv : qpc[q] = "granted",
           ReserveStep(p) \/ ReserveNothing(p) \/ ReserveBegin(p)
    PROVE  /\ \A q \in resv' : qpc'[q] = "granted"
           /\ resv' \subseteq resv \cup {p}
<1> USE DEF QuotaTypeOK, QuotaStates, Goto
<1>1. CASE ReserveNothing(p)
  BY <1>1 DEF ReserveNothing
<1>2. CASE ReserveBegin(p)
  BY <1>2 DEF ReserveBegin
<1>3. CASE ReservePurge(p)
  BY <1>3 DEF ReservePurge
<1>4. CASE ReserveFind(p)
  BY <1>4 DEF ReserveFind
<1>5. CASE ReserveInsert(p)
  BY <1>5 DEF ReserveInsert
<1>6. CASE ReserveInsertNone(p)
  BY <1>6 DEF ReserveInsertNone
<1>7. CASE ReserveRecheck(p)
  BY <1>7 DEF ReserveRecheck
<1> QED
  BY <1>1, <1>2, <1>3, <1>4, <1>5, <1>6, <1>7 DEF ReserveStep

-----------------------------------------------------------------------------
\* Every step keeps the inductive invariant.
LEMMA InvStep == IInv /\ [Next]_vars => IInv'
<1> SUFFICES ASSUME IInv, [Next]_vars PROVE IInv'
  OBVIOUS
<1> USE DirectConstants DEF IInv, TypeOK, PcInv, PcStates, Step, shareVars,
        ghostVars
<1>1. CASE Tick
  BY <1>1 DEF Tick, quotaVars, QuotaTypeOK
<1>2. ASSUME NEW p \in Requests, Arrive(p) PROVE IInv'
  <2>1. QuotaTypeOK' /\ \A q \in resv' : qpc'[q] = "granted"
    BY <1>2, ReserveType, ReserveFrame DEF Arrive
  <2>2. p \notin rows
    BY <1>2 DEF Arrive
  <2> QED
    BY <1>2, <2>1, <2>2 DEF Arrive, QuotaTypeOK
<1>3. ASSUME NEW p \in Requests, Reserve(p) PROVE IInv'
  <2>1. QuotaTypeOK' /\ \A q \in resv' : qpc'[q] = "granted"
    BY <1>3, ReserveType, ReserveFrame DEF Reserve
  <2> QED
    BY <1>3, <2>1 DEF Reserve
<1>4. ASSUME NEW p \in Requests, Deny(p) PROVE IInv'
  BY <1>4 DEF Deny, quotaVars, QuotaTypeOK
<1>5. ASSUME NEW p \in Requests, Draw(p) PROVE IInv'
  <2>1. PICK c \in Codes : code' = [code EXCEPT ![p] = c]
    BY <1>5 DEF Draw
  <2>2. p \notin rows
    BY <1>5 DEF Draw
  <2>3. rows \subseteq Requests
    BY DEF QuotaTypeOK
  <2>4. TypeOK'
    BY <1>5, <2>1, <2>2, <2>3 DEF Draw, quotaVars, QuotaTypeOK
  <2>5. PcInv'
    BY <1>5, <2>1, <2>2, <2>3 DEF Draw, quotaVars, QuotaTypeOK
  <2> QED
    BY <2>4, <2>5
<1>6. ASSUME NEW p \in Requests, RejectLifetime(p) PROVE IInv'
  BY <1>6 DEF RejectLifetime, Handler, quotaVars, QuotaTypeOK
<1>7. ASSUME NEW p \in Requests, Save(p) PROVE IInv'
  BY <1>7 DEF Save, quotaVars, QuotaTypeOK
<1>8. ASSUME NEW p \in Requests, SaveRaises(p) PROVE IInv'
  BY <1>8 DEF SaveRaises, Raises, quotaVars, QuotaTypeOK
<1>9. ASSUME NEW p \in Requests, Create(p) PROVE IInv'
  BY <1>9 DEF Create, quotaVars, QuotaTypeOK
<1>10. ASSUME NEW p \in Requests, CreateRaises(p) PROVE IInv'
  BY <1>10 DEF CreateRaises, Raises, Handler, quotaVars, QuotaTypeOK
<1>11. ASSUME NEW p \in Requests, Rollback(p) PROVE IInv'
  BY <1>11 DEF Rollback, quotaVars, QuotaTypeOK
<1>12. ASSUME NEW p \in Requests, RollbackRaises(p) PROVE IInv'
  BY <1>12 DEF RollbackRaises, Raises, quotaVars, QuotaTypeOK
<1>13. ASSUME NEW p \in Requests, Release(p) PROVE IInv'
  BY <1>13 DEF Release, ReleaseToken, QuotaTypeOK
<1>14. ASSUME NEW p \in Requests, WithdrawFile(p) PROVE IInv'
  BY <1>14 DEF WithdrawFile, Raises, quotaVars, QuotaTypeOK
<1>18. ASSUME NEW p \in Requests, WithdrawRow(p) PROVE IInv'
  BY <1>18 DEF WithdrawRow, quotaVars, QuotaTypeOK
<1>19. ASSUME NEW p \in Requests, WithdrawRowRaises(p) PROVE IInv'
  BY <1>19 DEF WithdrawRowRaises, Raises, quotaVars, QuotaTypeOK
<1>20. ASSUME NEW p \in Requests, ReleaseRaises(p) PROVE IInv'
  BY <1>20 DEF ReleaseRaises, Raises, quotaVars, QuotaTypeOK
<1>15. CASE Lapse
  BY <1>15 DEF Lapse, LapseAll, QuotaTypeOK
<1>16. CASE Crash
  BY <1>16 DEF Crash, quotaVars, QuotaTypeOK
<1>17. CASE UNCHANGED vars
  BY <1>17 DEF vars, quotaVars, QuotaTypeOK
<1> QED
  BY <1>1, <1>2, <1>3, <1>4, <1>5, <1>6, <1>7, <1>8, <1>9, <1>10, <1>11,
     <1>12, <1>13, <1>14, <1>15, <1>16, <1>17, <1>18, <1>19, <1>20
     DEF Next, Request

LEMMA Inductive == Spec => []IInv
<1>1. Init => IInv
  BY DEF Init, IInv, TypeOK, PcInv, QuotaInit, QuotaTypeOK, QuotaStates,
         PcStates
<1> QED
  BY <1>1, InvStep, PTL DEF Spec

\* The type invariant holds in every reachable state.
THEOREM Typing == Spec => []TypeOK
<1>1. IInv => TypeOK
  BY DEF IInv
<1> QED
  BY <1>1, Inductive, PTL

-----------------------------------------------------------------------------
(* The quota.                                                              *)

\* What counts: rows inserted in time, and reservations in force.
Charged == (rows \ late) \cup Live(now)

\* A step after which nothing more counts keeps the quota.
LEMMA QuotaShrinks ==
    ASSUME IInv, QuotaInv, Charged' \subseteq Charged
    PROVE  QuotaInv'
<1>1. Charged \subseteq Requests
  BY DEF Charged, Live, IInv, TypeOK, QuotaTypeOK
<1>2. Bytes(Charged') <= Bytes(Charged)
  BY <1>1, BytesMonotone
<1>3. Bytes(Charged') \in Nat /\ Bytes(Charged) \in Nat
  BY <1>1, CellsFinite
<1> QED
  BY <1>2, <1>3, QuotaConstants DEF QuotaInv, Charged

\* A step of reserve_storage keeps the quota.
LEMMA ReserveKeepsQuota ==
    ASSUME IInv, QuotaInv, NEW p \in Requests, now' = now, rows' = rows,
           late' = late, ReserveStep(p) \/ ReserveNothing(p) \/ ReserveBegin(p)
    PROVE  QuotaInv'
<1>1. CASE ReserveInsert(p)
  <2>1. Bytes(rows' \cup Live(now)') <= Limit
    BY <1>1, InsertFits DEF IInv, TypeOK
  <2>2. QuotaTypeOK'
    BY <1>1, ReserveType DEF IInv, TypeOK, ReserveStep
  <2>3. /\ (rows' \cup Live(now)') \subseteq Requests
        /\ Charged' \subseteq (rows' \cup Live(now)')
    BY <2>2 DEF Charged, Live, QuotaTypeOK
  <2>4. Bytes(Charged') <= Bytes(rows' \cup Live(now)')
    BY <2>3, BytesMonotone
  <2>5. Bytes(Charged') \in Nat /\ Bytes(rows' \cup Live(now)') \in Nat
    BY <2>3, CellsFinite
  <2> QED
    BY <2>1, <2>4, <2>5, QuotaConstants DEF QuotaInv, Charged
<1>2. CASE ~ReserveInsert(p)
  <2>1. resv' \subseteq resv /\ expires' = expires
    BY <1>2 DEF ReserveStep, ReserveNothing, ReserveBegin, ReservePurge,
                ReserveFind, ReserveInsertNone, ReserveRecheck
  <2>2. Charged' \subseteq Charged
    BY <2>1 DEF Charged, Live
  <2> QED
    BY <2>2, QuotaShrinks
<1> QED
  BY <1>1, <1>2

\* Inserting a row keeps the quota: its bytes were counted as a reservation,
\* or they are none, or the row is counted as late.
LEMMA CreateKeepsQuota ==
    ASSUME IInv, QuotaInv, NEW p \in Requests, Create(p)
    PROVE  QuotaInv'
<1>1. /\ rows' = rows \cup {p} /\ now' = now
      /\ resv' = resv /\ expires' = expires
    BY DEF Create, quotaVars
<1>2. CASE Limit = 0
  BY <1>2 DEF QuotaInv
<1>3. CASE Limit # 0 /\ Size[p] # 0 /\ Backed(p)
  <2>1. p \in Live(now) /\ late' = late
    BY <1>3 DEF Create, Backed, Live
  <2>2. Charged' \subseteq Charged
    BY <1>1, <2>1 DEF Charged, Live
  <2> QED
    BY <2>2, QuotaShrinks
<1>4. CASE Limit # 0 /\ Size[p] # 0 /\ ~Backed(p)
  <2>1. late' = late \cup {p}
    BY <1>4 DEF Create
  <2>2. Charged' \subseteq Charged
    BY <1>1, <2>1 DEF Charged, Live
  <2> QED
    BY <2>2, QuotaShrinks
<1>5. CASE Limit # 0 /\ Size[p] = 0
  <2>1. late' = late
    BY <1>5 DEF Create
  <2>2. /\ Charged \subseteq Requests
        /\ Charged' \subseteq Charged \cup {p}
    BY <1>1, <2>1 DEF Charged, Live, IInv, TypeOK, QuotaTypeOK
  <2>3. Bytes(Charged \cup {p}) = Bytes(Charged)
    BY <1>5, <2>2, BytesEmpty
  <2>4. Bytes(Charged') <= Bytes(Charged)
    BY <2>2, <2>3, BytesMonotone
  <2>5. Bytes(Charged') \in Nat /\ Bytes(Charged) \in Nat
    BY <2>2, CellsFinite
  <2> QED
    BY <2>4, <2>5, QuotaConstants DEF QuotaInv, Charged
<1> QED
  BY <1>2, <1>3, <1>4, <1>5

\* Every step keeps the quota.
LEMMA QuotaStep == IInv /\ QuotaInv /\ [Next]_vars => QuotaInv'
<1> SUFFICES ASSUME IInv, QuotaInv, [Next]_vars PROVE QuotaInv'
  OBVIOUS
<1>1. ASSUME NEW p \in Requests, Arrive(p) PROVE QuotaInv'
  BY <1>1, ReserveKeepsQuota DEF Arrive, ghostVars
<1>2. ASSUME NEW p \in Requests, Reserve(p) PROVE QuotaInv'
  BY <1>2, ReserveKeepsQuota DEF Reserve, ghostVars
<1>3. ASSUME NEW p \in Requests, Create(p) PROVE QuotaInv'
  BY <1>3, CreateKeepsQuota
<1>4. CASE Tick
  <2>1. Charged' \subseteq Charged
    BY <1>4 DEF Tick, Charged, Live, quotaVars, ghostVars, IInv, TypeOK,
                QuotaTypeOK
  <2> QED
    BY <2>1, QuotaShrinks
<1>5. ASSUME \/ Lapse
             \/ Crash
             \/ UNCHANGED vars
             \/ \E p \in Requests :
                   \/ Deny(p) \/ Draw(p) \/ RejectLifetime(p) \/ Save(p)
                   \/ SaveRaises(p) \/ CreateRaises(p) \/ Rollback(p)
                   \/ RollbackRaises(p) \/ Release(p) \/ ReleaseRaises(p)
                   \/ WithdrawFile(p) \/ WithdrawRow(p) \/ WithdrawRowRaises(p)
      PROVE  QuotaInv'
  <2>1. /\ now' = now /\ expires' = expires /\ late' = late
        /\ rows' \subseteq rows /\ resv' \subseteq resv
    BY <1>5 DEF Lapse, LapseAll, Crash, vars, Deny, Draw, RejectLifetime, Save,
                SaveRaises, CreateRaises, Rollback, RollbackRaises, Release,
                ReleaseToken, ReleaseRaises, WithdrawFile, WithdrawRow,
                WithdrawRowRaises, quotaVars, ghostVars
  <2>2. Charged' \subseteq Charged
    BY <2>1 DEF Charged, Live
  <2> QED
    BY <2>2, QuotaShrinks
<1> QED
  BY <1>1, <1>2, <1>3, <1>4, <1>5 DEF Next, Request

\* The quota holds of the rows inserted in time and of the reservations in
\* force, for uploads of any number and size.
THEOREM Quota == Spec => []QuotaInv
<1>1. Init => QuotaInv
  <2> SUFFICES ASSUME Init PROVE Bytes((rows \ late) \cup Live(now)) <= Limit
    BY DEF QuotaInv
  <2>1. Cells((rows \ late) \cup Live(now)) = {}
    BY DEF Cells, Live, Init, QuotaInit
  <2>2. Bytes((rows \ late) \cup Live(now)) = 0
    BY <2>1, FS_EmptySet DEF Bytes
  <2> QED
    BY <2>2, QuotaConstants
<1> QED
  BY <1>1, QuotaStep, Inductive, PTL DEF Spec

-----------------------------------------------------------------------------
(* What the handlers leave behind.                                         *)

\* Every step leaves no capacity with a request that has answered.
LEMMA HeldStep == IInv /\ HeldInv /\ [Next]_vars => HeldInv'
<1> SUFFICES ASSUME IInv, HeldInv, [Next]_vars PROVE HeldInv'
  OBVIOUS
<1> USE DEF HeldInv, IInv, TypeOK, PcInv, QuotaTypeOK, Step, ghostVars
<1>1. ASSUME NEW p \in Requests, Arrive(p) PROVE HeldInv'
  <2>1. resv' \subseteq resv \cup {p}
    BY <1>1, ReserveFrame DEF Arrive
  <2> QED
    BY <1>1, <2>1 DEF Arrive
<1>2. ASSUME NEW p \in Requests, Reserve(p) PROVE HeldInv'
  <2>1. resv' \subseteq resv \cup {p}
    BY <1>2, ReserveFrame DEF Reserve
  <2> QED
    BY <1>2, <2>1 DEF Reserve, shareVars
<1>3. ASSUME NEW p \in Requests, Deny(p) PROVE HeldInv'
  BY <1>3 DEF Deny, quotaVars
<1>4. ASSUME NEW p \in Requests, Release(p) PROVE HeldInv'
  BY <1>4 DEF Release, ReleaseToken, SameToken
<1>5. CASE Crash
  BY <1>5 DEF Crash, quotaVars
<1>8. ASSUME NEW p \in Requests, ReleaseRaises(p) PROVE HeldInv'
  BY <1>8 DEF ReleaseRaises, quotaVars
<1>6. ASSUME NEW p \in Requests,
             \/ Draw(p) \/ RejectLifetime(p) \/ Save(p) \/ SaveRaises(p)
             \/ Create(p) \/ CreateRaises(p) \/ Rollback(p)
             \/ RollbackRaises(p) \/ WithdrawFile(p) \/ WithdrawRow(p)
             \/ WithdrawRowRaises(p)
      PROVE  HeldInv'
  <2>1. /\ resv' = resv /\ lost' = lost
        /\ \A q \in Requests :
              pc'[q] = pc[q] \/ pc'[q] \notin {"idle", "over"}
    BY <1>6 DEF Draw, RejectLifetime, Save, SaveRaises, Create, CreateRaises,
                Rollback, RollbackRaises, WithdrawFile, WithdrawRow,
                WithdrawRowRaises, Handler, quotaVars
  <2> QED
    BY <2>1
<1>7. CASE Tick \/ Lapse \/ UNCHANGED vars
  BY <1>7 DEF Tick, Lapse, LapseAll, vars, shareVars, quotaVars
<1> QED
  BY <1>1, <1>2, <1>3, <1>4, <1>5, <1>6, <1>7, <1>8 DEF Next, Request

\* A request that has answered holds no capacity, unless a crash cut it short
\* or its release raised.
THEOREM NothingHeld == Spec => []HeldInv
<1>1. Init => HeldInv
  BY DEF Init, QuotaInit, HeldInv
<1> QED
  BY <1>1, HeldStep, Inductive, PTL DEF Spec

\* A row whose deletion has dealt with the file has none, or one that the task
\* could not delete.
GoingInv == stored \cap going \subseteq left

\* Only a deletion that begins adds to those under way.
LEMMA GoingStep == IInv /\ GoingInv /\ [Next]_vars => GoingInv'
<1> SUFFICES ASSUME IInv, GoingInv, [Next]_vars PROVE GoingInv'
  OBVIOUS
<1> USE DEF GoingInv, IInv, TypeOK, PcInv, QuotaTypeOK, Step, ghostVars
<1>1. ASSUME NEW p \in Requests, Save(p) \/ SaveRaises(p) PROVE GoingInv'
  <2>1. p \notin going
    BY <1>1 DEF Save, SaveRaises
  <2> QED
    BY <1>1, <2>1 DEF Save, SaveRaises
<1>2. ASSUME NEW p \in Requests, WithdrawFile(p) PROVE GoingInv'
  BY <1>2 DEF WithdrawFile
<1>3. ASSUME NEW p \in Requests, Rollback(p) PROVE GoingInv'
  BY <1>3 DEF Rollback
<1>4. ASSUME NEW p \in Requests, WithdrawRow(p) \/ WithdrawRowRaises(p)
      PROVE  GoingInv'
  BY <1>4 DEF WithdrawRow, WithdrawRowRaises
<1>5. ASSUME NEW p \in Requests,
             \/ Arrive(p) \/ Reserve(p) \/ Deny(p) \/ Draw(p)
             \/ RejectLifetime(p) \/ Create(p) \/ CreateRaises(p)
             \/ RollbackRaises(p) \/ Release(p) \/ ReleaseRaises(p)
      PROVE  UNCHANGED <<stored, going, left>>
  BY <1>5 DEF Arrive, Reserve, Deny, Draw, RejectLifetime, Create,
              CreateRaises, RollbackRaises, Release, ReleaseRaises, shareVars
<1>6. Tick \/ Lapse \/ UNCHANGED vars => UNCHANGED <<stored, going, left>>
  BY DEF Tick, Lapse, vars, shareVars
<1>7. Crash => GoingInv'
  BY DEF Crash
<1> QED
  BY <1>1, <1>2, <1>3, <1>4, <1>5, <1>6, <1>7 DEF Next, Request

\* Every step keeps files and rows together.
LEMMA FilesStep ==
    IInv /\ GoingInv /\ FilesMatchRows /\ [Next]_vars => FilesMatchRows'
<1> SUFFICES ASSUME IInv, GoingInv, FilesMatchRows, [Next]_vars
             PROVE  FilesMatchRows'
  OBVIOUS
<1> USE DEF FilesMatchRows, IInv, TypeOK, PcInv, QuotaTypeOK, Step, ghostVars
<1>1. ASSUME NEW p \in Requests,
             \/ Arrive(p) \/ Deny(p) \/ Draw(p) \/ Release(p)
             \/ ReleaseRaises(p)
      PROVE  FilesMatchRows'
  <2>1. /\ UNCHANGED <<stored, rows, going, leaked, left, torn>>
        /\ lost \subseteq lost'
        /\ \A q \in Requests \ {p} : pc'[q] = pc[q]
        /\ pc[p] \notin {"creating", "rollback"}
    BY <1>1 DEF Arrive, Deny, Draw, Release, ReleaseRaises
  <2> QED
    BY <2>1
<1>2. ASSUME NEW p \in Requests, RejectLifetime(p) \/ CreateRaises(p)
      PROVE  FilesMatchRows'
  BY <1>2 DEF RejectLifetime, CreateRaises, Handler
<1>3. ASSUME NEW p \in Requests, Save(p) \/ SaveRaises(p)
      PROVE  FilesMatchRows'
  BY <1>3 DEF Save, SaveRaises
<1>4. ASSUME NEW p \in Requests, Create(p) PROVE FilesMatchRows'
  BY <1>4 DEF Create
<1>5. ASSUME NEW p \in Requests, Rollback(p) PROVE FilesMatchRows'
  BY <1>5 DEF Rollback
<1>6. ASSUME NEW p \in Requests, RollbackRaises(p) PROVE FilesMatchRows'
  BY <1>6 DEF RollbackRaises
<1>7. ASSUME NEW p \in Requests, WithdrawFile(p) PROVE FilesMatchRows'
  BY <1>7 DEF WithdrawFile
<1>10. ASSUME NEW p \in Requests, WithdrawRow(p) PROVE FilesMatchRows'
  BY <1>10 DEF WithdrawRow, GoingInv
<1>11. ASSUME NEW p \in Requests, WithdrawRowRaises(p) PROVE FilesMatchRows'
  BY <1>11 DEF WithdrawRowRaises
<1>8. CASE Crash
  BY <1>8 DEF Crash
<1>9. ASSUME \/ Tick
             \/ Lapse
             \/ UNCHANGED vars
             \/ \E p \in Requests : Reserve(p)
      PROVE  FilesMatchRows'
  BY <1>9 DEF Tick, Lapse, vars, Reserve, shareVars
<1> QED
  BY <1>1, <1>2, <1>3, <1>4, <1>5, <1>6, <1>7, <1>8, <1>9, <1>10, <1>11
     DEF Next, Request

\* On every path, with failing storage, statements that raise and crashes, a
\* file without a row is accounted for, and the row of a file share has its
\* file but for a deletion under way or stopped.
THEOREM FilesAndRows == Spec => []FilesMatchRows
<1>1. Init => GoingInv /\ FilesMatchRows
  BY DEF Init, GoingInv, FilesMatchRows
<1> QED
  BY <1>1, GoingStep, FilesStep, Inductive, PTL DEF Spec

-----------------------------------------------------------------------------
(* Retrieval codes.                                                        *)

\* Every step keeps the codes of the rows different.
LEMMA CodesStep == IInv /\ CodesUnique /\ [Next]_vars => CodesUnique'
<1> SUFFICES ASSUME IInv, CodesUnique, [Next]_vars PROVE CodesUnique'
  OBVIOUS
<1> USE DEF CodesUnique, IInv, TypeOK, PcInv, QuotaTypeOK
<1>1. ASSUME NEW p \in Requests, Draw(p) PROVE CodesUnique'
  <2>1. p \notin rows /\ rows' = rows
    BY <1>1 DEF Draw
  <2>2. PICK c \in Codes : code' = [code EXCEPT ![p] = c]
    BY <1>1 DEF Draw
  <2> QED
    BY <2>1, <2>2
<1>2. ASSUME NEW p \in Requests, Create(p) PROVE CodesUnique'
  BY <1>2 DEF Create, TakenCodes
<1>3. ASSUME \/ Tick
             \/ Lapse
             \/ Crash
             \/ UNCHANGED vars
             \/ \E p \in Requests :
                   \/ Arrive(p) \/ Reserve(p) \/ Deny(p)
                   \/ RejectLifetime(p) \/ Save(p) \/ SaveRaises(p)
                   \/ CreateRaises(p) \/ Rollback(p) \/ RollbackRaises(p)
                   \/ Release(p) \/ ReleaseRaises(p) \/ WithdrawFile(p)
                   \/ WithdrawRow(p) \/ WithdrawRowRaises(p)
      PROVE  CodesUnique'
  <2>1. code' = code /\ rows' \subseteq rows
    BY <1>3 DEF Tick, Lapse, Crash, vars, Arrive, Reserve, Deny, RejectLifetime,
                Save, SaveRaises, CreateRaises, Rollback, RollbackRaises,
                Release, ReleaseRaises, WithdrawFile, WithdrawRow,
                WithdrawRowRaises, shareVars
  <2> QED
    BY <2>1
<1> QED
  BY <1>1, <1>2, <1>3 DEF Next, Request

\* No two rows ever have the same code.
THEOREM UniqueCodes == Spec => []CodesUnique
<1>1. Init => CodesUnique
  BY DEF Init, CodesUnique
<1> QED
  BY <1>1, CodesStep, Inductive, PTL DEF Spec
=============================================================================
