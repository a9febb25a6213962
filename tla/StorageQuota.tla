---------------------------- MODULE StorageQuota ----------------------------
(***************************************************************************)
(* The storage quota: reservations of capacity for uploads that have no    *)
(* FileCodes row yet (apps/base/quota.py).  reserve_storage is a routine   *)
(* of up to four SQL statements, each atomic, that every kind of upload    *)
(* calls; here it is a sub-machine with a program counter of its own,      *)
(* which the modules of the uploads extend.                                *)
(***************************************************************************)
EXTENDS Integers, FiniteSets

CONSTANTS Requests,   \* calls of reserve_storage, and the rows they lead to
          Tokens,     \* names of reservations
          TokenOf,    \* the reservation a request works under
          Size,       \* bytes a request asks for, and its row will count
          TTL,        \* ttl_seconds of a request
          MaxSize,    \* the largest upload
          Limit       \* settings.storage_limit, 0 for none

ASSUME QuotaConstants ==
    /\ IsFiniteSet(Requests)
    /\ TokenOf \in [Requests -> Tokens]
    /\ MaxSize \in Nat
    /\ Size \in [Requests -> 0..MaxSize]
    /\ TTL \in [Requests -> Nat]
    /\ Limit \in Nat

VARIABLES
    now,       \* the clock
    rows,      \* FileCodes rows that count against the quota, by request
    resv,      \* requests whose INSERT made a StorageReservation row
    expires,   \* column expires_at of that row
    qpc,       \* where each call of reserve_storage is
    qnow       \* the time it read when it began

quotaVars == <<resv, expires, qpc, qnow>>

QuotaStates == {"idle", "purge", "find", "insert", "recheck", "granted",
                "refused"}

-----------------------------------------------------------------------------
(* SUM(size) over a set of requests, as a number of byte cells.            *)

Cells(S) == {c \in S \X (1..MaxSize) : c[2] <= Size[c[1]]}
Bytes(S) == Cardinality(Cells(S))

\* The reservations that the time t leaves in force.
Live(t) == {q \in resv : expires[q] > t}

\* Reservations made under the token of a request.
SameToken(p) == {q \in resv : TokenOf[q] = TokenOf[p]}

\* Fault, in no action: the sum forgets the reservations in force.
FitsWithoutReservations(p) == Bytes(rows) + Size[p] <= Limit

\* The WHERE clause of the INSERT: one statement over both tables.
Fits(p) == Bytes(rows) + Bytes(Live(qnow[p])) + Size[p] <= Limit

-----------------------------------------------------------------------------
(* reserve_storage                                                         *)

QuotaInit ==
    /\ resv = {}
    /\ expires = [p \in Requests |-> 0]
    /\ qpc = [p \in Requests |-> "idle"]
    /\ qnow = [p \in Requests |-> 0]

Goto(p, l) == qpc' = [qpc EXCEPT ![p] = l]

\* Nothing to reserve: no limit is set or the upload is empty.
ReserveNothing(p) ==
    /\ qpc[p] = "idle"
    /\ Limit = 0 \/ Size[p] = 0
    /\ Goto(p, "granted")
    /\ UNCHANGED <<resv, expires, qnow>>

ReserveBegin(p) ==
    /\ qpc[p] = "idle"
    /\ Limit > 0 /\ Size[p] > 0
    /\ qnow' = [qnow EXCEPT ![p] = now]
    /\ Goto(p, "purge")
    /\ UNCHANGED <<resv, expires>>

\* DELETE of a reservation of this token that has lapsed.
ReservePurge(p) ==
    /\ qpc[p] = "purge"
    /\ resv' = resv \ {q \in SameToken(p) : expires[q] <= qnow[p]}
    /\ Goto(p, "find")
    /\ UNCHANGED <<expires, qnow>>

\* SELECT of one in force: it is used as it is, with the time it has left.
ReserveFind(p) ==
    /\ qpc[p] = "find"
    /\ Goto(p, IF \E q \in SameToken(p) : expires[q] > qnow[p]
               THEN "granted" ELSE "insert")
    /\ UNCHANGED <<resv, expires, qnow>>

\* INSERT ... SELECT ... WHERE it fits.  The column token is unique, so that
\* a concurrent request of the same token makes it raise.
ReserveInsert(p) ==
    /\ qpc[p] = "insert"
    /\ Fits(p) /\ SameToken(p) = {}
    /\ resv' = resv \cup {p}
    /\ expires' = [expires EXCEPT ![p] = qnow[p] + TTL[p]]
    /\ Goto(p, "granted")
    /\ UNCHANGED qnow

ReserveInsertNone(p) ==
    /\ qpc[p] = "insert"
    /\ ~(Fits(p) /\ SameToken(p) = {})
    /\ Goto(p, "recheck")
    /\ UNCHANGED <<resv, expires, qnow>>

\* Either a concurrent request of the same token reserved, or it is a 507.
ReserveRecheck(p) ==
    /\ qpc[p] = "recheck"
    /\ Goto(p, IF \E q \in SameToken(p) : expires[q] > qnow[p]
               THEN "granted" ELSE "refused")
    /\ UNCHANGED <<resv, expires, qnow>>

ReserveStep(p) ==
    \/ ReservePurge(p)
    \/ ReserveFind(p)
    \/ ReserveInsert(p)
    \/ ReserveInsertNone(p)
    \/ ReserveRecheck(p)

\* release_storage
ReleaseToken(p) == resv' = resv \ SameToken(p)

\* Fault, in no action: the comparison is the wrong way round.
LapseInForce == resv' = resv \ {q \in resv : expires[q] > now}

\* The statement of the expiry task that deletes lapsed reservations.
LapseAll == resv' = resv \ {q \in resv : expires[q] <= now}

-----------------------------------------------------------------------------
\* Every variable of the quota has its type.
QuotaTypeOK ==
    /\ now \in Nat
    /\ rows \subseteq Requests
    /\ resv \subseteq Requests
    /\ expires \in [Requests -> Nat]
    /\ qpc \in [Requests -> QuotaStates]
    /\ qnow \in [Requests -> Nat]
    /\ \A p \in Requests : qnow[p] <= now
=============================================================================
