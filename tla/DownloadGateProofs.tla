------------------------- MODULE DownloadGateProofs -------------------------
(***************************************************************************)
(* Proofs about DownloadGate, for every set of requests, clients and       *)
(* proxies, every limit and every length of the windows: whose failures    *)
(* are counted, the order of the records, how many wrong keys a client may *)
(* have judged, and how long a key is good.                                *)
(***************************************************************************)
EXTENDS DownloadGate, SequenceTheorems, TLAPS

-----------------------------------------------------------------------------
(* The address of a client.                                                *)

\* Whatever a client puts in front of the header, the server goes by the
\* address it comes from (dependencies.py:33-66).
THEOREM TrueAddress == \A r \in Requests : Address(r) = Client[r]
<1> SUFFICES ASSUME NEW r \in Requests PROVE Address(r) = Client[r]
  OBVIOUS
<1> DEFINE chain  == Forwarded[r]
           others == {i \in DOMAIN chain : chain[i] \notin Proxies}
<1>1. CASE Peer[r] \notin Proxies
  BY <1>1, ProxiesAppend DEF Address
<1>2. CASE Peer[r] \in Proxies
  <2>1. PICK i \in DOMAIN chain : /\ chain[i] = Client[r]
                                  /\ \A j \in DOMAIN chain :
                                        j > i => chain[j] \in Proxies
    BY <1>2, ProxiesAppend
  <2>2. chain \in Seq(Addresses) /\ DOMAIN chain = 1 .. Len(chain) /\ Len(chain) \in Nat
    BY GateConstants
  <2>3. i \in others /\ \A j \in others : j <= i
    BY <2>1, <2>2, ProxiesAppend
  <2>4. (CHOOSE k \in others : \A j \in others : j <= k) = i
    <3>1. \A k \in others : (\A j \in others : j <= k) => k = i
      BY <2>2, <2>3
    <3> QED
      BY <2>3, <3>1
  <2>5. chain # <<>>
    BY <2>1, <2>2
  <2> QED
    BY <1>2, <2>1, <2>3, <2>4, <2>5 DEF Address
<1> QED
  BY <1>1, <1>2

-----------------------------------------------------------------------------
(* Sequences that name nothing twice.                                      *)

\* The sequence without the element at one of its positions.
LEMMA RemoveAtProperties ==
    ASSUME NEW S, NEW s \in Seq(S), NEW i \in 1 .. Len(s)
    PROVE  /\ RemoveAt(s, i) \in Seq(S)
           /\ Len(RemoveAt(s, i)) = Len(s) - 1
           /\ \A j \in 1 .. Len(s) - 1 :
                 RemoveAt(s, i)[j] = IF j < i THEN s[j] ELSE s[j + 1]
<1> DEFINE front == SubSeq(s, 1, i - 1)
           back  == SubSeq(s, i + 1, Len(s))
<1>1. Len(s) \in Nat /\ \A j \in 1 .. Len(s) : s[j] \in S
  OBVIOUS
<1>2. /\ front \in Seq(S)
      /\ Len(front) = i - 1
      /\ \A j \in 1 .. i - 1 : front[j] = s[j]
  BY <1>1, SubSeqProperties
<1>3. /\ back \in Seq(S)
      /\ Len(back) = Len(s) - i
      /\ \A j \in 1 .. Len(s) - i : back[j] = s[i + j]
  BY <1>1, SubSeqProperties
<1>4. RemoveAt(s, i) = front \o back
  BY DEF RemoveAt
<1> HIDE DEF front, back
<1>5. /\ front \o back \in Seq(S)
      /\ Len(front \o back) = Len(s) - 1
      /\ \A j \in 1 .. Len(s) - 1 : (front \o back)[j] =
            IF j <= i - 1 THEN front[j] ELSE back[j - (i - 1)]
  <2> DEFINE d == Len(front) + Len(back)
  <2>1. d = Len(s) - 1 /\ Len(s) \in Nat
    BY <1>1, <1>2, <1>3
  <2>2. /\ front \o back \in Seq(S)
        /\ Len(front \o back) = d
        /\ \A j \in 1 .. d : (front \o back)[j] =
              IF j <= Len(front) THEN front[j] ELSE back[j - Len(front)]
    BY <1>2, <1>3, ConcatProperties
  <2> QED
    BY <1>2, <2>1, <2>2
<1> QED
  BY <1>1, <1>2, <1>3, <1>4, <1>5

\* A sequence that is a part of another: its elements are elements of that,
\* in the same order and none of them twice.
PartOf(t, s, f) ==
    /\ f \in [1 .. Len(t) -> 1 .. Len(s)]
    /\ \A j \in 1 .. Len(t) : t[j] = s[f[j]]
    /\ \A j, k \in 1 .. Len(t) : j < k => f[j] < f[k]

\* Without its element a the sequence has all the others, in their order.
LEMMA WithoutOne ==
    ASSUME NEW S, NEW s \in Seq(S), IsInjective(s), NEW a
    PROVE  LET t == RemoveFirst(s, a) IN
           /\ t \in Seq(S)
           /\ ToSet(t) = ToSet(s) \ {a}
           /\ Len(t) = IF a \in ToSet(s) THEN Len(s) - 1 ELSE Len(s)
           /\ \E f : PartOf(t, s, f)
<1>1. DOMAIN s = 1 .. Len(s) /\ Len(s) \in Nat
  OBVIOUS
<1>2. CASE a \notin ToSet(s)
  <2>1. RemoveFirst(s, a) = s
    BY <1>1, <1>2 DEF RemoveFirst, ToSet
  <2>2. PartOf(s, s, [j \in 1 .. Len(s) |-> j])
    BY <1>1 DEF PartOf
  <2> QED
    BY <1>2, <2>1, <2>2
<1>3. CASE a \in ToSet(s)
  <2>1. PICK i \in 1 .. Len(s) : s[i] = a
    BY <1>1, <1>3 DEF ToSet
  <2>2. RemoveFirst(s, a) = RemoveAt(s, i)
    <3>1. {j \in 1 .. Len(s) : s[j] = a} = {i}
      BY <1>1, <2>1 DEF IsInjective
    <3>2. Min({i}) = i
      BY <1>1 DEF Min
    <3>3. SelectInSeq(s, LAMBDA v : v = a) = i
      BY <3>1, <3>2 DEF SelectInSeq
    <3> QED
      BY <2>1, <3>3 DEF RemoveFirst
  <2> DEFINE t == RemoveAt(s, i)
             f == [j \in 1 .. Len(s) - 1 |-> IF j < i THEN j ELSE j + 1]
  <2>3. /\ t \in Seq(S) /\ Len(t) = Len(s) - 1
        /\ \A j \in 1 .. Len(s) - 1 : t[j] = IF j < i THEN s[j] ELSE s[j + 1]
    BY RemoveAtProperties
  <2> HIDE DEF t
  <2>4. PartOf(t, s, f)
    BY <1>1, <2>3 DEF PartOf
  <2>5. ToSet(t) \subseteq ToSet(s) \ {a}
    BY <1>1, <2>1, <2>3 DEF ToSet, IsInjective
  <2>6. ASSUME NEW k \in 1 .. Len(s), k # i PROVE s[k] \in ToSet(t)
    <3>1. CASE k < i
      BY <1>1, <2>3, <3>1 DEF ToSet
    <3>2. CASE k > i
      <4>1. k - 1 \in 1 .. Len(s) - 1 /\ t[k - 1] = s[k]
        BY <1>1, <2>3, <3>2
      <4> QED
        BY <2>3, <4>1 DEF ToSet
    <3> QED
      BY <1>1, <2>6, <3>1, <3>2
  <2>7. ToSet(s) \ {a} \subseteq ToSet(t)
    BY <1>1, <2>1, <2>6 DEF ToSet
  <2> QED
    BY <1>3, <2>2, <2>3, <2>4, <2>5, <2>7 DEF t
<1> QED
  BY <1>2, <1>3

\* The same of the sequence without its first element.
LEMMA WithoutFirst ==
    ASSUME NEW S, NEW s \in Seq(S), IsInjective(s), s # <<>>
    PROVE  /\ Tail(s) \in Seq(S)
           /\ ToSet(Tail(s)) = ToSet(s) \ {Head(s)}
           /\ Head(s) \in ToSet(s)
           /\ Len(Tail(s)) = Len(s) - 1
           /\ \E f : PartOf(Tail(s), s, f)
<1>1. /\ Len(s) \in Nat /\ Len(s) > 0 /\ DOMAIN s = 1 .. Len(s)
      /\ Head(s) = s[1]
      /\ Tail(s) \in Seq(S) /\ Len(Tail(s)) = Len(s) - 1
      /\ DOMAIN Tail(s) = 1 .. Len(s) - 1
      /\ \A j \in 1 .. Len(s) - 1 : Tail(s)[j] = s[j + 1]
  BY HeadTailProperties, EmptySeq
<1>2. PartOf(Tail(s), s, [j \in 1 .. Len(s) - 1 |-> j + 1])
  BY <1>1 DEF PartOf
<1>3. ToSet(Tail(s)) \subseteq ToSet(s) \ {Head(s)}
  BY <1>1 DEF ToSet, IsInjective
<1>4. ASSUME NEW k \in 2 .. Len(s) PROVE s[k] \in ToSet(Tail(s))
  <2>1. k - 1 \in 1 .. Len(s) - 1 /\ Tail(s)[k - 1] = s[k]
    BY <1>1
  <2> QED
    BY <1>1, <2>1 DEF ToSet
<1>5. ToSet(s) \ {Head(s)} \subseteq ToSet(Tail(s))
  BY <1>1, <1>4 DEF ToSet
<1>6. Head(s) \in ToSet(s)
  BY <1>1 DEF ToSet
<1> QED
  BY <1>1, <1>2, <1>3, <1>5, <1>6

-----------------------------------------------------------------------------
(* The records.                                                            *)

\* Each address has one record, and the records come in the order of their
\* activity l.
Kept(s, l) ==
    /\ s \in Seq(Addresses)
    /\ IsInjective(s)
    /\ \A i, j \in DOMAIN s : i <= j => l[s[i]] <= l[s[j]]

LEMMA PartKept ==
    ASSUME NEW l, NEW s, Kept(s, l), NEW t \in Seq(Addresses),
           NEW f, PartOf(t, s, f)
    PROVE  Kept(t, l)
<1>1. /\ DOMAIN s = 1 .. Len(s) /\ Len(s) \in Nat
      /\ DOMAIN t = 1 .. Len(t) /\ Len(t) \in Nat
  BY DEF Kept
<1>2. \A j, k \in 1 .. Len(t) : f[j] = f[k] => j = k
  BY <1>1 DEF PartOf
<1>3. IsInjective(t)
  BY <1>1, <1>2 DEF IsInjective, PartOf, Kept
<1>4. \A j, k \in 1 .. Len(t) : j <= k => f[j] <= f[k]
  BY <1>1 DEF PartOf
<1> QED
  BY <1>1, <1>3, <1>4 DEF PartOf, Kept

\* What is counted now comes last.
LEMMA LastKept ==
    ASSUME NEW l \in [Addresses -> Nat], NEW s, Kept(s, l),
           NEW a \in Addresses \ ToSet(s), NEW t \in Nat,
           \A b \in Addresses : l[b] <= t
    PROVE  /\ Kept(Append(s, a), [l EXCEPT ![a] = t])
           /\ ToSet(Append(s, a)) = ToSet(s) \cup {a}
<1>1. /\ DOMAIN s = 1 .. Len(s) /\ Len(s) \in Nat
      /\ Append(s, a) \in Seq(Addresses)
      /\ Len(Append(s, a)) = Len(s) + 1
      /\ DOMAIN Append(s, a) = 1 .. Len(s) + 1
      /\ \A i \in 1 .. Len(s) : Append(s, a)[i] = s[i]
      /\ Append(s, a)[Len(s) + 1] = a
  BY AppendProperties DEF Kept
<1>2. \A i \in 1 .. Len(s) : s[i] # a /\ s[i] \in Addresses
  BY <1>1 DEF ToSet, Kept
<1>3. IsInjective(Append(s, a))
  BY <1>1, <1>2 DEF IsInjective, Kept
<1>4. ASSUME NEW i \in 1 .. Len(s) + 1, NEW j \in 1 .. Len(s) + 1, i <= j
      PROVE  LET m == [l EXCEPT ![a] = t]
             IN  m[Append(s, a)[i]] <= m[Append(s, a)[j]]
  <2> DEFINE m == [l EXCEPT ![a] = t]
  <2>1. m[a] = t /\ \A b \in Addresses \ {a} : m[b] = l[b]
    OBVIOUS
  <2>2. \A b \in Addresses : m[b] <= t
    BY <2>1
  <2> HIDE DEF m
  <2>3. CASE j = Len(s) + 1
    <3>1. Append(s, a)[j] = a /\ Append(s, a)[i] \in Addresses
      BY <1>1, <1>2, <2>3
    <3> QED
      BY <2>1, <2>2, <3>1 DEF m
  <2>4. CASE j # Len(s) + 1
    <3>1. /\ i \in 1 .. Len(s) /\ j \in 1 .. Len(s)
          /\ Append(s, a)[i] = s[i] /\ Append(s, a)[j] = s[j]
      BY <1>1, <1>4, <2>4
    <3>2. l[s[i]] <= l[s[j]]
      BY <1>1, <1>4, <3>1 DEF Kept
    <3> QED
      BY <1>2, <2>1, <3>1, <3>2 DEF m
  <2> QED
    BY <2>3, <2>4
<1>5. ToSet(Append(s, a)) = ToSet(s) \cup {a}
  BY <1>1 DEF ToSet
<1> QED
  BY <1>1, <1>3, <1>4, <1>5 DEF Kept

-----------------------------------------------------------------------------
(* The inductive invariant.                                                *)

\* What was noted was noted before now.
Times ==
    /\ \A a \in Addresses : last[a] <= now
    /\ \A r \in Requests : made[r] <= now

\* Requests of a client that are past the check together are known to.
Alone ==
    \A r, q \in Requests :
        r # q /\ Past(r) /\ Past(q) /\ Client[r] = Client[q]
            => Client[r] \in crowded

\* The record of an address counts the failures of the client that has it.
Counted ==
    \A a \in Addresses \ robbed :
        failed[a] = IF Known(a) THEN count[a] ELSE 0

\* A client whose request is about to be judged has failures left.
Below ==
    \A r \in Requests :
        pc[r] = "passed" => \/ failed[Client[r]] < Limit
                            \/ Client[r] \in crowded \cup robbed

\* A key that the server made tells when that was.
Keyed ==
    \A r \in Requests : key[r] # NoKey =>
        /\ key[r].window = made[r] \div Period
        /\ key[r].secret \in 1 .. secret

IInv == /\ TypeOK /\ Times
        /\ Alone /\ Counted /\ Below /\ GuessesBounded
        /\ Keyed /\ KeyLives

-----------------------------------------------------------------------------
(* The steps of the records.                                               *)

\* The records without a, or without the first, are records.
LEMMA RecordsWithout ==
    ASSUME TypeOK, NEW a \in Addresses
    PROVE  /\ Kept(Without(a), last) /\ Len(Without(a)) <= MaxIps
           /\ ToSet(Without(a)) = ToSet(ips) \ {a}
<1>1. Kept(ips, last) /\ Len(ips) \in Nat
  BY DEF TypeOK, Kept
<1>2. /\ Without(a) \in Seq(Addresses) /\ ToSet(Without(a)) = ToSet(ips) \ {a}
      /\ Len(Without(a)) <= Len(ips)
      /\ \E f : PartOf(Without(a), ips, f)
  BY <1>1, WithoutOne DEF Without, Kept
<1>3. Kept(Without(a), last)
  BY <1>1, <1>2, PartKept
<1>4. Len(Without(a)) \in Nat
  BY <1>2
<1> QED
  BY <1>1, <1>2, <1>3, <1>4, GateConstants DEF TypeOK

LEMMA RecordsRest ==
    ASSUME TypeOK, ips # <<>>
    PROVE  /\ Kept(Tail(ips), last) /\ Len(Tail(ips)) <= MaxIps
           /\ ToSet(Tail(ips)) = ToSet(ips) \ {Head(ips)}
           /\ Head(ips) \in Addresses /\ Known(Head(ips))
<1>1. Kept(ips, last) /\ Len(ips) \in Nat
  BY DEF TypeOK, Kept
<1>2. /\ Tail(ips) \in Seq(Addresses) /\ ToSet(Tail(ips)) = ToSet(ips) \ {Head(ips)}
      /\ Head(ips) \in ToSet(ips)
      /\ Len(Tail(ips)) = Len(ips) - 1
      /\ \E f : PartOf(Tail(ips), ips, f)
  BY <1>1, WithoutFirst DEF Kept
<1>3. Kept(Tail(ips), last)
  BY <1>1, <1>2, PartKept
<1>4. ToSet(ips) \subseteq Addresses
  BY <1>1 DEF ToSet, Kept
<1> QED
  BY <1>1, <1>2, <1>3, <1>4, GateConstants DEF TypeOK, Known

\* A failure is counted in the last record, whose address may push out another
\* one but not itself.
LEMMA RecordsAdd ==
    ASSUME TypeOK, Times, NEW a \in Addresses, Add(a)
    PROVE  /\ Kept(ips', last') /\ Len(ips') <= MaxIps
           /\ a \in ToSet(ips') /\ ToSet(ips') \subseteq ToSet(ips) \cup {a}
           /\ last' \in [Addresses -> 0 .. MaxTime]
           /\ \A b \in Addresses : last'[b] <= now
           /\ count' \in [Addresses -> Nat]
           /\ count'[a] = IF Known(a) THEN count[a] + 1 ELSE 1
           /\ \A b \in Addresses \ {a} : count'[b] = count[b]
<1> DEFINE s == Without(a)
           w == Append(s, a)
<1>1. /\ last \in [Addresses -> 0 .. MaxTime] /\ now \in 0 .. MaxTime
      /\ MaxTime \in Nat /\ MaxIps \in Nat \ {0}
      /\ count \in [Addresses -> Nat]
      /\ \A b \in Addresses : last[b] <= now
  BY GateConstants DEF TypeOK, Times
<1>2. /\ Kept(s, last) /\ Len(s) <= MaxIps /\ ToSet(s) = ToSet(ips) \ {a}
  BY RecordsWithout
<1>3. last' = [last EXCEPT ![a] = now]
  BY DEF Add
<1> HIDE DEF s
<1>4. Kept(w, last') /\ ToSet(w) = ToSet(s) \cup {a}
  <2>1. last \in [Addresses -> Nat] /\ now \in Nat
    BY <1>1
  <2>2. Kept(s, last) /\ a \in Addresses \ ToSet(s)
    BY <1>2
  <2>3. \A b \in Addresses : last[b] <= now
    BY <1>1
  <2>4. /\ Kept(Append(s, a), [last EXCEPT ![a] = now])
        /\ ToSet(Append(s, a)) = ToSet(s) \cup {a}
    BY <2>1, <2>2, <2>3, LastKept
  <2> QED
    BY <1>3, <2>4
<1>5. Len(w) = Len(s) + 1 /\ Len(s) \in Nat /\ w \in Seq(Addresses) /\ w # <<>>
  BY <1>2, AppendProperties DEF Kept
<1>6. ips' = IF Len(w) > MaxIps THEN Tail(w) ELSE w
  BY DEF Add, s
<1>7. /\ last' \in [Addresses -> 0 .. MaxTime]
      /\ \A b \in Addresses : last'[b] <= now
  BY <1>1, <1>3
<1>8. /\ count' \in [Addresses -> Nat]
      /\ count'[a] = IF Known(a) THEN count[a] + 1 ELSE 1
      /\ \A b \in Addresses \ {a} : count'[b] = count[b]
  <2>1. count' = [count EXCEPT ![a] = IF Known(a) THEN count[a] + 1 ELSE 1]
    BY DEF Add
  <2> QED
    BY <1>1, <2>1
<1>9. /\ Kept(ips', last') /\ Len(ips') <= MaxIps
      /\ a \in ToSet(ips') /\ ToSet(ips') \subseteq ToSet(ips) \cup {a}
  <2> HIDE DEF w
  <2>1. CASE Len(w) > MaxIps
    <3>1. /\ Tail(w) \in Seq(Addresses) /\ ToSet(Tail(w)) = ToSet(w) \ {Head(w)}
          /\ Len(Tail(w)) = Len(w) - 1
          /\ \E f : PartOf(Tail(w), w, f)
      BY <1>4, <1>5, WithoutFirst DEF Kept
    <3>2. Kept(Tail(w), last')
      BY <1>4, <3>1, PartKept
    <3>3. Head(w) # a
      <4>1. Len(s) > 0 /\ s \in Seq(Addresses)
        BY <1>1, <1>2, <1>5, <2>1 DEF Kept
      <4>2. Head(w) = s[1] /\ s[1] \in ToSet(s)
        BY <1>5, <4>1, AppendProperties DEF ToSet, w
      <4> QED
        BY <1>2, <4>2
    <3>4. ips' = Tail(w) /\ Len(Tail(w)) <= MaxIps
      BY <1>1, <1>2, <1>5, <1>6, <2>1, <3>1
    <3> QED
      BY <1>2, <1>4, <3>1, <3>2, <3>3, <3>4
  <2>2. CASE ~(Len(w) > MaxIps)
    <3>1. ips' = w /\ Len(w) <= MaxIps
      BY <1>1, <1>5, <1>6, <2>2
    <3> QED
      BY <1>2, <1>4, <3>1
  <2> QED
    BY <2>1, <2>2
<1> QED
  BY <1>7, <1>8, <1>9

-----------------------------------------------------------------------------
(* Windows of time.                                                        *)

LEMMA WindowBounds ==
    ASSUME NEW t \in Nat, NEW p \in Nat \ {0}
    PROVE  /\ t \div p \in Nat
           /\ p * (t \div p) <= t
           /\ t < p * (t \div p) + p
OBVIOUS

\* Times in the same window or in neighbouring ones are less than two windows
\* apart, and others more than one.
LEMMA Windows ==
    ASSUME NEW t \in Nat, NEW u \in Nat, t <= u, NEW p \in Nat \ {0}
    PROVE  /\ t \div p \in 0 .. t
           /\ u \div p \in {t \div p, t \div p + 1} => u - t < 2 * p
           /\ u \div p \notin {t \div p, t \div p + 1} => u - t > p
<1> DEFINE m == t \div p
           n == u \div p
<1>1. /\ m \in Nat /\ p * m <= t /\ t < p * m + p
      /\ n \in Nat /\ p * n <= u /\ u < p * n + p
  BY WindowBounds
<1> HIDE DEF m, n
<1>2. m <= t
  <2>1. m <= p * m
    BY <1>1
  <2> QED
    BY <1>1, <2>1
<1>3. ASSUME n \in {m, m + 1} PROVE u - t < 2 * p
  <2>1. p * n \in {p * m, p * m + p}
    BY <1>1, <1>3
  <2> QED
    BY <1>1, <2>1
<1>4. ASSUME n \notin {m, m + 1} PROVE u - t > p
  <2>1. ~(n < m)
    <3> SUFFICES ASSUME n < m PROVE FALSE
      OBVIOUS
    <3>1. p * (n + 1) <= p * m
      BY <1>1
    <3>2. p * n + p = p * (n + 1)
      BY <1>1
    <3>3. p * n + p <= t
      BY <1>1, <3>1, <3>2
    <3> QED
      BY <1>1, <3>3
  <2>2. p * (m + 2) <= p * n
    BY <1>1, <1>4, <2>1
  <2>3. p * (m + 2) = p * m + 2 * p
    BY <1>1
  <2> QED
    BY <1>1, <2>2, <2>3
<1> QED
  BY <1>1, <1>2, <1>3, <1>4 DEF m, n

-----------------------------------------------------------------------------
(* The steps.                                                              *)

LEMMA TimeStep ==
    ASSUME IInv, Tick \/ Rotate \/ SweepLook
    PROVE  IInv'
<1> USE GateConstants DEF recordVars, historyVars
<1>1. /\ secret \in Nat /\ now \in Nat
      /\ \A r \in Requests : key[r].secret \in Nat
      /\ \A r \in Requests : made[r] \in Nat
      /\ last \in [Addresses -> Nat]
  <2>1. secret \in Nat /\ now \in Nat /\ last \in [Addresses -> Nat]
    BY DEF IInv, TypeOK
  <2>2. \A r \in Requests : key[r].secret \in Nat
    BY DEF IInv, TypeOK
  <2>3. \A r \in Requests : made[r] \in Nat
    BY DEF IInv, TypeOK
  <2> QED
    BY <2>1, <2>2, <2>3
<1>2. /\ now <= now' /\ now' \in 0 .. MaxTime /\ now' \in Nat
      /\ secret <= secret' /\ secret' \in 1 .. MaxSecrets
  <2>1. now \in 0 .. MaxTime /\ secret \in 1 .. MaxSecrets
    BY DEF IInv, TypeOK
  <2>2. CASE Tick
    BY <1>1, <2>1, <2>2 DEF Tick
  <2>3. CASE Rotate
    BY <1>1, <2>1, <2>3 DEF Rotate
  <2>4. CASE SweepLook
    BY <1>1, <2>1, <2>4 DEF SweepLook
  <2> QED
    BY <2>2, <2>3, <2>4
<1>3. look' \in Addresses \cup {Nobody}
  BY RecordsRest DEF IInv, TypeOK, Tick, Rotate, SweepLook
<1>4. UNCHANGED <<recordVars, pc, key, historyVars>>
  BY DEF Tick, Rotate, SweepLook
<1> HIDE GateConstants
<1>5. TypeOK'
  BY <1>2, <1>3, <1>4 DEF IInv, TypeOK
<1>6. Times'
  <2>1. \A a \in Addresses : last[a] \in Nat /\ last[a] <= now
    BY <1>1 DEF IInv, Times
  <2>2. \A r \in Requests : made[r] \in Nat /\ made[r] <= now
    BY <1>1 DEF IInv, Times
  <2> QED
    BY <1>1, <1>2, <1>4, <2>1, <2>2 DEF Times
<1>7. Alone' /\ Counted' /\ Below' /\ GuessesBounded'
  BY <1>4 DEF IInv, Alone, Counted, Below, GuessesBounded, Past, Known
<1>8. Keyed'
  BY <1>1, <1>2, <1>4 DEF IInv, Keyed
<1>9. KeyLives'
  BY <1>1, <1>2, <1>4 DEF IInv, KeyLives
<1> QED
  BY <1>5, <1>6, <1>7, <1>8, <1>9 DEF IInv

LEMMA AskStep ==
    ASSUME IInv, NEW r \in Requests, Ask(r)
    PROVE  IInv'
<1> DEFINE Keys == [window : -1 .. MaxTime, secret : 0 .. MaxSecrets]
<1>1. /\ now \in Nat /\ now \in 0 .. MaxTime /\ MaxTime \in Nat
      /\ Period \in Nat \ {0} /\ secret \in 1 .. MaxSecrets
      /\ MaxSecrets \in Nat
  BY GateConstants DEF IInv, TypeOK
<1>2. now \div Period \in 0 .. MaxTime
  BY <1>1, Windows
<1>3. Token(now) \in Keys /\ NoKey \in Keys
  BY <1>1, <1>2 DEF Token, NoKey
<1>4. PICK k \in {Token(now), NoKey} : key' = [key EXCEPT ![r] = k]
  BY DEF Ask
<1>5. /\ pc[r] = "idle" /\ pc' = [pc EXCEPT ![r] = "asking"]
      /\ made' = [made EXCEPT ![r] = now]
      /\ UNCHANGED <<now, secret, recordVars, look, judged, failed, crowded,
                     robbed>>
  BY DEF Ask, Goto
<1>6. TypeOK'
  BY <1>1, <1>3, <1>4, <1>5 DEF IInv, TypeOK, PcStates, recordVars
<1>7. Times' /\ Alone' /\ Counted' /\ Below' /\ GuessesBounded'
  BY <1>1, <1>5 DEF IInv, TypeOK, Times, Alone, Counted, Below, GuessesBounded,
     Past, Known, recordVars
<1>8. Keyed'
  <2>1. \A q \in Requests \ {r} : key'[q] = key[q] /\ made'[q] = made[q]
    BY <1>4, <1>5 DEF IInv, TypeOK
  <2>2. key'[r] = k /\ made'[r] = now
    BY <1>4, <1>5 DEF IInv, TypeOK
  <2>3. /\ Token(now).window = now \div Period
        /\ Token(now).secret \in 1 .. secret
    BY <1>1 DEF Token
  <2> QED
    BY <1>5, <2>1, <2>2, <2>3 DEF IInv, Keyed
<1>9. KeyLives'
  BY <1>4, <1>5 DEF IInv, TypeOK, KeyLives
<1> QED
  BY <1>6, <1>7, <1>8, <1>9 DEF IInv

\* A request that finds its client below the limit.
LEMMA CheckStep ==
    ASSUME IInv, NEW r \in Requests, Check(r)
    PROVE  IInv'
<1> USE GateConstants DEF Goto, Past, recordVars, historyVars
<1>1. Address(r) = Client[r] /\ Client[r] \in Addresses
  BY TrueAddress
<1>2. /\ pc[r] = "asking" /\ pc \in [Requests -> PcStates]
      /\ \/ pc' = [pc EXCEPT ![r] = "refused"] /\ UNCHANGED crowded
         \/ pc' = [pc EXCEPT ![r] = "dropping"] /\ Crowds(r)
         \/ /\ pc' = [pc EXCEPT ![r] = "passed"] /\ Crowds(r)
            /\ ~(Known(Client[r]) /\ count[Client[r]] >= Limit)
      /\ UNCHANGED <<now, secret, recordVars, look, key, made, judged, failed,
                     robbed>>
  BY <1>1 DEF IInv, TypeOK, Check
<1>3. /\ crowded \subseteq crowded' /\ crowded' \subseteq Addresses
      /\ pc' \in [Requests -> PcStates]
  BY <1>1, <1>2 DEF IInv, TypeOK, Crowds, PcStates
<1>4. TypeOK'
  BY <1>2, <1>3 DEF IInv, TypeOK
<1>5. Times' /\ Counted' /\ GuessesBounded' /\ Keyed' /\ KeyLives'
  BY <1>2, <1>3 DEF IInv, TypeOK, Times, Counted, GuessesBounded, Keyed,
     KeyLives, Known
<1>6. Alone'
  <2>1. ASSUME NEW q \in Requests, q # r, Past(r)', Past(q)', Client[q] = Client[r]
        PROVE  Client[r] \in crowded'
    <3>1. Past(q)
      BY <1>2, <2>1
    <3>2. Crowds(r)
      BY <1>2, <2>1 DEF IInv, TypeOK
    <3> QED
      BY <2>1, <3>1, <3>2 DEF Crowds
  <2>2. ASSUME NEW p \in Requests \ {r}, NEW q \in Requests \ {r}, p # q,
               Past(p)', Past(q)', Client[p] = Client[q]
        PROVE  Client[p] \in crowded'
    <3>1. Past(p) /\ Past(q)
      BY <1>2, <2>2
    <3> QED
      BY <1>3, <2>2, <3>1 DEF IInv, Alone
  <2> QED
    BY <2>1, <2>2 DEF Alone
<1>7. Below'
  <2>1. ASSUME NEW q \in Requests \ {r}, pc'[q] = "passed"
        PROVE  failed'[Client[q]] < Limit \/ Client[q] \in (crowded \cup robbed)'
    BY <1>2, <1>3, <2>1 DEF IInv, Below
  <2>2. ASSUME pc'[r] = "passed"
        PROVE  failed'[Client[r]] < Limit \/ Client[r] \in (crowded \cup robbed)'
    <3>1. ~(Known(Client[r]) /\ count[Client[r]] >= Limit)
      BY <1>2, <2>2 DEF IInv, TypeOK
    <3>2. count[Client[r]] \in Nat
      BY <1>1 DEF IInv, TypeOK
    <3> QED
      BY <1>1, <1>2, <3>1, <3>2 DEF IInv, Counted
  <2> QED
    BY <2>1, <2>2 DEF Below
<1> QED
  BY <1>4, <1>5, <1>6, <1>7 DEF IInv

\* What is forgotten is not counted any more.
LEMMA ForgetStep ==
    ASSUME IInv, NEW a \in Addresses, Forgets(a),
           Kept(ips', last), Len(ips') <= MaxIps, ToSet(ips') = ToSet(ips) \ {a},
           UNCHANGED <<now, secret, count, last, key, made, judged, crowded>>,
           look' \in Addresses \cup {Nobody}, pc' \in [Requests -> PcStates]
    PROVE  /\ TypeOK' /\ Times' /\ Counted' /\ GuessesBounded'
           /\ \A b \in Addresses : failed'[b] <= failed[b]
           /\ a \in robbed' \/ failed'[a] = 0
           /\ robbed \subseteq robbed'
<1>1. /\ failed \in [Addresses -> Nat] /\ robbed \subseteq Addresses
      /\ Limit \in Nat
  BY GateConstants DEF IInv, TypeOK
<1>2. \/ robbed' = robbed \cup {a} /\ failed' = failed
      \/ robbed' = robbed /\ failed' = [failed EXCEPT ![a] = 0]
  BY DEF Forgets
<1>3. /\ failed' \in [Addresses -> Nat] /\ robbed' \subseteq Addresses
      /\ \A b \in Addresses \ {a} : failed'[b] = failed[b]
      /\ failed'[a] \in {0, failed[a]}
      /\ a \in robbed' \/ failed'[a] = 0
      /\ robbed \subseteq robbed'
  BY <1>1, <1>2
<1>4. \A b \in Addresses : failed'[b] <= failed[b]
  BY <1>1, <1>3
<1>5. TypeOK'
  BY <1>3 DEF IInv, TypeOK, Kept
<1>6. Times'
  BY DEF IInv, Times
<1>7. Counted'
  BY <1>1, <1>3 DEF IInv, Counted, Known
<1>8. GuessesBounded'
  BY <1>1, <1>3, <1>4 DEF IInv, GuessesBounded
<1> QED
  BY <1>3, <1>4, <1>5, <1>6, <1>7, <1>8

LEMMA DropStep ==
    ASSUME IInv, NEW r \in Requests, Drop(r)
    PROVE  IInv'
<1> DEFINE a == Client[r]
<1>1. /\ Address(r) = a /\ a \in Addresses
      /\ failed \in [Addresses -> Nat]
      /\ Limit \in Nat \ {0} /\ pc \in [Requests -> PcStates]
  BY TrueAddress, GateConstants DEF IInv, TypeOK
<1>2. /\ pc[r] = "dropping" /\ pc' = [pc EXCEPT ![r] = "passed"]
      /\ ips' = Without(a) /\ Forgets(a)
      /\ UNCHANGED <<now, secret, count, last, look, key, made, judged, crowded>>
  BY <1>1 DEF Drop, Goto
<1>3. /\ Kept(ips', last) /\ Len(ips') <= MaxIps
      /\ ToSet(ips') = ToSet(ips) \ {a}
  BY <1>1, <1>2, RecordsWithout DEF IInv
<1>4. /\ TypeOK' /\ Times' /\ Counted' /\ GuessesBounded'
      /\ \A b \in Addresses : failed'[b] <= failed[b]
      /\ a \in robbed' \/ failed'[a] = 0
      /\ robbed \subseteq robbed'
  <2>1. pc' \in [Requests -> PcStates] /\ look' \in Addresses \cup {Nobody}
    BY <1>1, <1>2 DEF IInv, TypeOK, PcStates
  <2> QED
    BY <1>1, <1>2, <1>3, <2>1, ForgetStep
<1>5. \A q \in Requests : Past(q)' = Past(q)
  BY <1>1, <1>2 DEF Past
<1>6. Alone'
  BY <1>2, <1>5 DEF IInv, Alone
<1>7. Below'
  <2>1. ASSUME NEW q \in Requests \ {r}, pc'[q] = "passed"
        PROVE  failed'[Client[q]] < Limit \/ Client[q] \in (crowded \cup robbed)'
    <3>1. failed[Client[q]] < Limit \/ Client[q] \in crowded \cup robbed
      BY <1>1, <1>2, <2>1 DEF IInv, Below
    <3>2. Client[q] \in Addresses
      BY GateConstants
    <3>3. /\ failed'[Client[q]] <= failed[Client[q]]
          /\ failed'[Client[q]] \in Nat /\ failed[Client[q]] \in Nat
      BY <1>1, <1>4, <3>2 DEF TypeOK
    <3> QED
      BY <1>1, <1>2, <1>4, <3>1, <3>3
  <2>2. failed'[a] < Limit \/ a \in (crowded \cup robbed)'
    BY <1>1, <1>4
  <2> QED
    BY <2>1, <2>2 DEF Below
<1>8. Keyed' /\ KeyLives'
  BY <1>1, <1>2 DEF IInv, Keyed, KeyLives
<1> QED
  BY <1>4, <1>6, <1>7, <1>8 DEF IInv

LEMMA SweepPopStep ==
    ASSUME IInv, SweepPop
    PROVE  IInv'
<1>1. /\ look' = Nobody
      /\ UNCHANGED <<now, secret, count, last, pc, key, made, judged, crowded>>
  BY DEF SweepPop
<1>2. CASE ips = <<>>
  <2>1. UNCHANGED <<ips, failed, robbed>>
    BY <1>2 DEF SweepPop
  <2> QED
    BY <1>1, <2>1 DEF IInv, TypeOK, Times, Alone, Counted, Below, GuessesBounded,
       Keyed, KeyLives, Past, Known
<1>3. CASE ips # <<>>
  <2> DEFINE a == Head(ips)
  <2>1. /\ a \in Addresses /\ Kept(ips', last) /\ Len(ips') <= MaxIps
        /\ ToSet(ips') = ToSet(ips) \ {a} /\ Forgets(a)
    BY <1>3, RecordsRest DEF IInv, SweepPop
  <2> HIDE DEF a
  <2>2. /\ TypeOK' /\ Times' /\ Counted' /\ GuessesBounded'
        /\ \A b \in Addresses : failed'[b] <= failed[b]
        /\ robbed \subseteq robbed'
    <3>1. pc' \in [Requests -> PcStates] /\ look' \in Addresses \cup {Nobody}
      BY <1>1 DEF IInv, TypeOK
    <3> QED
      BY <1>1, <2>1, <3>1, ForgetStep
  <2>3. Alone'
    BY <1>1 DEF IInv, Alone, Past
  <2>4. Below'
    <3>1. /\ \A q \in Requests : Client[q] \in Addresses
          /\ \A b \in Addresses : failed[b] \in Nat /\ failed'[b] \in Nat
          /\ Limit \in Nat
      BY <2>2, GateConstants DEF IInv, TypeOK
    <3> QED
      BY <1>1, <2>2, <3>1 DEF IInv, Below
  <2>5. Keyed' /\ KeyLives'
    BY <1>1 DEF IInv, Keyed, KeyLives
  <2> QED
    BY <2>2, <2>3, <2>4, <2>5 DEF IInv
<1> QED
  BY <1>2, <1>3

\* A key of this window or of the one before is good, and no other.
LEMMA JudgeKeys ==
    ASSUME IInv, NEW r \in Requests, Judge(r)
    PROVE  KeyLives'
<1> DEFINE m == made[r] \div Period
           n == now \div Period
           age == now - made[r]
<1>1. /\ now \in Nat /\ made[r] \in Nat /\ made[r] <= now
      /\ Period \in Nat \ {0} /\ secret \in Nat \ {0}
      /\ key[r] \in [window : -1 .. MaxTime, secret : 0 .. MaxSecrets]
      /\ judged \in [Requests -> 0 .. MaxTime] /\ pc \in [Requests -> PcStates]
  <2>1. made \in [Requests -> 0 .. MaxTime] /\ MaxTime \in Nat
    BY GateConstants DEF IInv, TypeOK
  <2>2. made[r] \in Nat /\ made[r] <= now
    BY <2>1 DEF IInv, Times
  <2>3. now \in Nat /\ Period \in Nat \ {0} /\ secret \in Nat \ {0}
    BY GateConstants DEF IInv, TypeOK
  <2>4. /\ key[r] \in [window : -1 .. MaxTime, secret : 0 .. MaxSecrets]
        /\ judged \in [Requests -> 0 .. MaxTime] /\ pc \in [Requests -> PcStates]
    BY DEF IInv, TypeOK
  <2> QED
    BY <2>2, <2>3, <2>4
<1>2. /\ n \in Nat /\ m \in Nat
      /\ n \in {m, m + 1} => age < 2 * Period
      /\ n \notin {m, m + 1} => age > Period
  <2>1. n \in Nat /\ m \in Nat
    BY <1>1, WindowBounds
  <2> QED
    BY <1>1, <2>1, Windows
<1> HIDE DEF m, n
<1>3. key[r] # NoKey => key[r].window = m /\ key[r].secret \in 1 .. secret
  BY DEF IInv, Keyed, m
<1>4. Accepts(key[r]) <=> /\ key[r].secret = secret
                          /\ key[r].window \in {n, n - 1}
  <2>1. /\ Token(now) = [window |-> n, secret |-> secret]
        /\ [Token(now) EXCEPT !.window = @ - 1] =
               [window |-> n - 1, secret |-> secret]
    BY DEF Token, n
  <2>2. key[r] = [window |-> key[r].window, secret |-> key[r].secret]
    BY <1>1
  <2> QED
    BY <2>1, <2>2 DEF Accepts
<1>5. Accepts(key[r]) => key[r] # NoKey /\ age < 2 * Period
  <2>1. Accepts(key[r]) => key[r] # NoKey
    BY <1>1, <1>4 DEF NoKey
  <2> QED
    BY <1>2, <1>3, <1>4, <2>1
<1>6. ~Accepts(key[r]) /\ key[r] # NoKey => age > Period \/ key[r].secret < secret
  BY <1>1, <1>2, <1>3, <1>4
<1>7. /\ pc' = [pc EXCEPT ![r] = IF Accepts(key[r]) THEN "granted" ELSE "denied"]
      /\ judged' = [judged EXCEPT ![r] = now]
      /\ UNCHANGED <<secret, key, made>>
  BY DEF Judge, Goto
<1> HIDE DEF age
<1>8. judged'[r] - made'[r] = age
  BY <1>1, <1>7 DEF age
<1>9. \A q \in Requests \ {r} : pc'[q] = pc[q] /\ judged'[q] = judged[q]
  BY <1>1, <1>7
<1>10. pc'[r] = IF Accepts(key[r]) THEN "granted" ELSE "denied"
  BY <1>1, <1>7
<1> QED
  BY <1>5, <1>6, <1>7, <1>8, <1>9, <1>10 DEF IInv, KeyLives

\* A wrong key counts as a failure of the client that brought it.
LEMMA JudgeStep ==
    ASSUME IInv, NEW r \in Requests, Judge(r)
    PROVE  IInv'
<1> DEFINE a == Client[r]
<1>1. /\ Address(r) = a /\ a \in Addresses
      /\ pc \in [Requests -> PcStates] /\ pc[r] = "passed"
      /\ UNCHANGED <<now, secret, look, key, made, crowded, robbed>>
      /\ judged' \in [Requests -> 0 .. MaxTime]
      /\ pc' \in [Requests -> PcStates]
      /\ \A q \in Requests \ {r} : pc'[q] = pc[q]
      /\ pc'[r] \in {"granted", "denied"}
  BY TrueAddress, GateConstants DEF IInv, TypeOK, Judge, Goto, PcStates
<1>2. KeyLives'
  BY JudgeKeys
<1>3. Alone' /\ Keyed'
  BY <1>1 DEF IInv, Alone, Past, Keyed
<1>4. CASE Accepts(key[r])
  <2>1. UNCHANGED <<ips, count, last, failed>>
    BY <1>4 DEF Judge, recordVars
  <2> QED
    BY <1>1, <1>2, <1>3, <2>1 DEF IInv, TypeOK, Times, Counted, Below,
       GuessesBounded, Known
<1>5. CASE ~Accepts(key[r])
  <2>1. /\ Add(a)
        /\ failed' = [b \in Addresses |->
                         IF b # a /\ Known(b) /\ b \notin ToSet(ips') THEN 0
                         ELSE failed[b] + (IF b = a THEN 1 ELSE 0)]
    BY <1>1, <1>5 DEF Judge
  <2> HIDE DEF a
  <2>2. /\ Kept(ips', last') /\ Len(ips') <= MaxIps
        /\ a \in ToSet(ips') /\ ToSet(ips') \subseteq ToSet(ips) \cup {a}
        /\ last' \in [Addresses -> 0 .. MaxTime]
        /\ \A b \in Addresses : last'[b] <= now
        /\ count' \in [Addresses -> Nat]
        /\ count'[a] = IF Known(a) THEN count[a] + 1 ELSE 1
        /\ \A b \in Addresses \ {a} : count'[b] = count[b]
    BY <1>1, <2>1, RecordsAdd DEF IInv
  <2>3. /\ failed \in [Addresses -> Nat] /\ count \in [Addresses -> Nat]
        /\ Limit \in Nat
    BY GateConstants DEF IInv, TypeOK
  <2>4. /\ failed' \in [Addresses -> Nat]
        /\ failed'[a] = failed[a] + 1
        /\ \A b \in Addresses \ {a} : failed'[b] =
              IF Known(b) /\ b \notin ToSet(ips') THEN 0 ELSE failed[b]
    BY <1>1, <2>1, <2>3
  <2>5. TypeOK'
    BY <1>1, <2>2, <2>4 DEF IInv, TypeOK, Kept
  <2>6. Times'
    BY <1>1, <2>2 DEF IInv, Times
  <2>7. Counted'
    <3>1. a \in robbed \/ failed'[a] = count'[a]
      BY <1>1, <2>2, <2>3, <2>4 DEF IInv, Counted
    <3>2. ASSUME NEW b \in Addresses \ {a}
          PROVE  b \in robbed \/ failed'[b] = IF b \in ToSet(ips') THEN count'[b] ELSE 0
      BY <2>2, <2>4 DEF IInv, Counted, Known
    <3> QED
      BY <1>1, <2>2, <3>1, <3>2 DEF Counted, Known
  <2>8. \A b \in Addresses \ {a} : failed'[b] <= failed[b]
    BY <2>3, <2>4
  <2>9. GuessesBounded'
    <3>1. failed'[a] <= Limit \/ a \in crowded \cup robbed
      BY <1>1, <2>3, <2>4 DEF IInv, Below, a
    <3>2. ASSUME NEW b \in Addresses \ {a}
          PROVE  failed'[b] <= Limit \/ b \in crowded \cup robbed
      <4>1. failed[b] \in Nat /\ failed'[b] \in Nat /\ failed'[b] <= failed[b]
        BY <2>3, <2>4, <2>8
      <4> QED
        BY <2>3, <4>1 DEF IInv, GuessesBounded
    <3> QED
      BY <1>1, <3>1, <3>2 DEF GuessesBounded
  <2>10. Below'
    <3> SUFFICES ASSUME NEW q \in Requests, pc'[q] = "passed"
                 PROVE  \/ failed'[Client[q]] < Limit
                        \/ Client[q] \in (crowded \cup robbed)'
      BY DEF Below
    <3>1. q # r /\ pc[q] = "passed" /\ Client[q] \in Addresses
      BY <1>1, GateConstants
    <3>2. CASE Client[q] = a
      BY <1>1, <3>1, <3>2 DEF IInv, Alone, Past, a
    <3>3. CASE Client[q] # a
      <4>1. /\ failed[Client[q]] \in Nat /\ failed'[Client[q]] \in Nat
            /\ failed'[Client[q]] <= failed[Client[q]]
        BY <2>3, <2>4, <2>8, <3>1, <3>3
      <4> QED
        BY <1>1, <2>3, <3>1, <4>1 DEF IInv, Below
    <3> QED
      BY <3>2, <3>3
  <2> QED
    BY <1>2, <1>3, <2>5, <2>6, <2>7, <2>9, <2>10 DEF IInv
<1> QED
  BY <1>4, <1>5

-----------------------------------------------------------------------------
LEMMA Inductive == Spec => []IInv
<1>1. Init => IInv
  <2> SUFFICES ASSUME Init PROVE IInv
    OBVIOUS
  <2>1. Period \in Nat \ {0} /\ Limit \in Nat \ {0} /\ MaxTime \in Nat
    BY GateConstants
  <2>2. /\ ips \in Seq(Addresses) /\ DOMAIN ips = {} /\ Len(ips) = 0
        /\ ToSet(ips) = {}
    BY DEF Init, ToSet
  <2>3. IsInjective(ips)
    BY <2>2 DEF IsInjective
  <2>4. TypeOK
    BY GateConstants, <2>2, <2>3 DEF Init, TypeOK, PcStates, NoKey
  <2>5. Times /\ Alone /\ Counted /\ Below /\ GuessesBounded
    BY GateConstants, <2>2 DEF Init, Times, Alone, Counted, Below, Past, Known,
       GuessesBounded
  <2>6. Keyed /\ KeyLives
    BY DEF Init, Keyed, KeyLives
  <2> QED
    BY <2>4, <2>5, <2>6 DEF IInv
<1>2. IInv /\ [Next]_vars => IInv'
  <2> SUFFICES ASSUME IInv, [Next]_vars PROVE IInv'
    OBVIOUS
  <2>1. CASE UNCHANGED vars
    BY <2>1 DEF vars, recordVars, historyVars, IInv, TypeOK, Times, Alone,
       Counted, Below, GuessesBounded, Keyed, KeyLives, Past, Known
  <2>2. CASE Next
    BY <2>2, TimeStep, AskStep, CheckStep, DropStep, JudgeStep, SweepPopStep
       DEF Next
  <2> QED
    BY <2>1, <2>2
<1> QED
  BY <1>1, <1>2, PTL DEF Spec

\* The type invariant holds in every reachable state: the records are in the
\* order of their activity, whatever order of steps removes them
\* (dependencies.py:97-130).
THEOREM Typing == Spec => []TypeOK
<1>1. IInv => TypeOK
  BY DEF IInv
<1> QED
  BY <1>1, Inductive, PTL

\* A client has no more wrong keys judged than the limit while its record is
\* kept, but for requests that passed the check together and for a record that
\* was removed before its time (views.py:241-256, dependencies.py:97-130).
THEOREM Guesses == Spec => []GuessesBounded
<1>1. IInv => GuessesBounded
  BY DEF IInv
<1> QED
  BY <1>1, Inductive, PTL

\* A key is good for at least one window and for less than two, and one that
\* was made up never is (utils.py:65-81, views.py:245-254).
THEOREM Keys == Spec => []KeyLives
<1>1. IInv => KeyLives
  BY DEF IInv
<1> QED
  BY <1>1, Inductive, PTL
=============================================================================
