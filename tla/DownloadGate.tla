---------------------------- MODULE DownloadGate ----------------------------
(***************************************************************************)
(* What GET /share/download asks before it looks for the share: that the   *)
(* address of the client is below the limit of failures, and that the key  *)
(* is one that the server made for the code in this window of time or the  *)
(* one before it.  A wrong key counts as a failure.                        *)
(*                                                                         *)
(* The check of the address is a dependency that is no coroutine, so the   *)
(* framework runs it in a thread; the failure is counted, and old records  *)
(* are removed, by the event loop.  Each of them may come between two      *)
(* steps of the check, and a step of the check between two of the removal. *)
(***************************************************************************)
EXTENDS Integers, Sequences, SequencesExt

CONSTANTS Requests,
          Client,     \* who makes each request
          Peer,       \* the address it comes from, of the client or of a proxy
          Forwarded,  \* its header X-Forwarded-For, <<>> without
          Proxies,    \* trusted_proxies
          Addresses,
          Nobody,
          Limit,      \* error_count
          Window,     \* error_minute
          MaxIps,     \* max_ips
          Period,     \* how long one window of the keys is
          MaxTime,
          MaxSecrets  \* bounds of the instance

ASSUME GateConstants ==
    /\ Client \in [Requests -> Addresses]
    /\ Peer \in [Requests -> Addresses]
    /\ Forwarded \in [Requests -> Seq(Addresses)]
    /\ Proxies \subseteq Addresses
    /\ Nobody \notin Addresses
    /\ Limit \in Nat \ {0}
    /\ Window \in Nat
    /\ MaxIps \in Nat \ {0}
    /\ Period \in Nat \ {0}
    /\ MaxTime \in Nat
    /\ MaxSecrets \in Nat \ {0}

\* What trusted_proxies is for: a client either comes itself, or by proxies
\* that are listed there and put the address they were called from at the end
\* of the header; what is in front of it the client may have made up.
ASSUME ProxiesAppend ==
    \A r \in Requests :
        /\ Client[r] \notin Proxies
        /\ \/ Peer[r] = Client[r]
           \/ /\ Peer[r] \in Proxies
              /\ \E i \in DOMAIN Forwarded[r] :
                    /\ Forwarded[r][i] = Client[r]
                    /\ \A j \in DOMAIN Forwarded[r] :
                          j > i => Forwarded[r][j] \in Proxies

VARIABLES
    now,
    secret,   \* jwt_secret, which a change of the password replaces
    ips,      \* addresses with a record, the least recently active one first
    count,    \* failures in the record of an address
    last,     \* last_seen in it
    look,     \* what remove_expired_ip has found at the front of ips
    pc,       \* where each request is
    key,      \* the key it brings: its window and its secret
    made,     \* history: when that was made
    judged,   \* history: when it was judged
    failed,   \* history: failures of a client since its record was removed
    crowded,  \* history: clients with two requests past the check at once
    robbed    \* history: addresses whose record was removed before its time

recordVars == <<ips, count, last>>
historyVars == <<made, judged, failed, crowded, robbed>>
vars == <<now, secret, recordVars, look, pc, key, historyVars>>

PcStates == {"idle", "asking", "dropping", "passed", "refused", "granted",
             "denied"}
NoKey == [window |-> -1, secret |-> 0]

Goto(r, l) == pc' = [pc EXCEPT ![r] = l]

\* Fault, in no action: the header is believed, and its front.
AddressFront(r) == IF Forwarded[r] = <<>> THEN Peer[r] ELSE Forwarded[r][1]

\* get_client_ip: the header counts only when a trusted proxy sends it, and of
\* the header, from its end, the first address that is no such proxy.
Address(r) ==
    LET chain  == Forwarded[r]
        others == {i \in DOMAIN chain : chain[i] \notin Proxies}
    IN  IF Peer[r] \notin Proxies \/ chain = <<>> THEN Peer[r]
        ELSE IF others = {} THEN chain[1]
        ELSE chain[CHOOSE i \in others : \A j \in others : j <= i]

Known(a)   == a \in ToSet(ips)
Without(a) == RemoveFirst(ips, a)
Past(r)    == pc[r] \in {"dropping", "passed"}

\* The record of a is removed: its failures do not count any more, if it was
\* time.
Forgets(a) ==
    IF Known(a) /\ last[a] + Window > now
    THEN robbed' = robbed \cup {a} /\ UNCHANGED failed
    ELSE failed' = [failed EXCEPT ![a] = 0] /\ UNCHANGED robbed

\* get_select_token
Token(t) == [window |-> t \div Period, secret |-> secret]

-----------------------------------------------------------------------------
Init ==
    /\ now = 0
    /\ secret = 1
    /\ ips = <<>>
    /\ count = [a \in Addresses |-> 0]
    /\ last = [a \in Addresses |-> 0]
    /\ look = Nobody
    /\ pc = [r \in Requests |-> "idle"]
    /\ key = [r \in Requests |-> NoKey]
    /\ made = [r \in Requests |-> 0]
    /\ judged = [r \in Requests |-> 0]
    /\ failed = [a \in Addresses |-> 0]
    /\ crowded = {}
    /\ robbed = {}

Tick ==
    /\ now < MaxTime
    /\ now' = now + 1
    /\ UNCHANGED <<secret, recordVars, look, pc, key, historyVars>>

Rotate ==
    /\ secret < MaxSecrets /\ look = Nobody
    /\ secret' = secret + 1
    /\ UNCHANGED <<now, recordVars, look, pc, key, historyVars>>

\* The client has got its address for the download, or makes one up.
Ask(r) ==
    /\ pc[r] = "idle"
    /\ key' \in {[key EXCEPT ![r] = k] : k \in {Token(now), NoKey}}
    /\ made' = [made EXCEPT ![r] = now]
    /\ Goto(r, "asking")
    /\ UNCHANGED <<now, secret, recordVars, look, judged, failed, crowded,
                   robbed>>

\* Requests of a client that are past the check together.
Crowds(r) == crowded' =
    IF \E q \in Requests \ {r} : Client[q] = Client[r] /\ Past(q)
    THEN crowded \cup {Client[r]} ELSE crowded

\* check_ip looks at the record ...
Check(r) ==
    LET a == Address(r) IN
    /\ pc[r] = "asking"
    /\ IF Known(a) /\ count[a] >= Limit
       THEN IF last[a] + Window > now
            THEN Goto(r, "refused") /\ UNCHANGED crowded
            ELSE Goto(r, "dropping") /\ Crowds(r)
       ELSE Goto(r, "passed") /\ Crowds(r)
    /\ UNCHANGED <<now, secret, recordVars, look, key, made, judged, failed,
                   robbed>>

\* ... and removes it when its time is over.
Drop(r) ==
    LET a == Address(r) IN
    /\ pc[r] = "dropping"
    /\ ips' = Without(a)
    /\ Forgets(a)
    /\ Goto(r, "passed")
    /\ UNCHANGED <<now, secret, count, last, look, key, made, judged, crowded>>

\* Fault, in no action: a record keeps its place.
AddInPlace(a) ==
    /\ ips' = IF Known(a) THEN ips
              ELSE IF Len(ips) >= MaxIps THEN Append(Tail(ips), a)
              ELSE Append(ips, a)
    /\ count' = [count EXCEPT ![a] = IF Known(a) THEN @ + 1 ELSE 1]
    /\ last' = [last EXCEPT ![a] = now]

\* add_ip: the record comes last, and the first one makes room for it.
Add(a) ==
    LET with == Append(Without(a), a) IN
    /\ ips' = IF Len(with) > MaxIps THEN Tail(with) ELSE with
    /\ count' = [count EXCEPT ![a] = IF Known(a) THEN @ + 1 ELSE 1]
    /\ last' = [last EXCEPT ![a] = now]

\* Fault, in no action: only the key of this window is good.
AcceptsThis(k) == k = Token(now)

Accepts(k) == k \in {Token(now), [Token(now) EXCEPT !.window = @ - 1]}

\* download_file makes the two keys that are good now and compares.
Judge(r) ==
    /\ pc[r] = "passed" /\ look = Nobody
    /\ judged' = [judged EXCEPT ![r] = now]
    /\ IF Accepts(key[r])
       THEN Goto(r, "granted") /\ UNCHANGED <<recordVars, failed>>
       ELSE /\ Goto(r, "denied")
            /\ Add(Address(r))
            /\ failed' = [a \in Addresses |->
                             IF a # Address(r) /\ Known(a) /\ a \notin ToSet(ips')
                             THEN 0
                             ELSE failed[a] + (IF a = Client[r] THEN 1 ELSE 0)]
    /\ UNCHANGED <<now, secret, look, key, made, crowded, robbed>>

\* remove_expired_ip looks at the first record and removes the first one, as
\* long as that is older than the window.
SweepLook ==
    /\ look = Nobody /\ ips # <<>>
    /\ last[Head(ips)] + Window < now
    /\ look' = Head(ips)
    /\ UNCHANGED <<now, secret, recordVars, pc, key, historyVars>>

SweepPop ==
    /\ look # Nobody
    /\ ips' = IF ips = <<>> THEN ips ELSE Tail(ips)
    /\ IF ips = <<>> THEN UNCHANGED <<failed, robbed>> ELSE Forgets(Head(ips))
    /\ look' = Nobody
    /\ UNCHANGED <<now, secret, count, last, pc, key, made, judged, crowded>>

Next ==
    \/ Tick
    \/ Rotate
    \/ \E r \in Requests : Ask(r) \/ Check(r) \/ Drop(r) \/ Judge(r)
    \/ SweepLook
    \/ SweepPop

Spec == Init /\ [][Next]_vars

-----------------------------------------------------------------------------
(* Properties that hold.                                                   *)

\* Every variable has its type; the records are ordered by their activity, as
\* the removal of old ones and the eviction assume, and never too many.
TypeOK ==
    /\ now \in 0 .. MaxTime
    /\ secret \in 1 .. MaxSecrets
    /\ ips \in Seq(Addresses) /\ IsInjective(ips) /\ Len(ips) <= MaxIps
    /\ count \in [Addresses -> Nat]
    /\ last \in [Addresses -> 0 .. MaxTime]
    /\ \A i, j \in DOMAIN ips : i <= j => last[ips[i]] <= last[ips[j]]
    /\ look \in Addresses \cup {Nobody}
    /\ pc \in [Requests -> PcStates]
    /\ key \in [Requests -> [window : -1 .. MaxTime, secret : 0 .. MaxSecrets]]
    /\ made \in [Requests -> 0 .. MaxTime]
    /\ judged \in [Requests -> 0 .. MaxTime]
    /\ failed \in [Addresses -> Nat]
    /\ crowded \subseteq Addresses
    /\ robbed \subseteq Addresses

\* A client has no more wrong keys judged than the limit while its record is
\* kept, whatever header it sends, unless its requests passed the check together
\* or the thread of a check removed the record before its time.
GuessesBounded ==
    \A a \in Addresses : failed[a] <= Limit \/ a \in crowded \cup robbed

\* A key is good for at least one window and for less than two, unless the
\* secret was replaced; one that was made up is never good.
KeyLives ==
    \A r \in Requests :
        LET age == judged[r] - made[r] IN
        /\ pc[r] = "granted" => key[r] # NoKey /\ age < 2 * Period
        /\ pc[r] = "denied" /\ key[r] # NoKey
               => age > Period \/ key[r].secret < secret
=============================================================================
