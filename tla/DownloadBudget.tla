--------------------------- MODULE DownloadBudget ---------------------------
(***************************************************************************)
(* What a share promises about its download limit, without requests, the   *)
(* clock, files or the expiry task: a grant spends one use of an open      *)
(* share that has one left, a limit is set anew for the grants to come,    *)
(* and a share that has been closed stays closed.  A limit below zero is   *)
(* no limit.                                                               *)
(***************************************************************************)
EXTENDS Integers

CONSTANT Shares

VARIABLES
    published,   \* shares ever published
    open,        \* shares not deleted
    left,        \* uses left of each share, below zero without a limit
    granted,     \* uses granted
    limit,       \* uses granted or left when the limit was last set
    slipped      \* shares whose uses left have been put back by mistake

vars == <<published, open, left, granted, limit, slipped>>

Init ==
    /\ published = {}
    /\ open = {}
    /\ left = [s \in Shares |-> -1]
    /\ granted = [s \in Shares |-> 0]
    /\ limit = [s \in Shares |-> 0]
    /\ slipped = {}

Publish(s) ==
    /\ s \notin published
    /\ published' = published \cup {s}
    /\ open' = open \cup {s}
    /\ left' = [left EXCEPT ![s] = left'[s]]
    /\ limit' = [limit EXCEPT ![s] = left'[s]]
    /\ UNCHANGED <<granted, slipped>>

Grant(s) ==
    /\ s \in open
    /\ left[s] # 0
    /\ left' = [left EXCEPT ![s] = IF @ > 0 THEN @ - 1 ELSE @]
    /\ granted' = [granted EXCEPT ![s] = @ + 1]
    /\ UNCHANGED <<published, open, limit, slipped>>

SetLimit(s) ==
    /\ s \in open
    /\ left' = [left EXCEPT ![s] = left'[s]]
    /\ limit' = [limit EXCEPT ![s] = granted[s] + left'[s]]
    /\ slipped' \in {slipped, slipped \cup {s}}
    /\ UNCHANGED <<published, open, granted>>

\* An older number of uses left is written back over the present one.
Slip(s) ==
    /\ s \in open
    /\ left' = [left EXCEPT ![s] = left'[s]]
    /\ slipped' = slipped \cup {s}
    /\ UNCHANGED <<published, open, granted, limit>>

Close(s) ==
    /\ s \in open
    /\ open' = open \ {s}
    /\ UNCHANGED <<published, left, granted, limit, slipped>>

Next == \E s \in Shares :
            Publish(s) \/ Grant(s) \/ SetLimit(s) \/ Slip(s) \/ Close(s)

Spec == Init /\ [][Next]_vars
=============================================================================
