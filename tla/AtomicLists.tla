---------------------------- MODULE AtomicLists ----------------------------
(***************************************************************************)
(* What the list of view presets and the activity log promise to whoever   *)
(* changes them, without a lock, handlers and crashes: a change is made at *)
(* once, to the list as it is at that moment, and once only.               *)
(***************************************************************************)
EXTENDS Integers, FiniteSets

CONSTANTS Saves,       \* who saves a preset, which has its name
          Drops,       \* who deletes one
          Target,      \* the preset that each of them deletes
          Requests,    \* who may be recorded
          MaxPresets,
          MaxLog

VARIABLES
    presets,
    log,
    made,   \* whose change of the presets was made
    told    \* whose activity was recorded

vars == <<presets, log, made, told>>

Init ==
    /\ presets = {}
    /\ log = {}
    /\ made = {}
    /\ told = {}

Save(r) ==
    /\ r \in Saves \ made
    /\ r \in presets \/ Cardinality(presets) < MaxPresets
    /\ presets' = presets \cup {r}
    /\ made' = made \cup {r}
    /\ UNCHANGED <<log, told>>

Drop(r) ==
    /\ r \in Drops \ made
    /\ Target[r] \in presets
    /\ presets' = presets \ {Target[r]}
    /\ made' = made \cup {r}
    /\ UNCHANGED <<log, told>>

\* A full log gives one activity up for the new one.
Record(r) ==
    /\ r \in Requests \ told
    /\ \E lost \in SUBSET log :
          /\ Cardinality(lost) = IF Cardinality(log) < MaxLog THEN 0 ELSE 1
          /\ log' = (log \ lost) \cup {r}
    /\ told' = told \cup {r}
    /\ UNCHANGED <<presets, made>>

Next == \E r \in Requests : Save(r) \/ Drop(r) \/ Record(r)

Spec == Init /\ [][Next]_vars
=============================================================================
