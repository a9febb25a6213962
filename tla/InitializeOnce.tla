--------------------------- MODULE InitializeOnce ---------------------------
(***************************************************************************)
(* What the set-up of the system promises, whoever asks for it and however *)
(* often: one administrator's password is chosen, and none replaces it.    *)
(***************************************************************************)
CONSTANTS Candidates,  \* who may choose the password
          Nobody       \* it has not been chosen

VARIABLE winner

TypeOK == winner \in Candidates \cup {Nobody}

Init == TypeOK

Choose(c) == winner = Nobody /\ winner' = c

Next == \E c \in Candidates : Choose(c)

Spec == Init /\ [][Next]_winner
=============================================================================
