--------------------------- MODULE MCDirectShare ---------------------------
(* Instances of DirectShare for TLC: two file shares and a text share.      *)
EXTENDS DirectShare

CONSTANTS f1, f2, t1

MCTexts == {t1}

\* Three uploads: the limit 2 admits the first file or the text, and nothing
\* is reserved for the second file, which is empty.
MCRequests == {f1, f2, t1}
MCTokenOf  == [p \in MCRequests |-> p]
MCSize     == [p \in MCRequests |-> IF p = t1 THEN 1 ELSE IF p = f1 THEN 2 ELSE 0]
MCTTL      == [p \in MCRequests |-> IF p = t1 THEN 1 ELSE 2]
=============================================================================
