----------------------------- MODULE MCTransfer -----------------------------
(* Model-checking instance of Transfer: an odd file of two chunks, a file that *)
(* fills its one chunk, and an empty file.                                     *)
EXTENDS Transfer

CONSTANTS a1, a2
MCAttempts == {a1, a2}

MCVersion == {"odd", "whole", "empty"}
MCContent == [odd |-> <<1, 2, 3>>, whole |-> <<1, 4>>, empty |-> <<>>]

\* Attempts are alike, so one order of what they start with stands for both.
Rank(a) == (CHOOSE i \in 1..3 : <<"odd", "whole", "empty">>[i] = offer[a])
               + (IF trusted[a] THEN 0 ELSE 3)
MCInit == Init /\ Rank(a1) <= Rank(a2)
MCFairSpec == MCInit /\ [][Next]_vars /\ Fairness

TwoVersion == {"odd", "whole"}
TwoContent == [odd |-> <<1, 2, 3>>, whole |-> <<1, 4>>]
=============================================================================
