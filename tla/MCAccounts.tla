------------------------------ MODULE MCAccounts ------------------------------
(***************************************************************************)
(* Instances of Accounts for TLC.                                          *)
(***************************************************************************)
EXTENDS Accounts, TLC

CONSTANTS a1, a2, n1, n2, e1, e2, w1, w2, s1, s2

TwoAccounts  == {a1, a2}
TwoUsernames == {n1, n2}
OnePhone     == {n1}
TwoEmails    == {e1, e2}
TwoPasswords == {w1, w2}
TwoSlots     == {s1, s2}

\* The phone that may be given is a username, the case of interest: usernames are not symmetric.
Symmetry == Permutations(TwoAccounts) \cup Permutations(TwoEmails) \cup Permutations(TwoPasswords)
              \cup Permutations(TwoSlots)
==============================================================================
