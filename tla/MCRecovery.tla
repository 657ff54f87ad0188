------------------------------ MODULE MCRecovery ------------------------------
(* s1 is the seed this wallet starts with, s2 one with a history on chain.  *)
EXTENDS Recovery

CONSTANTS s1, s2, p1, p2

MCSeeds == {s1, s2}
MCPasswords == {p1, p2}
\* A label that a restore or a check may give as well.
MCUserLabels == {<<"account", 2>>}
Left(path) == [seed |-> s2, path |-> path, n |-> 0, use |-> 1]
MCHistories == {{Left(1)}, {Left(1), Left(2)}}

\* Passwords are only compared with each other.
MCSymmetry == Permutations(MCPasswords)
=============================================================================
