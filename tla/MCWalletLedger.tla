--------------------------- MODULE MCWalletLedger ---------------------------
(* Instances of WalletLedger for TLC.                                      *)
EXTENDS WalletLedger, TLC

\* Slates are interchangeable: the properties name none of them.
Symmetry == Permutations(OwnSlates) \cup Permutations(ForeignSlates)

NoChange == {0}
OneChange == {1}
SomeChange == {0, 1}
=============================================================================
