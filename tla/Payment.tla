------------------------------ MODULE Payment ------------------------------
(***************************************************************************)
(* What a transfer between two wallets promises, whatever carries the      *)
(* slates: a payment is recorded by its receiver before its sender signs   *)
(* it, is signed for one coin and for good, cannot be signed once it was   *)
(* taken back, and no coin pays twice.                                     *)
(***************************************************************************)
CONSTANTS Payments, Coins, NoCoin

VARIABLES
    recorded,   \* the payments the receiver has written down
    withdrawn,  \* the payments the sender took back before it signed
    coin,       \* the coin a signed payment spends, NoCoin before
    paid        \* the payments that are on the chain

vars == <<recorded, withdrawn, coin, paid>>

Signed == {p \in Payments : coin[p] # NoCoin}

Init ==
    /\ recorded = {}
    /\ withdrawn = {}
    /\ coin = [p \in Payments |-> NoCoin]
    /\ paid = {}

Record(p) ==
    /\ p \notin recorded
    /\ recorded' = recorded \cup {p}
    /\ UNCHANGED <<withdrawn, coin, paid>>

Withdraw(p) ==
    /\ p \notin Signed \cup withdrawn
    /\ withdrawn' = withdrawn \cup {p}
    /\ UNCHANGED <<recorded, coin, paid>>

Sign(p) ==
    /\ p \in recorded \ (Signed \cup withdrawn)
    /\ \E c \in Coins : coin' = [coin EXCEPT ![p] = c]
    /\ UNCHANGED <<recorded, withdrawn, paid>>

Pay(p) ==
    /\ p \in Signed \ paid
    /\ \A q \in paid : coin[q] # coin[p]
    /\ paid' = paid \cup {p}
    /\ UNCHANGED <<recorded, withdrawn, coin>>

Next == \E p \in Payments : Record(p) \/ Withdraw(p) \/ Sign(p) \/ Pay(p)

Spec == Init /\ [][Next]_vars
=============================================================================
