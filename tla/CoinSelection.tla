---------------------------- MODULE CoinSelection ---------------------------
(***************************************************************************)
(* What a send spends, what it pays in fees and what change it builds:     *)
(* select_coins_and_fee with its retry loop, then inputs_and_change.       *)
(*                                                                         *)
(* A behaviour is one call.  The coins are the values of the outputs       *)
(* eligible_to_spend let through, already sorted; the fee is in units of   *)
(* the base fee.  Arithmetic is on naturals: u64 never wraps at the        *)
(* amounts of the chain, and the one subtraction that could is guarded by  *)
(* the loop (NeverUnderpays).                                              *)
(***************************************************************************)
EXTENDS Naturals, Sequences, SequencesExt

CONSTANTS
    Values,         \* values a coin may have
    MaxCoins,       \* bound: eligible coins
    Amounts,        \* amounts a send may ask for
    SoftLimits,     \* values of max_outputs
    ChangeCounts    \* values of num_change_outputs

ASSUME SelectionAssumption ==
    /\ Values \subseteq Nat \ {0}
    /\ MaxCoins \in Nat
    /\ Amounts \subseteq Nat \ {0}
    /\ SoftLimits \subseteq Nat
    /\ ChangeCounts \subseteq Nat

VARIABLES
    coins,      \* the eligible coins, by increasing value
    args,       \* amount, max_outputs, num_change_outputs, use_all
    selected, fee, change,
    pc          \* where the call is, or how it ended

vars == <<coins, args, selected, fee, change, pc>>

Total(s) == FoldLeft(+, 0, s)

\* grin_core's transaction weight: outputs and the kernel cost, inputs refund.
TxFee(inputs, outputs) ==
    LET weight == 4 * outputs + 1
    IN  IF weight > inputs THEN weight - inputs ELSE 1

Init ==
    /\ coins \in {s \in BoundedSeq(Values, MaxCoins) : IsSorted(s, <=)}
    /\ args \in [amount : Amounts, max_outputs : SoftLimits,
                 num_change_outputs : ChangeCounts, use_all : BOOLEAN]
    /\ selected = <<>> /\ change = <<>>
    /\ fee = 0
    /\ pc = "select"

-----------------------------------------------------------------------------
Enough(s, amount) == Total(s) >= amount

\* select_from on coins that are enough: all of them, or the shortest prefix.
TakeUntil(s, amount) ==
    CHOOSE p \in Prefixes(s) :
        /\ Enough(p, amount)
        /\ \A q \in Prefixes(s) : Enough(q, amount) => Len(p) <= Len(q)

SelectFrom(s, amount, all) == IF all THEN s ELSE TakeUntil(s, amount)

\* The windows of a size that are enough, by their first index.
Windows(size, amount) ==
    {i \in 1 .. Len(coins) - size + 1 : Enough(SubSeq(coins, i, i + size - 1), amount)}

\* The largest coins within the limit, when even all of them are not enough.
SelectLargest(amount, limit, all) ==
    SubSeq(Reverse(coins), 1, IF limit < Len(coins) THEN limit ELSE Len(coins))

\* select_coins: within the limit the coins as they are; beyond it the first
\* window that is enough, else as many as it takes; else the largest.
SelectCoins(amount, limit, all) ==
    IF ~Enough(coins, amount) THEN SelectLargest(amount, limit, all)
    ELSE IF Len(coins) <= limit THEN SelectFrom(coins, amount, all)
    ELSE IF Windows(limit, amount) = {} THEN TakeUntil(coins, amount)
    ELSE LET first == CHOOSE i \in Windows(limit, amount) :
                        \A j \in Windows(limit, amount) : i <= j
         IN  SelectFrom(SubSeq(coins, first, first + limit - 1), amount, all)

\* slice::windows panics on a size of zero.
WindowPanics == Len(coins) > args.max_outputs /\ args.max_outputs = 0

Needed == args.amount + fee

\* Mutants: the loop gives up at the limit of the caller; or never.
AllSelectedAtLimit == Len(selected) >= args.max_outputs
AllSelectedAndMore == Len(selected) > Len(coins)
AllSelected == Len(selected) = Len(coins)

-----------------------------------------------------------------------------
(* select_coins_and_fee: the first attempt is to spend without change.     *)

FirstSelect ==
    /\ pc = "select" /\ ~WindowPanics
    /\ selected' = SelectCoins(args.amount, args.max_outputs, args.use_all)
    /\ fee' = TxFee(Len(selected'), 1)
    /\ LET total == Total(selected')
           needed == args.amount + fee'
       IN  pc' = CASE total = 0 -> "refused"
                   [] total # 0 /\ total < needed /\ Len(selected') = Len(coins) -> "refused"
                   [] total # 0 /\ total = needed -> "inputs"
                   [] OTHER -> "change_fee"
    /\ UNCHANGED <<coins, args, change>>

PanicOnWindow ==
    /\ pc = "select" /\ WindowPanics
    /\ pc' = "panic"
    /\ UNCHANGED <<coins, args, selected, fee, change>>

\* Mutant: the fee is not raised for the change outputs.
FeeWithoutChange(inputs) == TxFee(inputs, 1)
FeeWithChange(inputs) == TxFee(inputs, args.num_change_outputs + 1)

ChangeFee ==
    /\ pc = "change_fee"
    /\ fee' = FeeWithChange(Len(selected))
    /\ pc' = "loop"
    /\ UNCHANGED <<coins, args, selected, change>>

\* Mutant: the loop accepts coins that cover the amount but not the fee.
CoveredBeforeFee == Total(selected) >= args.amount
Covered == Total(selected) >= Needed

\* One turn of the loop.  max_outputs is shadowed: it is now the number of
\* eligible coins, so the limit the caller gave no longer holds.
Retry ==
    /\ pc = "loop" /\ ~Covered
    /\ IF AllSelected
       THEN /\ pc' = "refused"
            /\ UNCHANGED <<selected, fee>>
       ELSE /\ selected' = SelectCoins(Needed, Len(coins), args.use_all)
            /\ fee' = FeeWithChange(Len(selected'))
            /\ UNCHANGED pc
    /\ UNCHANGED <<coins, args, change>>

LeaveLoop ==
    /\ pc = "loop" /\ Covered
    /\ pc' = "inputs"
    /\ UNCHANGED <<coins, args, selected, fee, change>>

-----------------------------------------------------------------------------
(* inputs_and_change.                                                      *)

ChangeDue == Total(selected) - Needed
Parts == args.num_change_outputs
\* num_change_outputs equal parts; the last one takes the remainder, which the
\* code computes modulo the part, not modulo the number of parts.
PartChange == ChangeDue \div Parts
RemainderChange == ChangeDue % PartChange

\* Mutant: the remainder is added to every part.
SplitRemainderEverywhere == [x \in 1 .. Parts |-> PartChange + RemainderChange]
Split == [x \in 1 .. Parts |->
            IF x = Parts THEN PartChange + RemainderChange ELSE PartChange]

BuildWithoutChange ==
    /\ pc = "inputs" /\ ChangeDue = 0
    /\ pc' = "built"
    /\ UNCHANGED <<coins, args, selected, fee, change>>

BuildWithChange ==
    /\ pc = "inputs" /\ ChangeDue > 0 /\ Parts > 0 /\ PartChange > 0
    /\ change' = Split
    /\ pc' = "built"
    /\ UNCHANGED <<coins, args, selected, fee>>

\* Division by zero, or modulo zero when the change is less than its parts.
PanicOnSplit ==
    /\ pc = "inputs" /\ ChangeDue > 0
    /\ Parts = 0 \/ ChangeDue < Parts
    /\ pc' = "panic"
    /\ UNCHANGED <<coins, args, selected, fee, change>>

Next ==
    \/ FirstSelect \/ PanicOnWindow
    \/ ChangeFee \/ Retry \/ LeaveLoop
    \/ BuildWithoutChange \/ BuildWithChange \/ PanicOnSplit

\* The call runs on one thread until it returns.
Spec == Init /\ [][Next]_vars /\ WF_vars(Next)

-----------------------------------------------------------------------------
(* Properties.                                                             *)

Paid == args.amount + fee + Total(change)

\* inputs_and_change computes total - amount - fee on unsigned integers: the
\* selection it is given always covers the amount and the fee.
NeverUnderpays == pc \in {"inputs", "built"} => Total(selected) >= Needed

\* A built slate never pays out more than it spends, and pays out exactly that
\* as soon as the parts of the change are no smaller than their number.  Below
\* that the modulo loses some of the change: it is in no output and not in the fee,
\* which the kernel fixes, so that transaction does not balance.
BuiltBalances ==
    pc = "built" =>
        /\ Paid <= Total(selected)
        /\ change # <<>> /\ PartChange >= Parts => Paid = Total(selected)

\* The fee the sender committed to is enough for the transaction that was
\* built, so check_fees accepts it on both sides (slate.rs).
FeePassesCheck == pc = "built" => fee >= TxFee(Len(selected), 1 + Len(change))

\* NotEnoughFunds is true: all the eligible coins together do not cover the
\* amount and the fee of a transaction with the change outputs asked for.
RefusalIsJust ==
    pc = "refused" =>
        Total(coins) < args.amount + FeeWithChange(Len(coins))

\* The retry loop ends, whatever the fee does when the selection changes.
Terminates == <>(pc \in {"built", "refused", "panic"})
=============================================================================
