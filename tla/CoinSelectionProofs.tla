------------------------ MODULE CoinSelectionProofs ------------------------
(***************************************************************************)
(* What select_coins_and_fee and inputs_and_change guarantee, for all      *)
(* coins, amounts, limits and numbers of change outputs.                   *)
(***************************************************************************)
EXTENDS CoinSelection, SequenceFacts

-----------------------------------------------------------------------------
(* Sums.  Total is a fold; Sums characterizes it by its partial sums.      *)

Sums(g, s) ==
    /\ g \in [0 .. Len(s) -> Int]
    /\ g[0] = 0
    /\ \A i \in 1 .. Len(s) : g[i] = g[i - 1] + s[i]

\* The recursion of the fold: the last element is added to the sum of the rest.
Adds(it, D, s) ==
    it = [t \in SUBSET D |-> IF t = {} THEN 0 ELSE it[t \ {Max(t)}] + s[Max(t)]]

LEMMA TotalUnfolds == \A s : Total(s) = (CHOOSE it : Adds(it, DOMAIN s, s))[DOMAIN s]
    BY DEF Total, FoldLeft, MapThenFoldSet, Adds

LEMMA MaxIs ==
    ASSUME NEW t \in SUBSET Nat, NEW m \in t, \A y \in t : m >= y
    PROVE  Max(t) = m
    <1>1. \A x \in t : (\A y \in t : x >= y) => x = m
        OBVIOUS
    <1>2. QED
        BY <1>1 DEF Max

LEMMA AddsExists ==
    ASSUME NEW s, NEW n \in Nat
    PROVE  \E it : Adds(it, 1 .. n, s)
    <1> DEFINE T == {m \in Nat : \E it : Adds(it, 1 .. m, s)}
    <1>1. 0 \in T
        <2> DEFINE it == [t \in {{}} |-> 0]
        <2>1. SUBSET (1 .. 0) = {{}}
            OBVIOUS
        <2>2. Adds(it, 1 .. 0, s)
            BY <2>1 DEF Adds
        <2>3. QED
            BY <2>2
    <1>2. ASSUME NEW m \in T PROVE m + 1 \in T
        <2>1. PICK it : Adds(it, 1 .. m, s)
            OBVIOUS
        <2> DEFINE new == [t \in SUBSET (1 .. m + 1) |->
                            IF m + 1 \in t THEN it[t \ {m + 1}] + s[m + 1] ELSE it[t]]
        <2>2. ASSUME NEW t \in SUBSET (1 .. m + 1)
              PROVE  new[t] = IF t = {} THEN 0 ELSE new[t \ {Max(t)}] + s[Max(t)]
            <3>1. CASE m + 1 \in t
                <4>1. Max(t) = m + 1
                    BY <3>1, MaxIs
                <4>2. t \ {m + 1} \in SUBSET (1 .. m + 1) /\ m + 1 \notin t \ {m + 1}
                    OBVIOUS
                <4>3. new[t \ {m + 1}] = it[t \ {m + 1}]
                    BY <4>2
                <4>4. QED
                    BY <3>1, <4>1, <4>3
            <3>2. CASE m + 1 \notin t
                <4>1. t \in SUBSET (1 .. m)
                    BY <3>2
                <4>2. new[t] = it[t]
                    BY <3>2
                <4>3. it[t] = IF t = {} THEN 0 ELSE it[t \ {Max(t)}] + s[Max(t)]
                    BY <2>1, <4>1 DEF Adds
                <4>4. new[t \ {Max(t)}] = it[t \ {Max(t)}]
                    BY <3>2
                <4>5. QED
                    BY <4>2, <4>3, <4>4
            <3>3. QED
                BY <3>1, <3>2
        <2>3. DOMAIN new = SUBSET (1 .. m + 1) /\ new = [t \in SUBSET (1 .. m + 1) |-> new[t]]
            OBVIOUS
        <2> HIDE DEF new
        <2>4. Adds(new, 1 .. m + 1, s)
            BY <2>2, <2>3 DEF Adds
        <2>5. QED
            BY <2>4
    <1> HIDE DEF T
    <1>3. T = Nat
        BY <1>1, <1>2, NatSetInduction DEF T
    <1>4. QED
        BY <1>3 DEF T

\* The total of a sequence is the last of its partial sums.
LEMMA TotalIsSum ==
    ASSUME NEW s \in Seq(Nat)
    PROVE  Total(s) \in Nat /\ \E g : Sums(g, s) /\ Total(s) = g[Len(s)]
    <1> DEFINE n == Len(s)
               it == CHOOSE f : Adds(f, 1 .. n, s)
               g == [i \in 0 .. n |-> it[1 .. i]]
               T == {m \in Nat : m <= n => it[1 .. m] \in Nat}
    <1>1. n \in Nat /\ DOMAIN s = 1 .. n /\ \A i \in 1 .. n : s[i] \in Nat
        BY LenProperties, ElementOfSeq
    <1>2. Adds(it, 1 .. n, s)
        BY <1>1, AddsExists
    <1>3. Total(s) = it[1 .. n]
        BY <1>1, TotalUnfolds
    <1> HIDE DEF it, n
    <1>4. it[1 .. 0] = 0
        BY <1>1, <1>2 DEF Adds
    <1>5. ASSUME NEW i \in 1 .. n
          PROVE  it[1 .. i] = it[1 .. i - 1] + s[i]
        <2>1. 1 .. i \in SUBSET (1 .. n) /\ 1 .. i # {}
            BY <1>1
        <2>2. Max(1 .. i) = i
            BY <1>1, MaxIs, SMTT(30)
        <2>3. (1 .. i) \ {i} = 1 .. i - 1
            BY <1>1
        <2>4. QED
            BY <1>2, <2>1, <2>2, <2>3 DEF Adds
    <1>6. T = Nat
        <2>1. 0 \in T
            BY <1>4
        <2>2. ASSUME NEW m \in T PROVE m + 1 \in T
            <3>1. CASE m + 1 <= n
                <4>1. m + 1 \in 1 .. n /\ (m + 1) - 1 = m /\ m <= n
                    BY <1>1, <3>1
                <4>2. it[1 .. m + 1] = it[1 .. m] + s[m + 1]
                    BY <1>5, <4>1
                <4>3. QED
                    BY <1>1, <4>1, <4>2
            <3>2. CASE ~(m + 1 <= n)
                BY <3>2
            <3>3. QED
                BY <3>1, <3>2
        <2> HIDE DEF T
        <2>3. QED
            BY <2>1, <2>2, NatSetInduction DEF T
    <1>7. \A i \in 0 .. n : it[1 .. i] \in Nat
        BY <1>1, <1>6
    <1>8. Sums(g, s)
        <2>1. g \in [0 .. n -> Int] /\ g[0] = 0
            BY <1>1, <1>4, <1>7
        <2>2. \A i \in 1 .. n : g[i] = g[i - 1] + s[i]
            BY <1>1, <1>5
        <2>3. QED
            BY <2>1, <2>2 DEF Sums, n
    <1>9. Total(s) = g[n]
        BY <1>1, <1>3
    <1>10. Total(s) \in Nat
        BY <1>1, <1>3, <1>7
    <1> HIDE DEF g
    <1>11. QED
        BY <1>8, <1>9, <1>10 DEF n

\* Partial sums are unique, so any function that has their form gives the total.
LEMMA SumsGiveTotal ==
    ASSUME NEW s \in Seq(Nat), NEW h, Sums(h, s)
    PROVE  Total(s) = h[Len(s)]
    <1> DEFINE n == Len(s)
    <1>1. PICK g : Sums(g, s) /\ Total(s) = g[n]
        BY TotalIsSum
    <1>2. n \in Nat
        BY LenProperties
    <1> DEFINE T == {m \in Nat : m <= n => g[m] = h[m]}
    <1> HIDE DEF n
    <1>3. 0 \in T
        BY <1>1 DEF Sums
    <1>4. ASSUME NEW m \in T PROVE m + 1 \in T
        <2>1. CASE m + 1 <= n
            <3>1. m + 1 \in 1 .. n /\ (m + 1) - 1 = m /\ m <= n
                BY <1>2, <2>1
            <3>2. g[m + 1] = g[m] + s[m + 1] /\ h[m + 1] = h[m] + s[m + 1]
                BY <1>1, <3>1 DEF Sums, n
            <3>3. QED
                BY <3>1, <3>2
        <2>2. QED
            BY <2>1
    <1> HIDE DEF T
    <1>5. T = Nat
        BY <1>3, <1>4, NatSetInduction DEF T
    <1>6. QED
        BY <1>1, <1>2, <1>5 DEF T, n

\* Backwards the coins add up to the same.
LEMMA TotalOfReverse ==
    ASSUME NEW s \in Seq(Nat)
    PROVE  /\ Reverse(s) \in Seq(Nat) /\ Len(Reverse(s)) = Len(s)
           /\ Total(Reverse(s)) = Total(s)
    <1> DEFINE n == Len(s)
               r == Reverse(s)
    <1>1. n \in Nat /\ \A i \in 1 .. n : s[i] \in Nat
        BY LenProperties, ElementOfSeq
    <1>2. r \in [1 .. n -> Nat] /\ \A i \in 1 .. n : r[i] = s[n - i + 1]
        BY <1>1 DEF Reverse
    <1> HIDE DEF r, n
    <1>3. r \in Seq(Nat) /\ Len(r) = n
        BY <1>1, <1>2, IsASeq, LenProperties
    <1>4. PICK g : Sums(g, s) /\ Total(s) = g[n]
        BY TotalIsSum DEF n
    <1> DEFINE h == [i \in 0 .. n |-> g[n] - g[n - i]]
    <1>5. /\ g \in [0 .. n -> Int] /\ g[0] = 0
          /\ \A i \in 1 .. n : g[i] = g[i - 1] + s[i]
        BY <1>4 DEF Sums, n
    <1>6. h \in [0 .. n -> Int] /\ h[0] = 0
        BY <1>1, <1>5
    <1>7. ASSUME NEW i \in 1 .. n PROVE h[i] = h[i - 1] + r[i]
        <2>1. n - i + 1 \in 1 .. n /\ n - (i - 1) = n - i + 1 /\ (n - i + 1) - 1 = n - i
            BY <1>1
        <2>2. g[n - i + 1] = g[n - i] + s[n - i + 1]
            BY <1>5, <2>1
        <2>3. h[i] = g[n] - g[n - i] /\ h[i - 1] = g[n] - g[n - i + 1]
            BY <1>1, <2>1
        <2>4. g[n] \in Int /\ g[n - i] \in Int /\ s[n - i + 1] \in Int
            BY <1>1, <1>5, <2>1
        <2>5. QED
            BY <1>2, <2>2, <2>3, <2>4
    <1>8. h[n] = g[n]
        BY <1>1, <1>5
    <1> HIDE DEF h
    <1>9. Total(r) = h[n]
        BY <1>3, <1>6, <1>7, SumsGiveTotal DEF Sums
    <1>10. QED
        BY <1>3, <1>4, <1>8, <1>9 DEF r, n

\* n equal parts, the last of which has a rest on top.
PartsOf(n, q, rest) == [x \in 1 .. n |-> IF x = n THEN q + rest ELSE q]

LEMMA TotalOfParts ==
    ASSUME NEW n \in Nat \ {0}, NEW q \in Nat, NEW rest \in Nat
    PROVE  /\ Len(PartsOf(n, q, rest)) = n
           /\ Total(PartsOf(n, q, rest)) = n * q + rest
    <1> DEFINE s == PartsOf(n, q, rest)
    <1>1. s \in [1 .. n -> Nat] /\ \A i \in 1 .. n : s[i] = IF i = n THEN q + rest ELSE q
        BY DEF PartsOf
    <1> HIDE DEF s
    <1>2. s \in Seq(Nat) /\ Len(s) = n
        BY <1>1, IsASeq, LenProperties
    <1> DEFINE h == [i \in 0 .. n |-> IF i = n THEN n * q + rest ELSE i * q]
    <1>3. h \in [0 .. n -> Int] /\ h[0] = 0 /\ h[n] = n * q + rest
        OBVIOUS
    <1>4. ASSUME NEW i \in 1 .. n PROVE h[i] = h[i - 1] + s[i]
        <2>1. h[i - 1] = (i - 1) * q
            OBVIOUS
        <2>2. i * q = (i - 1) * q + q
            OBVIOUS
        <2>3. CASE i = n
            BY <1>1, <2>1, <2>2, <2>3
        <2>4. CASE i # n
            BY <1>1, <2>1, <2>2, <2>4
        <2>5. QED
            BY <2>3, <2>4
    <1> HIDE DEF h
    <1>5. Total(s) = n * q + rest
        BY <1>2, <1>3, <1>4, SumsGiveTotal DEF Sums
    <1>6. QED
        BY <1>2, <1>5 DEF s

-----------------------------------------------------------------------------
(* The fee and the change.                                                 *)

LEMMA FeeType ==
    ASSUME NEW i \in Nat, NEW o \in Nat
    PROVE  TxFee(i, o) \in Nat
    BY DEF TxFee

\* More outputs cost more, more inputs less.
LEMMA FeeIsMonotone ==
    ASSUME NEW i \in Nat, NEW o \in Nat, NEW p \in Nat, o <= p
    PROVE  TxFee(i, o) <= TxFee(i, p)
    BY DEF TxFee

LEMMA DivMod ==
    ASSUME NEW d \in Nat, NEW q \in Nat, q > 0
    PROVE  d \div q \in Nat /\ d % q \in 0 .. q - 1 /\ d = q * (d \div q) + (d % q)
    OBVIOUS

\* What is left of the change when it is divided by a number of parts and taken
\* modulo the part: never more than there is, and all of it if the parts are no
\* smaller than their number.
LEMMA SplitOfChange ==
    ASSUME NEW d \in Nat, NEW n \in Nat \ {0}, d \div n > 0
    PROVE  LET q == d \div n
               rest == d % q
           IN  /\ q \in Nat /\ rest \in Nat
               /\ n * q + rest <= d
               /\ q >= n => n * q + rest = d
    <1> DEFINE q == d \div n
               r == d % n
               k == d \div q
               m == d % q
    <1>1. q \in Nat /\ q > 0 /\ r \in 0 .. n - 1 /\ d = n * q + r
        OBVIOUS
    <1> HIDE DEF q
    <1>2. k \in Nat /\ m \in 0 .. q - 1 /\ d = q * k + m
        BY <1>1, DivMod
    <1> HIDE DEF r, k, m
    <1>3. CASE r < q
        <2>1. q * (k - n) = r - m
            BY <1>1, <1>2
        <2>2. k - n = 0
            <3>1. ~(k - n >= 1)
                <4>1. k - n >= 1 => q * (k - n) >= q
                    BY <1>1, <1>2
                <4>2. QED
                    BY <1>1, <1>2, <1>3, <2>1, <4>1
            <3>2. ~(k - n <= -1)
                <4>1. k - n <= -1 => q * (k - n) <= -q
                    BY <1>1, <1>2
                <4>2. QED
                    BY <1>1, <1>2, <1>3, <2>1, <4>1
            <3>3. QED
                BY <1>1, <1>2, <3>1, <3>2
        <2>3. m = r
            BY <1>1, <1>2, <2>1, <2>2
        <2>4. QED
            BY <1>1, <2>3 DEF q, m
    <1>4. CASE r >= q
        <2>1. m <= r /\ ~(q >= n)
            BY <1>1, <1>2, <1>4
        <2>2. n * q + m <= d
            BY <1>1, <1>2, <2>1
        <2>3. QED
            BY <1>1, <1>2, <2>1, <2>2 DEF q, m
    <1>5. QED
        BY <1>1, <1>2, <1>3, <1>4

-----------------------------------------------------------------------------
(* Selecting coins.                                                        *)

\* A prefix that is enough exists if all coins are, and the shortest is taken.
LEMMA TakeUntilIs ==
    ASSUME NEW s \in Seq(Nat), NEW amount \in Nat, Enough(s, amount)
    PROVE  LET p == TakeUntil(s, amount)
           IN  /\ p \in Seq(Nat) /\ Len(p) <= Len(s) /\ Enough(p, amount)
               /\ Len(p) = Len(s) => p = s
    <1> DEFINE n == Len(s)
               T == {l \in 0 .. n : Enough(SubSeq(s, 1, l), amount)}
    <1>1. n \in Nat /\ \A i \in 1 .. n : s[i] \in Nat
        BY LenProperties, ElementOfSeq
    <1>2. ASSUME NEW l \in 0 .. n
          PROVE  SubSeq(s, 1, l) \in Seq(Nat) /\ Len(SubSeq(s, 1, l)) = l
        BY <1>1, SubSeqProperties
    <1>3. SubSeq(s, 1, n) = s
        BY SubSeqFull
    <1> HIDE DEF n
    <1>4. n \in T
        <2>1. Enough(SubSeq(s, 1, n), amount)
            BY <1>3
        <2>2. n \in 0 .. n
            BY <1>1
        <2>3. QED
            BY <2>1, <2>2
    <1>5. PICK l \in T : \A m \in T : l <= m
        <2>1. T \in SUBSET Nat /\ T # {}
            BY <1>1, <1>4
        <2> HIDE DEF T
        <2>2. QED
            BY <2>1, NatSetHasMin
    <1> DEFINE Shortest(p) == /\ p \in Prefixes(s) /\ Enough(p, amount)
                              /\ \A q \in Prefixes(s) : Enough(q, amount) => Len(p) <= Len(q)
    <1>6. Shortest(SubSeq(s, 1, l))
        BY <1>2, <1>5 DEF Prefixes, n
    <1>7. TakeUntil(s, amount) = CHOOSE p : Shortest(p)
        BY DEF TakeUntil
    <1>8. Shortest(TakeUntil(s, amount))
        BY <1>6, <1>7
    <1>9. PICK m \in 0 .. n : TakeUntil(s, amount) = SubSeq(s, 1, m)
        BY <1>8 DEF Prefixes, n
    <1> HIDE DEF Shortest
    <1> DEFINE p == TakeUntil(s, amount)
    <1>10. Enough(p, amount)
        BY <1>8 DEF Shortest
    <1>11. p \in Seq(Nat) /\ Len(p) = m
        BY <1>2, <1>9
    <1>12. Len(p) <= n /\ (Len(p) = n => p = s)
        BY <1>1, <1>3, <1>9, <1>11
    <1>13. QED
        BY <1>10, <1>11, <1>12 DEF n

LEMMA SelectFromIs ==
    ASSUME NEW s \in Seq(Nat), NEW amount \in Nat, NEW all \in BOOLEAN, Enough(s, amount)
    PROVE  LET p == SelectFrom(s, amount, all)
           IN  /\ p \in Seq(Nat) /\ Len(p) <= Len(s) /\ Enough(p, amount)
               /\ Len(p) = Len(s) => p = s
    <1>1. CASE all
        <2>1. SelectFrom(s, amount, all) = s /\ Len(s) \in Nat
            BY <1>1, LenProperties DEF SelectFrom
        <2>2. QED
            BY <2>1
    <1>2. CASE ~all
        <2>1. SelectFrom(s, amount, all) = TakeUntil(s, amount)
            BY <1>2 DEF SelectFrom
        <2>2. QED
            BY <2>1, TakeUntilIs
    <1>3. QED
        BY <1>1, <1>2

\* What select_coins returns covers the amount if the coins do, and as many coins
\* as there are are all of them.
LEMMA SelectCoinsIs ==
    ASSUME coins \in Seq(Nat), NEW amount \in Nat, NEW limit \in Nat, NEW all \in BOOLEAN
    PROVE  LET s == SelectCoins(amount, limit, all)
           IN  /\ s \in Seq(Nat) /\ Len(s) <= Len(coins)
               /\ Len(s) = Len(coins) => Total(s) = Total(coins)
               /\ Enough(coins, amount) => Enough(s, amount)
    <1> DEFINE n == Len(coins)
               s == SelectCoins(amount, limit, all)
    <1>1. n \in Nat /\ \A i \in 1 .. n : coins[i] \in Nat
        BY LenProperties, ElementOfSeq
    <1>2. CASE ~Enough(coins, amount)
        <2> DEFINE r == Reverse(coins)
                   k == IF limit < n THEN limit ELSE n
        <2>1. s = SubSeq(r, 1, k)
            BY <1>2 DEF SelectCoins, SelectLargest
        <2>2. r \in Seq(Nat) /\ Len(r) = n /\ Total(r) = Total(coins)
            BY TotalOfReverse
        <2> HIDE DEF r
        <2>3. k \in Nat /\ k <= n
            BY <1>1
        <2> HIDE DEF k, s, n
        <2>4. \A i \in 1 .. k : r[i] \in Nat
            BY <1>1, <2>2, <2>3, ElementOfSeq
        <2>5. s \in Seq(Nat) /\ Len(s) = k
            BY <2>1, <2>3, <2>4, SubSeqProperties
        <2>6. k = n => s = r
            BY <2>1, <2>2, SubSeqFull
        <2>7. QED
            BY <1>2, <2>2, <2>3, <2>5, <2>6 DEF s, n
    <1>3. CASE Enough(coins, amount) /\ n <= limit
        <2>1. s = SelectFrom(coins, amount, all)
            BY <1>3 DEF SelectCoins
        <2>2. QED
            BY <1>3, <2>1, SelectFromIs
    <1>4. CASE Enough(coins, amount) /\ ~(n <= limit) /\ Windows(limit, amount) = {}
        <2>1. s = TakeUntil(coins, amount)
            BY <1>4 DEF SelectCoins
        <2>2. QED
            BY <1>4, <2>1, TakeUntilIs
    <1>5. CASE Enough(coins, amount) /\ ~(n <= limit) /\ Windows(limit, amount) # {}
        <2> DEFINE W == Windows(limit, amount)
                   first == CHOOSE i \in W : \A j \in W : i <= j
                   w == SubSeq(coins, first, first + limit - 1)
        <2>1. W \in SUBSET Nat
            BY <1>1 DEF Windows
        <2>2. \E i \in W : \A j \in W : i <= j
            BY <1>5, <2>1, NatSetHasMin
        <2>3. first \in W
            BY <2>2
        <2>4. s = SelectFrom(w, amount, all)
            BY <1>5 DEF SelectCoins
        <2> HIDE DEF first
        <2>5. first \in 1 .. n - limit + 1 /\ Enough(w, amount)
            BY <2>3 DEF Windows
        <2>6. /\ first \in Int /\ first + limit - 1 \in Int
              /\ \A i \in first .. first + limit - 1 : coins[i] \in Nat
              /\ limit < n
            BY <1>1, <1>5, <2>5
        <2>7. /\ w \in Seq(Nat)
              /\ Len(w) = IF first <= first + limit - 1
                          THEN (first + limit - 1) - first + 1 ELSE 0
            BY <2>6, SubSeqProperties
        <2>8. Len(w) = limit
            BY <2>6, <2>7
        <2> HIDE DEF w, s, W, n
        <2>9. s \in Seq(Nat) /\ Len(s) <= limit /\ Enough(s, amount)
            BY <2>4, <2>5, <2>7, <2>8, SelectFromIs
        <2>10. Len(s) \in Nat
            BY <2>9, LenProperties
        <2>11. Len(s) <= n /\ Len(s) # n
            BY <1>1, <2>6, <2>9, <2>10
        <2>12. QED
            BY <2>9, <2>11 DEF s, n
    <1>6. QED
        BY <1>2, <1>3, <1>4, <1>5

-----------------------------------------------------------------------------
(* The inductive invariant.                                                *)

Args == [amount : Amounts, max_outputs : SoftLimits,
         num_change_outputs : ChangeCounts, use_all : BOOLEAN]

Typed ==
    /\ coins \in Seq(Nat) /\ selected \in Seq(Nat)
    /\ args \in Args
    /\ fee \in Nat
    /\ pc \in {"select", "change_fee", "loop", "inputs", "built", "refused", "panic"}
    /\ pc # "built" => change = << >>

\* The loop holds the fee of the selection with the change outputs asked for; a
\* selection as long as the coins is worth as much.
LoopInv ==
    /\ pc \in {"change_fee", "loop"} =>
        (Len(selected) = Len(coins) => Total(selected) = Total(coins))
    /\ pc = "loop" => fee = FeeWithChange(Len(selected))

\* Past it the fee is the same, or nothing is left for change.
InputsInv ==
    pc = "inputs" =>
        \/ fee = FeeWithChange(Len(selected))
        \/ fee = TxFee(Len(selected), 1) /\ Total(selected) = Needed

IInv ==
    /\ Typed /\ LoopInv /\ InputsInv
    /\ NeverUnderpays /\ BuiltBalances /\ FeePassesCheck /\ RefusalIsJust

LEMMA ArgsAreNumbers ==
    ASSUME Typed
    PROVE  /\ args.amount \in Nat /\ args.amount > 0
           /\ args.max_outputs \in Nat /\ args.num_change_outputs \in Nat
           /\ args.use_all \in BOOLEAN
           /\ Len(coins) \in Nat /\ Len(selected) \in Nat
           /\ Total(coins) \in Nat /\ Total(selected) \in Nat
           /\ Needed \in Nat
    <1>1. /\ args.amount \in Nat /\ args.amount > 0
          /\ args.max_outputs \in Nat /\ args.num_change_outputs \in Nat
          /\ args.use_all \in BOOLEAN
        <2>1. /\ args.amount \in Amounts /\ args.max_outputs \in SoftLimits
              /\ args.num_change_outputs \in ChangeCounts /\ args.use_all \in BOOLEAN
            BY DEF Typed, Args
        <2>2. Amounts \subseteq Nat \ {0} /\ SoftLimits \subseteq Nat /\ ChangeCounts \subseteq Nat
            BY SelectionAssumption DEF SelectionAssumption
        <2>3. \A a \in Amounts : a \in Nat /\ a > 0
            BY <2>2
        <2>4. QED
            BY <2>1, <2>2, <2>3
    <1>2. /\ Len(coins) \in Nat /\ Len(selected) \in Nat
          /\ Total(coins) \in Nat /\ Total(selected) \in Nat
        BY LenProperties, TotalIsSum DEF Typed
    <1>3. QED
        BY <1>1, <1>2 DEF Needed, Typed

LEMMA EmptyTotal == Total(<< >>) = 0
    <1>1. << >> \in Seq(Nat) /\ Len(<< >>) = 0
        OBVIOUS
    <1>2. Sums([i \in {0} |-> 0], << >>)
        BY <1>1 DEF Sums
    <1>3. QED
        BY <1>1, <1>2, SumsGiveTotal

LEMMA InitIInv == Init => IInv
    <1> SUFFICES ASSUME Init PROVE IInv
        OBVIOUS
    <1>1. coins \in BoundedSeq(Values, MaxCoins)
        BY DEF Init, IsSorted
    <1>2. PICK m \in 0 .. MaxCoins : coins \in [1 .. m -> Values]
        BY <1>1 DEF BoundedSeq, SeqOf
    <1>3. m \in Nat /\ coins \in [1 .. m -> Nat]
        <2>1. m \in Nat /\ Values \subseteq Nat
            BY SelectionAssumption DEF SelectionAssumption
        <2>2. QED
            BY <1>2, <2>1
    <1>4. coins \in Seq(Nat)
        BY <1>3, IsASeq
    <1>5. Typed
        <2>1. << >> \in Seq(Nat)
            OBVIOUS
        <2>2. selected = << >> /\ change = << >> /\ fee = 0 /\ pc = "select" /\ args \in Args
            BY DEF Init, Args, IsSorted
        <2>3. QED
            BY <1>4, <2>1, <2>2 DEF Typed
    <1>6. pc = "select"
        BY DEF Init, IsSorted
    <1>7. QED
        BY <1>5, <1>6 DEF IInv, LoopInv, InputsInv, NeverUnderpays, BuiltBalances,
                          FeePassesCheck, RefusalIsJust

\* The fee with change is at least that without, and with more inputs no higher.
LEMMA ChangeFeeIs ==
    ASSUME Typed, NEW i \in Nat
    PROVE  FeeWithChange(i) \in Nat /\ TxFee(i, 1) \in Nat /\ TxFee(i, 1) <= FeeWithChange(i)
    <1>1. args.num_change_outputs + 1 \in Nat /\ 1 <= args.num_change_outputs + 1
        BY ArgsAreNumbers
    <1>2. QED
        BY <1>1, FeeType, FeeIsMonotone DEF FeeWithChange

\* The first selection, with the fee of a transaction without change.
LEMMA FirstSelectStep == ASSUME IInv, FirstSelect PROVE IInv'
    <1> DEFINE limit == args.max_outputs
               n == Len(coins)
    <1>1. Typed /\ args.amount \in Nat /\ args.amount > 0 /\ n \in Nat /\ Total(coins) \in Nat
        BY ArgsAreNumbers DEF IInv
    <1>2. /\ selected' \in Seq(Nat) /\ Len(selected') <= n
          /\ Len(selected') = n => Total(selected') = Total(coins)
          /\ Enough(coins, args.amount) => Enough(selected', args.amount)
        <2>1. coins \in Seq(Nat) /\ limit \in Nat /\ args.use_all \in BOOLEAN
            BY <1>1, ArgsAreNumbers DEF Typed
        <2>2. selected' = SelectCoins(args.amount, limit, args.use_all)
            BY DEF FirstSelect
        <2>3. QED
            BY <1>1, <2>1, <2>2, SelectCoinsIs
    <1>3. Len(selected') \in Nat /\ Total(selected') \in Nat
        BY <1>2, LenProperties, TotalIsSum
    <1>4. fee' = TxFee(Len(selected'), 1) /\ fee' \in Nat
        BY <1>3, FeeType DEF FirstSelect
    <1>5. UNCHANGED <<coins, args, change>> /\ change = << >>
        BY DEF FirstSelect, IInv, Typed
    <1>6. Needed' = args.amount + fee' /\ Needed' \in Nat
        BY <1>1, <1>4, <1>5 DEF Needed
    <1> DEFINE t == Total(selected')
    <1>7. pc' = CASE t = 0 -> "refused"
                  [] t # 0 /\ t < Needed' /\ Len(selected') = n -> "refused"
                  [] t # 0 /\ t = Needed' -> "inputs"
                  [] OTHER -> "change_fee"
        BY <1>6 DEF FirstSelect
    <1> HIDE DEF t, n
    <1>8. \/ pc' = "refused" /\ (t = 0 \/ (t < Needed' /\ Len(selected') = n))
          \/ pc' = "inputs" /\ t = Needed'
          \/ pc' = "change_fee"
        BY <1>7
    <1>9. Typed'
        BY <1>1, <1>2, <1>4, <1>5, <1>8 DEF Typed, Args
    <1>10. LoopInv'
        BY <1>2, <1>5, <1>8 DEF LoopInv, n
    <1>11. InputsInv' /\ NeverUnderpays'
        BY <1>4, <1>6, <1>8 DEF InputsInv, NeverUnderpays, t
    <1>12. RefusalIsJust'
        <2> SUFFICES ASSUME pc' = "refused"
                     PROVE  Total(coins) < args.amount + FeeWithChange(n)
            BY <1>5 DEF RefusalIsJust, FeeWithChange, n
        <2>1. /\ FeeWithChange(n) \in Nat /\ TxFee(n, 1) \in Nat
              /\ TxFee(n, 1) <= FeeWithChange(n)
            BY <1>1, ChangeFeeIs
        <2>2. CASE ~Enough(coins, args.amount)
            BY <1>1, <2>1, <2>2 DEF Enough
        <2>3. CASE Enough(coins, args.amount)
            <3>1. t >= args.amount
                BY <1>2, <2>3 DEF Enough, t
            <3>2. t # 0
                BY <1>1, <1>3, <3>1 DEF t
            <3>3. t < args.amount + TxFee(n, 1) /\ t = Total(coins)
                BY <1>2, <1>4, <1>6, <1>8, <3>2 DEF t
            <3>4. QED
                BY <1>1, <2>1, <3>3
        <2>4. QED
            BY <2>2, <2>3
    <1>13. BuiltBalances' /\ FeePassesCheck'
        BY <1>8 DEF BuiltBalances, FeePassesCheck
    <1>14. QED
        BY <1>9, <1>10, <1>11, <1>12, <1>13 DEF IInv

\* One turn of the loop selects anew or gives up.
LEMMA RetryStep == ASSUME IInv, Retry PROVE IInv'
    <1>1. /\ Typed /\ args.amount \in Nat /\ Len(coins) \in Nat /\ Total(coins) \in Nat
          /\ Needed \in Nat
        BY ArgsAreNumbers DEF IInv
    <1>2. pc = "loop" /\ ~Covered /\ UNCHANGED <<coins, args, change>>
        BY DEF Retry
    <1>3. CASE AllSelected
        <2>1. pc' = "refused" /\ UNCHANGED <<selected, fee>>
            BY <1>3 DEF Retry
        <2>2. /\ Total(coins) < args.amount + fee /\ fee = FeeWithChange(Len(coins))
            BY <1>1, <1>2, <1>3, ArgsAreNumbers
               DEF IInv, LoopInv, AllSelected, Covered, Needed
        <2>3. Typed'
            BY <1>1, <1>2, <2>1 DEF Typed, Args
        <2>4. RefusalIsJust'
            BY <1>2, <2>1, <2>2 DEF RefusalIsJust, FeeWithChange
        <2>5. QED
            BY <2>1, <2>3, <2>4 DEF IInv, LoopInv, InputsInv, NeverUnderpays, BuiltBalances,
                                     FeePassesCheck
    <1>4. CASE ~AllSelected
        <2>1. /\ selected' = SelectCoins(Needed, Len(coins), args.use_all)
              /\ fee' = FeeWithChange(Len(selected')) /\ pc' = pc
            BY <1>4 DEF Retry
        <2>2. coins \in Seq(Nat) /\ args.use_all \in BOOLEAN
            BY <1>1, ArgsAreNumbers DEF Typed
        <2>3. /\ selected' \in Seq(Nat)
              /\ Len(selected') = Len(coins) => Total(selected') = Total(coins)
            BY <1>1, <2>1, <2>2, SelectCoinsIs
        <2>4. fee' \in Nat
            BY <1>1, <2>1, <2>3, LenProperties, ChangeFeeIs
        <2>5. Typed'
            BY <1>1, <1>2, <2>1, <2>3, <2>4 DEF Typed, Args
        <2>6. LoopInv'
            BY <1>2, <2>1, <2>3 DEF LoopInv, FeeWithChange
        <2>7. QED
            BY <1>2, <2>1, <2>5, <2>6 DEF IInv, InputsInv, NeverUnderpays, BuiltBalances,
                                          FeePassesCheck, RefusalIsJust
    <1>5. QED
        BY <1>3, <1>4

\* The change is due in full, less what the modulus swallows.
LEMMA BuildWithChangeStep == ASSUME IInv, BuildWithChange PROVE IInv'
    <1>1. /\ Typed /\ args.amount \in Nat /\ Len(selected) \in Nat
          /\ Total(selected) \in Nat /\ Needed \in Nat /\ Parts \in Nat
        BY ArgsAreNumbers DEF IInv, Parts
    <1>2. /\ pc = "inputs" /\ ChangeDue > 0 /\ Parts > 0 /\ PartChange > 0
          /\ change' = Split /\ pc' = "built" /\ UNCHANGED <<coins, args, selected, fee>>
        BY DEF BuildWithChange
    <1>3. ChangeDue \in Nat /\ Total(selected) = Needed + ChangeDue
        BY <1>1, <1>2 DEF ChangeDue
    <1>4. /\ PartChange \in Nat /\ RemainderChange \in Nat
          /\ Parts * PartChange + RemainderChange <= ChangeDue
          /\ PartChange >= Parts => Parts * PartChange + RemainderChange = ChangeDue
        <2> DEFINE d == ChangeDue
                   n == Parts
                   q == d \div n
        <2>1. d \in Nat /\ n \in Nat \ {0} /\ d \div n > 0
            BY <1>1, <1>2, <1>3 DEF PartChange
        <2> HIDE DEF d, n
        <2>2. /\ q \in Nat /\ d % q \in Nat
              /\ n * q + (d % q) <= d
              /\ q >= n => n * q + (d % q) = d
            BY <2>1, SplitOfChange
        <2>3. PartChange = q /\ RemainderChange = d % q
            BY DEF PartChange, RemainderChange, d, n
        <2> HIDE DEF q
        <2>4. QED
            BY <2>2, <2>3 DEF d, n
    <1>5. Len(Split) = Parts /\ Total(Split) = Parts * PartChange + RemainderChange
        <2>1. Split = PartsOf(Parts, PartChange, RemainderChange)
            BY DEF Split, PartsOf
        <2>2. Parts \in Nat \ {0}
            BY <1>1, <1>2
        <2>3. QED
            BY <1>4, <2>1, <2>2, TotalOfParts
    <1>6. Parts' = Parts /\ PartChange' = PartChange /\ Needed' = Needed
        BY <1>2 DEF Parts, PartChange, ChangeDue, Needed
    <1>7. Paid' = Needed + Total(Split)
        BY <1>2 DEF Paid, Needed
    <1>8. BuiltBalances'
        <2> DEFINE x == Parts * PartChange + RemainderChange
        <2>1. x \in Nat
            BY <1>1, <1>4
        <2>2. x <= ChangeDue /\ (PartChange >= Parts => x = ChangeDue) /\ Paid' = Needed + x
            BY <1>4, <1>5, <1>7
        <2> HIDE DEF x
        <2>3. Paid' <= Total(selected) /\ (PartChange >= Parts => Paid' = Total(selected))
            BY <1>1, <1>3, <2>1, <2>2
        <2>4. QED
            BY <1>2, <1>6, <2>3 DEF BuiltBalances
    <1>9. FeePassesCheck'
        <2>1. fee = FeeWithChange(Len(selected))
            BY <1>1, <1>2, <1>3 DEF IInv, InputsInv
        <2>2. FeeWithChange(Len(selected)) = TxFee(Len(selected), 1 + Len(Split))
            BY <1>1, <1>5 DEF FeeWithChange, Parts
        <2>3. FeeWithChange(Len(selected)) \in Nat
            BY <1>1, ChangeFeeIs
        <2>4. QED
            BY <1>2, <2>1, <2>2, <2>3 DEF FeePassesCheck
    <1>10. Typed'
        BY <1>1, <1>2 DEF Typed, Args
    <1>11. NeverUnderpays'
        BY <1>2, <1>6 DEF IInv, NeverUnderpays
    <1>12. QED
        BY <1>2, <1>8, <1>9, <1>10, <1>11 DEF IInv, LoopInv, InputsInv, RefusalIsJust

LEMMA IInvStep == IInv /\ [Next]_vars => IInv'
    <1> SUFFICES ASSUME IInv, [Next]_vars PROVE IInv'
        OBVIOUS
    <1>1. /\ Typed /\ args.amount \in Nat /\ Len(selected) \in Nat
          /\ Total(selected) \in Nat /\ Needed \in Nat
        BY ArgsAreNumbers DEF IInv
    <1>2. CASE PanicOnWindow \/ PanicOnSplit
        <2>1. pc' = "panic" /\ UNCHANGED <<coins, args, selected, fee, change>> /\ change = << >>
            BY <1>1, <1>2 DEF PanicOnWindow, PanicOnSplit, Typed
        <2>2. Typed'
            BY <1>1, <2>1 DEF Typed, Args
        <2>3. QED
            BY <2>1, <2>2 DEF IInv, LoopInv, InputsInv, NeverUnderpays, BuiltBalances,
                              FeePassesCheck, RefusalIsJust
    <1>3. CASE ChangeFee
        <2>1. /\ fee' = FeeWithChange(Len(selected)) /\ pc' = "loop" /\ pc = "change_fee"
              /\ UNCHANGED <<coins, args, selected, change>>
            BY <1>3 DEF ChangeFee
        <2>2. fee' \in Nat
            BY <1>1, <2>1, ChangeFeeIs
        <2>3. Typed'
            BY <1>1, <2>1, <2>2 DEF Typed, Args
        <2>4. LoopInv'
            BY <2>1 DEF IInv, LoopInv, FeeWithChange
        <2>5. QED
            BY <2>1, <2>3, <2>4 DEF IInv, InputsInv, NeverUnderpays, BuiltBalances,
                                     FeePassesCheck, RefusalIsJust
    <1>4. CASE LeaveLoop
        <2>1. /\ pc = "loop" /\ Covered /\ pc' = "inputs"
              /\ UNCHANGED <<coins, args, selected, fee, change>>
            BY <1>4 DEF LeaveLoop
        <2>2. Typed'
            BY <1>1, <2>1 DEF Typed, Args
        <2>3. InputsInv' /\ NeverUnderpays'
            BY <2>1 DEF IInv, LoopInv, InputsInv, NeverUnderpays, Covered, Needed, FeeWithChange
        <2>4. QED
            BY <2>1, <2>2, <2>3 DEF IInv, LoopInv, BuiltBalances, FeePassesCheck, RefusalIsJust
    <1>5. CASE BuildWithoutChange
        <2>1. /\ pc = "inputs" /\ ChangeDue = 0 /\ pc' = "built" /\ change = << >>
              /\ UNCHANGED <<coins, args, selected, fee, change>>
            BY <1>1, <1>5 DEF BuildWithoutChange, Typed
        <2>2. Total(selected) = Needed
            BY <1>1, <2>1 DEF ChangeDue
        <2>3. BuiltBalances'
            <3>1. Paid' = Needed + 0
                BY <2>1, EmptyTotal DEF Paid, Needed
            <3>2. QED
                BY <1>1, <2>1, <2>2, <3>1 DEF BuiltBalances
        <2>4. FeePassesCheck'
            <3>1. /\ FeeWithChange(Len(selected)) \in Nat /\ TxFee(Len(selected), 1) \in Nat
                  /\ TxFee(Len(selected), 1) <= FeeWithChange(Len(selected))
                BY <1>1, ChangeFeeIs
            <3>2. fee >= TxFee(Len(selected), 1)
                BY <2>1, <3>1 DEF IInv, InputsInv
            <3>3. 1 + Len(change) = 1
                BY <2>1
            <3>4. QED
                BY <2>1, <3>2, <3>3 DEF FeePassesCheck
        <2>5. Typed' /\ NeverUnderpays'
            BY <1>1, <2>1 DEF IInv, Typed, Args, NeverUnderpays, Needed
        <2>6. QED
            BY <2>1, <2>3, <2>4, <2>5 DEF IInv, LoopInv, InputsInv, RefusalIsJust
    <1>6. CASE UNCHANGED vars
        BY <1>6 DEF vars, IInv, Typed, LoopInv, InputsInv, NeverUnderpays, BuiltBalances,
                    FeePassesCheck, RefusalIsJust, Needed, Paid, PartChange, ChangeDue, Parts,
                    FeeWithChange
    <1>7. QED
        BY <1>2, <1>3, <1>4, <1>5, <1>6, FirstSelectStep, RetryStep, BuildWithChangeStep
           DEF Next

LEMMA IInvHolds == Spec => []IInv
    BY InitIInv, IInvStep, PTL DEF Spec

-----------------------------------------------------------------------------
(* The theorems.                                                           *)

\* The subtraction of inputs_and_change never wraps.
THEOREM SelectionCovers == Spec => []NeverUnderpays
    <1>1. IInv => NeverUnderpays
        BY DEF IInv
    <1>2. QED
        BY <1>1, IInvHolds, PTL

\* A slate never pays out more than it spends, and exactly that unless the parts
\* of the change are smaller than their number.
THEOREM BuiltIsBalanced == Spec => []BuiltBalances
    <1>1. IInv => BuiltBalances
        BY DEF IInv
    <1>2. QED
        BY <1>1, IInvHolds, PTL

\* check_fees accepts what was built.
THEOREM FeeIsEnough == Spec => []FeePassesCheck
    <1>1. IInv => FeePassesCheck
        BY DEF IInv
    <1>2. QED
        BY <1>1, IInvHolds, PTL

\* NotEnoughFunds is said only if all coins together do not cover the send.
THEOREM RefusedForCause == Spec => []RefusalIsJust
    <1>1. IInv => RefusalIsJust
        BY DEF IInv
    <1>2. QED
        BY <1>1, IInvHolds, PTL
=============================================================================
