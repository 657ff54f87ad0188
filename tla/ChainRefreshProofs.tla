------------------------- MODULE ChainRefreshProofs -------------------------
(***************************************************************************)
(* What holds of ChainRefresh for every value of its constants.            *)
(***************************************************************************)
EXTENDS ChainRefresh, SequenceFacts

-----------------------------------------------------------------------------
(* The inductive invariant.                                                *)

Shapes ==
    /\ IsFiniteSet(DOMAIN outs)
    /\ log \in [Accounts -> Seq(TxLogEntry)]
    /\ signed \subseteq Key /\ spending \subseteq Key
    /\ refresh \in [acct : Accounts \cup {NoKey}, height : Height,
                    all : BOOLEAN, asked : BOOLEAN]
    /\ refresh.asked => refresh.acct \in Accounts

\* Keys below the index of their account: those that were given out.
Given == {k \in Key : k[2] < idx[k[1]]}

\* No key is given out twice; the one the miner works on is not on the chain
\* and was not signed into a slate, so what is built anew is no other's output.
\* A record that is not unconfirmed is of an output that has been on the chain.
KeysInv ==
    /\ DOMAIN outs \subseteq Given /\ ever \subseteq Given /\ signed \subseteq Given
    /\ work # NoWork => work.key \in Given /\ work.key \notin ever \cup signed
    /\ \A h \in DOMAIN chain : chain[h].new \subseteq ever
    /\ \A k \in DOMAIN outs : outs[k].status # "Unconfirmed" => k \in ever

\* The entry an output names is about this output, and a coinbase is entered
\* when it has been seen.
LinkInv ==
    /\ \A k \in DOMAIN outs :
        outs[k].entry # 0 => log[outs[k].root][outs[k].entry].key = k
    /\ \A a \in Accounts : \A i \in DOMAIN log[a] :
        log[a][i].type = "ConfirmedCoinbase" => log[a][i].confirmed

\* The height written into a coinbase record is that of the block it is in, if
\* it is in one; other records have none.
HeightsInv ==
    /\ \A k \in DOMAIN outs : ~outs[k].coinbase => outs[k].lock = 0
    /\ \A k \in DOMAIN outs \cap signed : ~outs[k].coinbase
    /\ work.key \in DOMAIN outs =>
        outs[work.key].coinbase /\ outs[work.key].lock = LockHeight(work.height)
    /\ \A h \in DOMAIN chain : \A k \in chain[h].new \cap DOMAIN outs :
        outs[k].coinbase => outs[k].lock = LockHeight(h)

\* A coin in a context was unspent when it was selected, so its record is never
\* dropped, built anew or moved to another account; the height it was selected by
\* is still on the chain unless blocks were lost since.
SendsInv ==
    /\ send # NoSend =>
        /\ send.losses <= losses
        /\ send.losses = losses => send.height <= Top
    /\ \A c \in contexts :
        /\ c.key \in ever \cap DOMAIN outs
        /\ outs[c.key].root = c.acct /\ outs[c.key].status # "Unconfirmed"
        /\ c.losses <= losses
        /\ c.losses = losses => outs[c.key].lock <= Top

IInv ==
    /\ TypeOK /\ Shapes
    /\ KeysInv /\ LinkInv /\ HeightsInv /\ SendsInv
    /\ ConfirmedWasMined /\ CoinbaseEnteredOnce /\ EnteredCoinbaseIsKept

-----------------------------------------------------------------------------
(* Lemmas about the operators.                                             *)

LEMMA LockHeightIsNat == \A h \in Nat : LockHeight(h) \in Nat
    BY RefreshAssumption DEF RefreshAssumption, LockHeight

LEMMA AccountsOfKeys ==
    /\ NoKey \notin Key
    /\ \A k \in Key : k[1] \in Accounts /\ k[2] \in 0 .. MaxKeys - 1
    BY RefreshAssumption DEF RefreshAssumption, Key

\* What is unspent on the chain has been on it.
LEMMA UtxoWasMined ==
    ASSUME KeysInv
    PROVE  /\ Utxo \subseteq ever
           /\ \A k \in Utxo : Born(k) \in DOMAIN chain /\ k \in chain[Born(k)].new
    <1> SUFFICES ASSUME NEW k \in Utxo
                 PROVE  k \in ever /\ Born(k) \in DOMAIN chain /\ k \in chain[Born(k)].new
        OBVIOUS
    <1>1. PICK h \in DOMAIN chain : k \in chain[h].new
        BY DEF Utxo, OnChain
    <1>2. Born(k) \in DOMAIN chain /\ k \in chain[Born(k)].new
        BY <1>1 DEF Born
    <1>3. QED
        BY <1>1, <1>2 DEF KeysInv

-----------------------------------------------------------------------------
(* Effects of the steps.                                                   *)

\* The log of a gets e at its end.
Appended(a, e) ==
    /\ log' \in [Accounts -> Seq(TxLogEntry)]
    /\ \A b \in Accounts \ {a} : log'[b] = log[b]
    /\ Len(log'[a]) = Len(log[a]) + 1
    /\ \A i \in 1 .. Len(log[a]) : log'[a][i] = log[a][i]
    /\ log'[a][Len(log[a]) + 1] = e

LEMMA AddToLogAppends ==
    ASSUME Shapes, NEW a \in Accounts, NEW type \in {"TxSent", "TxReceived"},
           NEW k \in Key, AddToLog(a, type, k)
    PROVE  Appended(a, [type |-> type, confirmed |-> FALSE, key |-> k])
    <1> DEFINE e == [type |-> type, confirmed |-> FALSE, key |-> k]
    <1>1. e \in TxLogEntry
        BY DEF TxLogEntry
    <1>2. log' = [log EXCEPT ![a] = Append(@, e)]
        BY DEF AddToLog
    <1> HIDE DEF e
    <1>3. log[a] \in Seq(TxLogEntry) /\ log \in [Accounts -> Seq(TxLogEntry)]
        BY DEF Shapes
    <1>4. /\ Append(log[a], e) \in Seq(TxLogEntry)
          /\ Len(Append(log[a], e)) = Len(log[a]) + 1
          /\ \A i \in 1 .. Len(log[a]) : Append(log[a], e)[i] = log[a][i]
          /\ Append(log[a], e)[Len(log[a]) + 1] = e
        BY <1>1, <1>3, AppendProperties
    <1>5. Appended(a, e)
        BY <1>2, <1>3, <1>4 DEF Appended
    <1>6. QED
        BY <1>5 DEF e

\* A record is written, new or over an old one; the others stay.
LEMMA PutKeepsOthers ==
    ASSUME NEW k, NEW r, Put(k, r)
    PROVE  /\ DOMAIN outs' = DOMAIN outs \cup {k} /\ outs'[k] = r
           /\ \A q \in DOMAIN outs \ {k} : outs'[q] = outs[q]
    BY DEF Put

\* The next key of an account is nobody's.
LEMMA NextKeyIsNew ==
    ASSUME TypeOK, NEW k, k = <<active, idx[active]>>, k \in Key
    PROVE  /\ idx' = [idx EXCEPT ![active] = @ + 1] =>
                /\ idx' \in [Accounts -> 0 .. MaxKeys] /\ Given \subseteq Given' /\ k \in Given'
           /\ k \notin Given
    <1>1. idx \in [Accounts -> 0 .. MaxKeys] /\ active \in Accounts /\ MaxKeys \in Nat
        BY RefreshAssumption DEF RefreshAssumption, TypeOK
    <1>2. k[1] = active /\ k[2] = idx[active] /\ idx[active] \in 0 .. MaxKeys - 1
        BY <1>1 DEF Key
    <1>3. k \notin Given
        BY <1>1, <1>2 DEF Given
    <1>4. ASSUME idx' = [idx EXCEPT ![active] = @ + 1]
          PROVE  idx' \in [Accounts -> 0 .. MaxKeys] /\ Given \subseteq Given' /\ k \in Given'
        <2>1. idx' \in [Accounts -> 0 .. MaxKeys]
            BY <1>1, <1>2, <1>4
        <2>2. \A a \in Accounts : idx[a] <= idx'[a]
            BY <1>1, <1>2, <1>4
        <2>3. idx[active] < idx'[active]
            BY <1>1, <1>2, <1>4
        <2>4. \A q \in Key : q[1] \in Accounts /\ q[2] \in Int
            BY AccountsOfKeys
        <2>5. \A q \in Given : q[2] < idx'[q[1]]
            BY <1>1, <2>1, <2>2, <2>4 DEF Given
        <2>6. QED
            BY <1>2, <2>1, <2>3, <2>5 DEF Given
    <1>5. QED
        BY <1>3, <1>4

\* A refresh of account a that enters the coinbase outputs in new.
Refreshed(a, new) ==
    /\ new \in Seq(Key)
    /\ \A i, j \in DOMAIN new : new[i] = new[j] => i = j
    /\ \A i \in DOMAIN new :
        /\ new[i] \in Utxo \cap DOMAIN outs /\ outs[new[i]].status = "Unconfirmed"
        /\ outs[new[i]].root = a
        /\ new[i] \in DOMAIN outs' /\ outs'[new[i]].status # "Unconfirmed"
    /\ DOMAIN outs' \subseteq DOMAIN outs
    /\ \A k \in DOMAIN outs \ DOMAIN outs' : outs[k].status = "Unconfirmed"
    /\ \A k \in DOMAIN outs' :
        /\ outs'[k] \in OutputData
        /\ outs'[k].root = outs[k].root /\ outs'[k].lock = outs[k].lock
        /\ outs'[k].coinbase = outs[k].coinbase
        /\ outs[k].status # "Unconfirmed" => outs'[k].status # "Unconfirmed"
        /\ outs'[k].status # "Unconfirmed" => outs[k].status # "Unconfirmed" \/ k \in Utxo
        /\ \/ outs'[k].entry = outs[k].entry
           \/ \E i \in DOMAIN new : /\ new[i] = k /\ outs[k].root = a
                                    /\ outs'[k].entry = Len(log[a]) + i
    /\ log' \in [Accounts -> Seq(TxLogEntry)]
    /\ \A b \in Accounts \ {a} : log'[b] = log[b]
    /\ Len(log'[a]) = Len(log[a]) + Len(new)
    /\ \A i \in 1 .. Len(log[a]) :
        /\ log'[a][i].type = log[a][i].type /\ log'[a][i].key = log[a][i].key
        /\ log[a][i].confirmed => log'[a][i].confirmed
        /\ log'[a][i].confirmed => log[a][i].confirmed \/ log[a][i].key \in Utxo
    /\ \A i \in DOMAIN new :
        log'[a][Len(log[a]) + i] =
            [type |-> "ConfirmedCoinbase", confirmed |-> TRUE, key |-> new[i]]

\* What apply_api_outputs does to the records.
LEMMA AppliedRecords ==
    ASSUME TypeOK, Shapes, KeysInv, NEW a \in Accounts, NEW all \in BOOLEAN
    PROVE  LET S == WalletOutputs(a, all)
               new == SetToSeq(NewCoinbase(S))
               r == Applied(a, all).outs
           IN  /\ DOMAIN r = DOMAIN outs
               /\ \A k \in DOMAIN outs :
                   /\ r[k] \in OutputData
                   /\ r[k].root = outs[k].root /\ r[k].lock = outs[k].lock
                   /\ r[k].coinbase = outs[k].coinbase
                   /\ outs[k].status # "Unconfirmed" => r[k].status # "Unconfirmed"
                   /\ r[k].status # "Unconfirmed" =>
                        outs[k].status # "Unconfirmed" \/ k \in Utxo
                   /\ k \in NewCoinbase(S) => r[k].status # "Unconfirmed"
                   /\ \/ r[k].entry = outs[k].entry
                      \/ \E i \in DOMAIN new : /\ new[i] = k /\ outs[k].root = a
                                               /\ r[k].entry = Len(log[a]) + i
    <1> DEFINE S == WalletOutputs(a, all)
               N == NewCoinbase(S)
               new == SetToSeq(N)
               Entry(k) == IF k \in N THEN NextId(a, CHOOSE i \in DOMAIN new : new[i] = k)
                           ELSE outs[k].entry
               r == [k \in DOMAIN outs |->
                        IF k \notin S THEN outs[k]
                        ELSE [outs[k] EXCEPT !.status = NewStatus(k),
                                             !.height = IF k \in Utxo THEN Born(k) ELSE @,
                                             !.entry = Entry(k)]]
    <1>1. Applied(a, all).outs = r
        BY DEF Applied
    <1>2. S \subseteq DOMAIN outs /\ \A k \in S : outs[k].root = a
        BY DEF WalletOutputs
    <1>3. N \subseteq S /\ \A k \in N : k \in Utxo /\ outs[k].status = "Unconfirmed"
        BY DEF NewCoinbase
    <1>4. IsFiniteSet(N)
        BY <1>2, <1>3, FS_Subset DEF Shapes
    <1>5. new \in Seq(N) /\ \A k \in N : \E i \in DOMAIN new : new[i] = k
        BY <1>4, SetToSeqIsBijective
    <1>6. /\ Len(new) \in Nat /\ DOMAIN new = 1 .. Len(new)
          /\ Len(log[a]) \in Nat
        BY <1>5, LenProperties DEF Shapes
    <1> HIDE DEF new, N, S, r
    <1>7. \A k \in DOMAIN outs : outs[k] \in OutputData
        BY DEF TypeOK
    <1>8. ASSUME NEW k \in S
          PROVE  /\ NewStatus(k) \in Status
                 /\ outs[k].status # "Unconfirmed" => NewStatus(k) # "Unconfirmed"
                 /\ NewStatus(k) # "Unconfirmed" =>
                        outs[k].status # "Unconfirmed" \/ k \in Utxo
                 /\ k \in N => NewStatus(k) # "Unconfirmed"
        <2>1. outs[k].status \in Status
            BY <1>2, <1>7 DEF OutputData
        <2>2. QED
            BY <1>3, <2>1 DEF NewStatus, Status
    <1>9. ASSUME NEW k \in S
          PROVE  (IF k \in Utxo THEN Born(k) ELSE outs[k].height) \in 0 .. MaxHeight + 1
        <2>1. DOMAIN chain \subseteq 0 .. MaxHeight + 1
            <3>1. DOMAIN chain = 1 .. Top /\ Top \in 0 .. MaxHeight
                BY LenProperties DEF TypeOK, Height, Top
            <3>2. QED
                BY <3>1, RefreshAssumption DEF RefreshAssumption
        <2>2. outs[k].height \in 0 .. MaxHeight + 1
            BY <1>2, <1>7 DEF OutputData
        <2>3. QED
            BY <2>1, <2>2, UtxoWasMined
    <1>10. ASSUME NEW k \in S
           PROVE  /\ Entry(k) \in Nat
                  /\ \/ Entry(k) = outs[k].entry
                     \/ \E i \in DOMAIN new : new[i] = k /\ Entry(k) = Len(log[a]) + i
        <2>1. CASE k \in N
            <3> DEFINE j == CHOOSE i \in DOMAIN new : new[i] = k
            <3>1. j \in DOMAIN new /\ new[j] = k
                BY <1>5, <2>1
            <3> HIDE DEF j
            <3>2. Entry(k) = Len(log[a]) + j
                BY <2>1 DEF NextId, j
            <3>3. Len(log[a]) + j \in Nat
                BY <1>6, <3>1
            <3>4. QED
                BY <3>1, <3>2, <3>3
        <2>2. CASE k \notin N
            <3>1. Entry(k) = outs[k].entry /\ outs[k].entry \in Nat
                BY <1>2, <1>7, <2>2 DEF OutputData
            <3>2. QED
                BY <3>1
        <2>3. QED
            BY <2>1, <2>2
    <1> HIDE DEF Entry
    <1>11. DOMAIN r = DOMAIN outs /\ \A k \in DOMAIN outs \ S : r[k] = outs[k]
        BY DEF r
    <1>12. ASSUME NEW k \in S
           PROVE  /\ r[k] \in OutputData
                  /\ r[k].root = outs[k].root /\ r[k].lock = outs[k].lock
                  /\ r[k].coinbase = outs[k].coinbase
                  /\ r[k].status = NewStatus(k) /\ r[k].entry = Entry(k)
        <2>1. r[k] = [outs[k] EXCEPT !.status = NewStatus(k),
                                     !.height = IF k \in Utxo THEN Born(k) ELSE @,
                                     !.entry = Entry(k)]
            BY <1>2 DEF r
        <2> DEFINE h == IF k \in Utxo THEN Born(k) ELSE outs[k].height
                   e == Entry(k)
                   t == NewStatus(k)
        <2>2. r[k] = [outs[k] EXCEPT !.status = t, !.height = h, !.entry = e]
            BY <2>1
        <2>3. t \in Status /\ h \in 0 .. MaxHeight + 1 /\ e \in Nat
            BY <1>8, <1>9, <1>10
        <2> HIDE DEF h, e, t
        <2>4. outs[k] \in OutputData
            BY <1>2, <1>7
        <2>5. /\ r[k] \in OutputData
              /\ r[k].root = outs[k].root /\ r[k].lock = outs[k].lock
              /\ r[k].coinbase = outs[k].coinbase
              /\ r[k].status = t /\ r[k].entry = e
            BY <2>2, <2>3, <2>4 DEF OutputData
        <2>6. QED
            BY <2>5 DEF t, e
    <1>13. ASSUME NEW k \in DOMAIN outs
           PROVE  /\ r[k] \in OutputData
                  /\ r[k].root = outs[k].root /\ r[k].lock = outs[k].lock
                  /\ r[k].coinbase = outs[k].coinbase
                  /\ outs[k].status # "Unconfirmed" => r[k].status # "Unconfirmed"
                  /\ r[k].status # "Unconfirmed" =>
                        outs[k].status # "Unconfirmed" \/ k \in Utxo
                  /\ k \in N => r[k].status # "Unconfirmed"
                  /\ \/ r[k].entry = outs[k].entry
                     \/ \E i \in DOMAIN new : /\ new[i] = k /\ outs[k].root = a
                                              /\ r[k].entry = Len(log[a]) + i
        <2>1. CASE k \in S
            BY <1>2, <1>8, <1>10, <1>12, <2>1
        <2>2. CASE k \notin S
            BY <1>3, <1>7, <1>11, <2>2
        <2>3. QED
            BY <2>1, <2>2
    <1>14. QED
        BY <1>1, <1>11, <1>13 DEF new, N, S

\* What it does to the log: entries of seen outputs are confirmed, and coinbase
\* outputs seen first are entered.
LEMMA AppliedLog ==
    ASSUME TypeOK, Shapes, LinkInv, NEW a \in Accounts, NEW all \in BOOLEAN
    PROVE  LET new == SetToSeq(NewCoinbase(WalletOutputs(a, all)))
               l == Applied(a, all).log
           IN  /\ l \in Seq(TxLogEntry)
               /\ Len(l) = Len(log[a]) + Len(new)
               /\ \A i \in 1 .. Len(log[a]) :
                   /\ l[i].type = log[a][i].type /\ l[i].key = log[a][i].key
                   /\ log[a][i].confirmed => l[i].confirmed
                   /\ l[i].confirmed => log[a][i].confirmed \/ log[a][i].key \in Utxo
               /\ \A i \in DOMAIN new :
                   l[Len(log[a]) + i] =
                       [type |-> "ConfirmedCoinbase", confirmed |-> TRUE, key |-> new[i]]
    <1> DEFINE S == WalletOutputs(a, all)
               N == NewCoinbase(S)
               new == SetToSeq(N)
               n == Len(log[a])
               old == [i \in 1 .. n |->
                        IF i \in Confirmed(S) THEN [log[a][i] EXCEPT !.confirmed = TRUE]
                                              ELSE log[a][i]]
               added == [i \in DOMAIN new |-> [type |-> "ConfirmedCoinbase",
                                               confirmed |-> TRUE, key |-> new[i]]]
    <1>1. Applied(a, all).log = old \o added
        BY DEF Applied
    <1>2. S \subseteq DOMAIN outs /\ \A k \in S : outs[k].root = a
        BY DEF WalletOutputs
    <1>3. N \subseteq S /\ DOMAIN outs \subseteq Key
        BY DEF NewCoinbase, TypeOK
    <1>4. IsFiniteSet(N)
        BY <1>2, <1>3, FS_Subset DEF Shapes
    <1>5. new \in Seq(N)
        BY <1>4, SetToSeqIsBijective
    <1> HIDE DEF new, N
    <1>6. /\ Len(new) \in Nat /\ DOMAIN new = 1 .. Len(new)
          /\ \A i \in 1 .. Len(new) : new[i] \in Key
        BY <1>2, <1>3, <1>5, LenProperties, ElementOfSeq
    <1>7. /\ n \in Nat /\ log[a] \in Seq(TxLogEntry)
          /\ \A i \in 1 .. n : log[a][i] \in TxLogEntry
        BY LenProperties, ElementOfSeq DEF Shapes
    <1>8. ASSUME NEW i \in 1 .. n
          PROVE  /\ old[i] \in TxLogEntry
                 /\ old[i].type = log[a][i].type /\ old[i].key = log[a][i].key
                 /\ log[a][i].confirmed => old[i].confirmed
                 /\ old[i].confirmed => log[a][i].confirmed \/ log[a][i].key \in Utxo
        <2>1. CASE i \in Confirmed(S)
            <3>1. PICK k \in S \cap Utxo : outs[k].entry = i
                BY <2>1 DEF Confirmed
            <3>2. log[a][i].key = k
                BY <1>2, <1>7, <3>1 DEF LinkInv
            <3>3. old[i] = [log[a][i] EXCEPT !.confirmed = TRUE]
                BY <2>1
            <3>4. QED
                <4>1. /\ old[i].type = log[a][i].type /\ old[i].key = log[a][i].key
                      /\ old[i].confirmed = TRUE
                    BY <1>7, <3>3 DEF TxLogEntry
                <4>2. old[i] \in TxLogEntry
                    BY <1>7, <3>3 DEF TxLogEntry
                <4>3. log[a][i].key \in Utxo
                    BY <3>1, <3>2
                <4>4. QED
                    BY <4>1, <4>2, <4>3
        <2>2. CASE i \notin Confirmed(S)
            BY <1>7, <2>2
        <2>3. QED
            BY <2>1, <2>2
    <1>9. old \in Seq(TxLogEntry) /\ Len(old) = n
        <2>1. old \in [1 .. n -> TxLogEntry]
            BY <1>8
        <2> HIDE DEF old
        <2>2. QED
            BY <1>7, <2>1, IsASeq, LenProperties
    <1>10. added \in Seq(TxLogEntry) /\ Len(added) = Len(new)
        <2>1. added \in [1 .. Len(new) -> TxLogEntry]
            BY <1>6 DEF TxLogEntry
        <2> HIDE DEF added
        <2>2. QED
            BY <1>6, <2>1, IsASeq, LenProperties
    <1>11. \A i \in DOMAIN new :
              added[i] = [type |-> "ConfirmedCoinbase", confirmed |-> TRUE, key |-> new[i]]
        OBVIOUS
    <1> DEFINE l == old \o added
    <1> HIDE DEF old, added
    <1>12. /\ l \in Seq(TxLogEntry) /\ Len(l) = n + Len(new)
           /\ \A i \in 1 .. n + Len(new) : l[i] = IF i <= n THEN old[i] ELSE added[i - n]
        BY <1>9, <1>10, ConcatProperties
    <1> HIDE DEF l
    <1>13. \A i \in 1 .. n : l[i] = old[i]
        BY <1>6, <1>7, <1>12
    <1>14. ASSUME NEW i \in 1 .. Len(new) PROVE l[n + i] = added[i]
        <2>1. n + i \in 1 .. n + Len(new) /\ ~(n + i <= n) /\ (n + i) - n = i
            BY <1>6, <1>7
        <2> HIDE DEF n
        <2>2. l[n + i] = added[(n + i) - n]
            BY <1>12, <2>1
        <2>3. QED
            BY <2>1, <2>2
    <1>15. QED
        BY <1>1, <1>6, <1>8, <1>11, <1>12, <1>13, <1>14 DEF new, N, l

\* The coin of a new context, as it was selected.
Selected(c) ==
    /\ send # NoSend
    /\ c = [acct |-> send.acct, key |-> c.key, losses |-> send.losses]
    /\ c.key \in DOMAIN outs' /\ outs'[c.key].root = send.acct
    /\ outs'[c.key].status # "Unconfirmed" /\ outs'[c.key].lock <= send.height

Updated(new) ==
    /\ refresh.acct \in Accounts /\ Refreshed(refresh.acct, new)
    /\ lastHeight' \in [Accounts -> Height]
    /\ refresh' = NoRefresh /\ send' = NoSend
    /\ contexts \subseteq contexts'
    /\ \A c \in contexts' \ contexts : Selected(c)
    /\ UNCHANGED <<chain, losses, ever, idx, active, world>>

LEMMA ApplySelects ==
    ASSUME Apply
    PROVE  contexts \subseteq contexts' /\ \A c \in contexts' \ contexts : Selected(c)
    <1>1. contexts' = contexts \/ (send # NoSend /\ SelectCoin(outs'))
        BY DEF Apply
    <1>2. ASSUME send # NoSend, SelectCoin(outs')
          PROVE  contexts \subseteq contexts' /\ \A c \in contexts' \ contexts : Selected(c)
        <2>1. PICK k \in Selectable(outs') :
                contexts' = contexts \cup
                    {[acct |-> send.acct, key |-> k, losses |-> send.losses]}
            BY <1>2 DEF SelectCoin
        <2>2. /\ k \in DOMAIN outs' /\ outs'[k].root = send.acct
              /\ outs'[k].status # "Unconfirmed" /\ outs'[k].lock <= send.height
            BY DEF Selectable, EligibleToSpend
        <2>3. QED
            BY <1>2, <2>1, <2>2 DEF Selected
    <1>3. QED
        BY <1>1, <1>2

LEMMA ApplyUpdates ==
    ASSUME TypeOK, Shapes, KeysInv, LinkInv, Apply
    PROVE  \E new : Updated(new)
    <1> DEFINE a == refresh.acct
               now == refresh.height
               S == WalletOutputs(a, refresh.all)
               new == SetToSeq(NewCoinbase(S))
               r == Applied(a, refresh.all)
               before == r.outs
    <1>1. a \in Accounts /\ refresh.all \in BOOLEAN /\ now \in Height
        BY DEF Apply, Shapes
    <1>2. /\ refresh' = NoRefresh /\ send' = NoSend
          /\ contexts \subseteq contexts'
          /\ \A c \in contexts' \ contexts : Selected(c)
          /\ UNCHANGED <<chain, losses, ever, idx, active, world>>
        BY ApplySelects DEF Apply
    <1>3. lastHeight' \in [Accounts -> Height]
        BY <1>1 DEF Apply, TypeOK
    <1>4. CASE NodeIsBehind
        <2>1. outs' = Without(outs, OldUnconfirmed(outs, now)) /\ log' = log
            BY <1>4 DEF Apply
        <2>2. /\ DOMAIN outs' \subseteq DOMAIN outs
              /\ \A k \in DOMAIN outs' : outs'[k] = outs[k]
              /\ \A k \in DOMAIN outs \ DOMAIN outs' : outs[k].status = "Unconfirmed"
            BY <2>1 DEF Without, OldUnconfirmed
        <2>3. \A k \in DOMAIN outs : outs[k] \in OutputData
            BY DEF TypeOK
        <2>4. << >> \in Seq(Key) /\ Len(<< >>) = 0 /\ DOMAIN << >> = {}
            OBVIOUS
        <2>5. log \in [Accounts -> Seq(TxLogEntry)] /\ Len(log[a]) \in Nat
            BY <1>1, LenProperties DEF Shapes
        <2>6. Len(log'[a]) = Len(log[a]) + Len(<< >>)
            BY <2>1, <2>4, <2>5
        <2> HIDE DEF a
        <2>7. Refreshed(a, << >>)
            BY <2>1, <2>2, <2>3, <2>4, <2>5, <2>6 DEF Refreshed
        <2>8. QED
            BY <1>1, <1>2, <1>3, <2>7 DEF a, Updated
    <1>5. CASE ~NodeIsBehind
        <2>1. /\ outs' = Without(before, OldUnconfirmed(before, now))
              /\ log' = [log EXCEPT ![a] = r.log]
            BY <1>5 DEF Apply
        <2>2. /\ DOMAIN before = DOMAIN outs
              /\ \A k \in DOMAIN outs :
                   /\ before[k] \in OutputData
                   /\ before[k].root = outs[k].root /\ before[k].lock = outs[k].lock
                   /\ before[k].coinbase = outs[k].coinbase
                   /\ outs[k].status # "Unconfirmed" => before[k].status # "Unconfirmed"
                   /\ before[k].status # "Unconfirmed" =>
                        outs[k].status # "Unconfirmed" \/ k \in Utxo
                   /\ k \in NewCoinbase(S) => before[k].status # "Unconfirmed"
                   /\ \/ before[k].entry = outs[k].entry
                      \/ \E i \in DOMAIN new : /\ new[i] = k /\ outs[k].root = a
                                               /\ before[k].entry = Len(log[a]) + i
            BY <1>1, AppliedRecords
        <2>3. /\ r.log \in Seq(TxLogEntry)
              /\ Len(r.log) = Len(log[a]) + Len(new)
              /\ \A i \in 1 .. Len(log[a]) :
                   /\ r.log[i].type = log[a][i].type /\ r.log[i].key = log[a][i].key
                   /\ log[a][i].confirmed => r.log[i].confirmed
                   /\ r.log[i].confirmed => log[a][i].confirmed \/ log[a][i].key \in Utxo
              /\ \A i \in DOMAIN new :
                   r.log[Len(log[a]) + i] =
                       [type |-> "ConfirmedCoinbase", confirmed |-> TRUE, key |-> new[i]]
            BY <1>1, AppliedLog
        <2>4. /\ NewCoinbase(S) \subseteq Utxo \cap DOMAIN outs
              /\ \A k \in NewCoinbase(S) :
                    outs[k].status = "Unconfirmed" /\ outs[k].root = a
            BY DEF NewCoinbase, WalletOutputs
        <2>5. IsFiniteSet(NewCoinbase(S))
            BY <2>4, FS_Subset DEF Shapes
        <2>6. /\ new \in Seq(NewCoinbase(S))
              /\ \A i, j \in DOMAIN new : new[i] = new[j] => i = j
            BY <2>5, SetToSeqIsBijective
        <2>7. new \in Seq(Key) /\ \A i \in DOMAIN new : new[i] \in NewCoinbase(S)
            <3>1. \A i \in DOMAIN new : new[i] \in NewCoinbase(S)
                BY <2>6, ElementOfSeq, LenProperties
            <3>2. NewCoinbase(S) \subseteq Key
                BY <2>4 DEF TypeOK
            <3>3. QED
                BY <2>6, <3>1, <3>2, SeqMonotonic
        <2> HIDE DEF new, r, S, a, now
        <2>8. /\ DOMAIN outs' \subseteq DOMAIN outs
              /\ \A k \in DOMAIN outs' : outs'[k] = before[k]
              /\ \A k \in DOMAIN outs \ DOMAIN outs' : before[k].status = "Unconfirmed"
            BY <2>1, <2>2 DEF Without, OldUnconfirmed
        <2>9. \A k \in DOMAIN outs \ DOMAIN outs' : outs[k].status = "Unconfirmed"
            BY <2>2, <2>8
        <2>10. /\ log' \in [Accounts -> Seq(TxLogEntry)] /\ log'[a] = r.log
               /\ \A b \in Accounts \ {a} : log'[b] = log[b]
            BY <1>1, <2>1, <2>3 DEF Shapes, a
        <2>11. \A i \in DOMAIN new :
                 /\ new[i] \in Utxo \cap DOMAIN outs /\ outs[new[i]].status = "Unconfirmed"
                 /\ outs[new[i]].root = a
                 /\ new[i] \in DOMAIN outs' /\ outs'[new[i]].status # "Unconfirmed"
            BY <2>2, <2>4, <2>7, <2>8
        <2>12. \A k \in DOMAIN outs' :
                 /\ outs'[k] \in OutputData
                 /\ outs'[k].root = outs[k].root /\ outs'[k].lock = outs[k].lock
                 /\ outs'[k].coinbase = outs[k].coinbase
                 /\ outs[k].status # "Unconfirmed" => outs'[k].status # "Unconfirmed"
                 /\ outs'[k].status # "Unconfirmed" =>
                        outs[k].status # "Unconfirmed" \/ k \in Utxo
                 /\ \/ outs'[k].entry = outs[k].entry
                    \/ \E i \in DOMAIN new : /\ new[i] = k /\ outs[k].root = a
                                             /\ outs'[k].entry = Len(log[a]) + i
            BY <2>2, <2>8
        <2>13. Refreshed(a, new)
            BY <2>3, <2>6, <2>7, <2>8, <2>9, <2>10, <2>11, <2>12 DEF Refreshed
        <2>14. QED
            BY <1>1, <1>2, <1>3, <2>13 DEF a, Updated
    <1>6. QED
        BY <1>4, <1>5

\* The miner's key k gets a record for the next block.  If there was one it was
\* of the same key, which is in no block.
Built(k) ==
    /\ k \in Key /\ k \notin ever \cup signed
    /\ k \notin Given \/ k = work.key
    /\ idx' \in [Accounts -> 0 .. MaxKeys] /\ Given \cup {k} \subseteq Given'
    /\ Put(k, [root |-> active, status |-> "Unconfirmed", height |-> Top + 1,
               lock |-> LockHeight(Top + 1), coinbase |-> TRUE, entry |-> 0])
    /\ work' = [key |-> k, height |-> Top + 1] /\ Top + 1 \in 1 .. MaxHeight
    /\ UNCHANGED <<chain, losses, ever, log, lastHeight, active, refresh, sends,
                   signed, spending>>

LEMMA BuiltRecord ==
    ASSUME NEW k, Built(k)
    PROVE  /\ DOMAIN outs' = DOMAIN outs \cup {k}
           /\ \A q \in DOMAIN outs \ {k} : outs'[q] = outs[q]
           /\ outs'[k].root = active /\ outs'[k].status = "Unconfirmed"
           /\ outs'[k].lock = LockHeight(Top + 1)
           /\ outs'[k].coinbase /\ outs'[k].entry = 0
    <1> DEFINE r == [root |-> active, status |-> "Unconfirmed", height |-> Top + 1,
                     lock |-> LockHeight(Top + 1), coinbase |-> TRUE, entry |-> 0]
    <1>1. /\ r.root = active /\ r.status = "Unconfirmed" /\ r.lock = LockHeight(Top + 1)
          /\ r.coinbase /\ r.entry = 0
        OBVIOUS
    <1>2. Put(k, r)
        BY DEF Built
    <1> HIDE DEF r
    <1>3. QED
        BY <1>1, <1>2, PutKeepsOthers

LEMMA BuildCoinbaseBuilds ==
    ASSUME TypeOK, KeysInv, BuildCoinbase
    PROVE  \E k : Built(k)
    <1> DEFINE k == CoinbaseKey
               r == [root |-> active, status |-> "Unconfirmed", height |-> Top + 1,
                     lock |-> LockHeight(Top + 1), coinbase |-> TRUE, entry |-> 0]
    <1>1. /\ k \in Key /\ Top + 1 <= MaxHeight
          /\ idx' = IF work.key \in DOMAIN outs THEN idx ELSE [idx EXCEPT ![active] = @ + 1]
          /\ Put(k, r)
          /\ work' = [key |-> k, height |-> Top + 1]
          /\ UNCHANGED <<chain, losses, ever, log, lastHeight, active, refresh, sends,
                         signed, spending>>
        BY DEF BuildCoinbase
    <1>2. Top \in Nat /\ MaxHeight \in Nat
        BY RefreshAssumption DEF RefreshAssumption, TypeOK, Height
    <1>3. Top + 1 \in 1 .. MaxHeight
        BY <1>1, <1>2
    <1>4. /\ k \notin ever \cup signed
          /\ k \notin Given \/ k = work.key
          /\ idx' \in [Accounts -> 0 .. MaxKeys] /\ Given \cup {k} \subseteq Given'
        <2>1. CASE work.key \in DOMAIN outs
            <3>1. k = work.key /\ work.key # NoKey
                BY <2>1, AccountsOfKeys DEF CoinbaseKey, TypeOK
            <3>2. work # NoWork
                BY <3>1 DEF NoWork
            <3>3. Given' = Given /\ idx' \in [Accounts -> 0 .. MaxKeys]
                BY <1>1, <2>1 DEF Given, TypeOK
            <3>4. QED
                BY <3>1, <3>2, <3>3 DEF KeysInv
        <2>2. CASE work.key \notin DOMAIN outs
            <3>1. k = <<active, idx[active]>> /\ idx' = [idx EXCEPT ![active] = @ + 1]
                BY <1>1, <2>2 DEF CoinbaseKey
            <3>2. k \in Key
                BY <1>1
            <3> HIDE DEF k
            <3>3. /\ idx' \in [Accounts -> 0 .. MaxKeys] /\ Given \subseteq Given'
                  /\ k \in Given' /\ k \notin Given
                BY <3>1, <3>2, NextKeyIsNew
            <3>4. QED
                BY <3>3 DEF KeysInv
        <2>3. QED
            BY <2>1, <2>2
    <1> HIDE DEF k
    <1>5. Built(k)
        BY <1>1, <1>3, <1>4 DEF Built
    <1>6. QED
        BY <1>5

\* A receipt is of a key that is nobody's.
Received(k) ==
    /\ k \in Key /\ k \notin Given
    /\ idx' \in [Accounts -> 0 .. MaxKeys] /\ Given \cup {k} \subseteq Given'
    /\ Put(k, [root |-> active, status |-> "Unconfirmed", height |-> Top,
               lock |-> 0, coinbase |-> FALSE, entry |-> Len(log[active]) + 1])
    /\ Appended(active, [type |-> "TxReceived", confirmed |-> FALSE, key |-> k])
    /\ signed' = signed \cup {k}
    /\ UNCHANGED <<chain, losses, ever, lastHeight, active, refresh, sends,
                   work, spending>>

LEMMA ReceivedRecord ==
    ASSUME NEW k, Received(k)
    PROVE  /\ DOMAIN outs' = DOMAIN outs \cup {k}
           /\ \A q \in DOMAIN outs \ {k} : outs'[q] = outs[q]
           /\ outs'[k].root = active /\ outs'[k].lock = 0 /\ ~outs'[k].coinbase
           /\ outs'[k].status = "Unconfirmed"
           /\ outs'[k].entry = Len(log[active]) + 1
    <1> DEFINE r == [root |-> active, status |-> "Unconfirmed", height |-> Top,
                     lock |-> 0, coinbase |-> FALSE, entry |-> Len(log[active]) + 1]
    <1>1. /\ r.root = active /\ r.lock = 0 /\ ~r.coinbase /\ r.entry = Len(log[active]) + 1
          /\ r.status = "Unconfirmed"
        OBVIOUS
    <1>2. Put(k, r)
        BY DEF Received
    <1> HIDE DEF r
    <1>3. QED
        BY <1>1, <1>2, PutKeepsOthers

LEMMA ReceiveTxReceives ==
    ASSUME TypeOK, Shapes, KeysInv, ReceiveTx
    PROVE  \E k : Received(k)
    <1> DEFINE k == <<active, idx[active]>>
               r == [root |-> active, status |-> "Unconfirmed", height |-> Top,
                     lock |-> 0, coinbase |-> FALSE, entry |-> Len(log[active]) + 1]
    <1>1. /\ k \in Key /\ idx' = [idx EXCEPT ![active] = @ + 1]
          /\ AddToLog(active, "TxReceived", k)
          /\ Put(k, r)
          /\ signed' = signed \cup {k}
          /\ UNCHANGED <<chain, losses, ever, lastHeight, active, refresh, sends,
                   work, spending>>
        BY DEF ReceiveTx
    <1>2. k = <<active, idx[active]>> /\ active \in Accounts
        BY DEF TypeOK
    <1> HIDE DEF k
    <1>3. /\ idx' \in [Accounts -> 0 .. MaxKeys] /\ Given \subseteq Given'
          /\ k \in Given' /\ k \notin Given
        BY <1>1, <1>2, NextKeyIsNew
    <1>4. Appended(active, [type |-> "TxReceived", confirmed |-> FALSE, key |-> k])
        BY <1>1, <1>2, AddToLogAppends
    <1>5. Received(k)
        BY <1>1, <1>3, <1>4 DEF Received
    <1>6. QED
        BY <1>5

\* The coin of a context is locked by a new entry of its account.
Taken(c) ==
    /\ DOMAIN outs' = DOMAIN outs
    /\ c.key \in Key \cap ever \cap DOMAIN outs /\ c.acct \in Accounts
    /\ \A q \in DOMAIN outs \ {c.key} : outs'[q] = outs[q]
    /\ outs'[c.key] \in OutputData
    /\ outs'[c.key].root = c.acct /\ outs[c.key].root = c.acct
    /\ outs'[c.key].lock = outs[c.key].lock /\ outs'[c.key].coinbase = outs[c.key].coinbase
    /\ outs'[c.key].status = "Locked" /\ outs'[c.key].entry = Len(log[c.acct]) + 1
    /\ Appended(c.acct, [type |-> "TxSent", confirmed |-> FALSE, key |-> c.key])
    /\ spending' = spending \cup {c.key}
    /\ UNCHANGED <<chain, losses, ever, idx, lastHeight, active, refresh, sends,
                   work, signed>>

LEMMA LockCoinTakes ==
    ASSUME TypeOK, Shapes, SendsInv, NEW c \in contexts, LockCoin(c)
    PROVE  Taken(c)
    <1> DEFINE k == c.key
               a == c.acct
               e == Len(log[a]) + 1
    <1>1. /\ k \in DOMAIN outs
          /\ AddToLog(a, "TxSent", k)
          /\ outs' = [outs EXCEPT ![k].status = "Locked", ![k].entry = e]
          /\ spending' = spending \cup {k}
          /\ UNCHANGED <<chain, losses, ever, idx, lastHeight, active, refresh, sends,
                         work, signed>>
        BY DEF LockCoin
    <1>2. outs[k] \in OutputData /\ k \in Key /\ a \in Accounts
        BY <1>1 DEF TypeOK, Context
    <1>3. k \in ever /\ outs[k].root = a
        BY DEF SendsInv
    <1> HIDE DEF k, a
    <1>4. e \in Nat
        BY <1>2, LenProperties DEF Shapes
    <1>5. Appended(a, [type |-> "TxSent", confirmed |-> FALSE, key |-> k])
        BY <1>1, <1>2, AddToLogAppends
    <1>6. "Locked" \in Status
        BY DEF Status
    <1> HIDE DEF e
    <1>7. /\ DOMAIN outs' = DOMAIN outs
          /\ \A q \in DOMAIN outs \ {k} : outs'[q] = outs[q]
          /\ outs'[k] = [outs[k] EXCEPT !.status = "Locked", !.entry = e]
        BY <1>1
    <1>8. /\ outs'[k] \in OutputData
          /\ outs'[k].root = outs[k].root
          /\ outs'[k].lock = outs[k].lock /\ outs'[k].coinbase = outs[k].coinbase
          /\ outs'[k].status = "Locked" /\ outs'[k].entry = e
        BY <1>2, <1>4, <1>6, <1>7 DEF OutputData
    <1>9. QED
        BY <1>1, <1>2, <1>3, <1>5, <1>7, <1>8 DEF Taken, e, k, a

\* The chain gets shorter.
Cut ==
    /\ chain' \in Seq(Block) /\ Len(chain') \in Height /\ losses' \in 0 .. MaxLosses
    /\ losses < losses'
    /\ \A h \in DOMAIN chain' : h \in DOMAIN chain /\ chain'[h] = chain[h]
    /\ UNCHANGED <<ever, wallet, refresh, sends, world>>

LEMMA LoseBlocksCuts ==
    ASSUME TypeOK, NEW n \in 1 .. MaxReorg, LoseBlocks(n)
    PROVE  Cut
    <1>1. chain \in Seq(Block) /\ Top \in Nat /\ Top <= MaxHeight /\ Top = Len(chain)
        BY DEF TypeOK, Height, Top
    <1>2. n \in Nat /\ n >= 1 /\ n <= Top /\ chain' = SubSeq(chain, 1, Top - n)
        BY DEF LoseBlocks
    <1>3. MaxHeight \in Nat /\ MaxLosses \in Nat
        BY RefreshAssumption DEF RefreshAssumption
    <1>4. \A i \in 1 .. Top - n : chain[i] \in Block
        BY <1>1, <1>2, ElementOfSeq
    <1>5. /\ chain' \in Seq(Block)
          /\ Len(chain') = IF 1 <= Top - n THEN Top - n - 1 + 1 ELSE 0
          /\ \A i \in 1 .. Top - n - 1 + 1 : chain'[i] = chain[1 + i - 1]
        BY <1>1, <1>2, <1>4, SubSeqProperties
    <1>6. Len(chain') = Top - n
        BY <1>1, <1>2, <1>5
    <1>7. \A h \in 1 .. Top - n : chain'[h] = chain[h]
        BY <1>1, <1>2, <1>5
    <1>8. /\ DOMAIN chain' = 1 .. Top - n /\ DOMAIN chain = 1 .. Top
        BY <1>1, <1>5, <1>6, LenProperties
    <1>9. /\ losses' \in 0 .. MaxLosses /\ losses < losses'
          /\ UNCHANGED <<ever, wallet, refresh, sends, world>>
        BY <1>3 DEF LoseBlocks, TypeOK
    <1>10. QED
        BY <1>1, <1>2, <1>3, <1>5, <1>6, <1>7, <1>8, <1>9 DEF Height, Cut

\* The block holds the miner's key, if it is for this height, or none of it.
MinedBlock(cb, new, spent) ==
    /\ cb = {} \/ (work # NoWork /\ cb = {work.key} /\ work.height = Top + 1)
    /\ cb \subseteq Key /\ new \subseteq signed
    /\ chain' \in Seq(Block) /\ Len(chain') = Top + 1 /\ Len(chain') \in Height
    /\ \A h \in DOMAIN chain : h \in DOMAIN chain' /\ chain'[h] = chain[h]
    /\ \A h \in DOMAIN chain' : h \in DOMAIN chain \/ h = Top + 1
    /\ chain'[Top + 1] = [new |-> cb \cup new, spent |-> spent]
    /\ ever' = ever \cup cb \cup new
    /\ work' = IF cb = {} THEN work ELSE NoWork
    /\ UNCHANGED <<losses, wallet, refresh, sends, signed, spending>>

LEMMA MineBlockMines ==
    ASSUME TypeOK, Shapes, MineBlock
    PROVE  \E cb, new, spent : MinedBlock(cb, new, spent)
    <1>1. PICK cb \in {{}} \cup {{w.key} : w \in {work} \ {NoWork}},
               new \in AtMostOne(signed \ OnChain),
               spent \in AtMostOne(spending \cap Utxo) :
            /\ cb # {} => work.height = Top + 1
            /\ chain' = Append(chain, [new |-> cb \cup new, spent |-> spent])
            /\ ever' = ever \cup cb \cup new
            /\ work' = IF cb = {} THEN work ELSE NoWork
        BY DEF MineBlock
    <1>2. cb = {} \/ (work # NoWork /\ cb = {work.key} /\ work.height = Top + 1)
        BY <1>1
    <1>3. cb \subseteq Key
        BY <1>2 DEF TypeOK
    <1>4. new \subseteq signed /\ spent \subseteq spending
        BY DEF AtMostOne
    <1> DEFINE b == [new |-> cb \cup new, spent |-> spent]
    <1>5. b \in Block
        BY <1>3, <1>4 DEF Shapes, Block
    <1>6. chain' = Append(chain, b)
        BY <1>1
    <1> HIDE DEF b
    <1>7. /\ chain \in Seq(Block) /\ Top \in Nat /\ Top < MaxHeight /\ Top = Len(chain)
          /\ MaxHeight \in Nat
        BY RefreshAssumption DEF RefreshAssumption, TypeOK, Height, Top, MineBlock
    <1>8. /\ chain' \in Seq(Block) /\ Len(chain') = Top + 1
          /\ \A h \in 1 .. Top : chain'[h] = chain[h]
          /\ chain'[Top + 1] = b
        BY <1>5, <1>6, <1>7, AppendProperties
    <1>9. DOMAIN chain = 1 .. Top /\ DOMAIN chain' = 1 .. Top + 1
        BY <1>7, <1>8, LenProperties
    <1>10. Len(chain') \in Height
        BY <1>7, <1>8 DEF Height
    <1>11. UNCHANGED <<losses, wallet, refresh, sends, signed, spending>>
        BY DEF MineBlock
    <1>12. \A h \in 1 .. Top + 1 : h \in 1 .. Top \/ h = Top + 1
        BY <1>7
    <1>13. \A h \in 1 .. Top : h \in 1 .. Top + 1
        BY <1>7
    <1>14. MinedBlock(cb, new, spent)
        BY <1>1, <1>2, <1>3, <1>4, <1>8, <1>9, <1>10, <1>11, <1>12, <1>13 DEF MinedBlock, b
    <1>15. QED
        BY <1>14

\* The account is switched, a send takes its height, or a refresh is begun or
\* given up.
Idle ==
    /\ active' \in Accounts
    /\ refresh' \in [acct : Accounts \cup {NoKey}, height : Height,
                     all : BOOLEAN, asked : BOOLEAN]
    /\ refresh'.asked => refresh'.acct \in Accounts
    /\ send' \in Send \cup {NoSend}
    /\ send' # NoSend => \/ send' = send
                         \/ send'.losses = losses /\ send'.height = Top
    /\ UNCHANGED <<chain, losses, ever, outs, log, idx, lastHeight, contexts, world>>

LEMMA NoRefreshIsTyped ==
    /\ NoRefresh \in [acct : Accounts \cup {NoKey}, height : Height,
                      all : BOOLEAN, asked : BOOLEAN]
    /\ ~NoRefresh.asked
    BY RefreshAssumption DEF RefreshAssumption, NoRefresh, Height

\* A step does one of these.
LEMMA StepEffects ==
    ASSUME TypeOK, Shapes, KeysInv, LinkInv, SendsInv, [Next]_vars
    PROVE  \/ \E cb, new, spent : MinedBlock(cb, new, spent)
           \/ Cut
           \/ \E k : Built(k)
           \/ \E k : Received(k)
           \/ \E c \in contexts : Taken(c)
           \/ \E new : Updated(new)
           \/ Idle
    <1>1. ASSUME NEW a \in Accounts, SetActiveAccount(a) \/ BeginSend(a)
          PROVE  Idle
        <2>1. CASE SetActiveAccount(a)
            BY <2>1 DEF SetActiveAccount, Idle, Shapes, TypeOK, sends
        <2>2. CASE BeginSend(a)
            <3>1. /\ send' = [acct |-> a, height |-> Top, losses |-> losses]
                  /\ UNCHANGED <<chain, losses, ever, wallet, refresh, contexts, world>>
                BY <2>2 DEF BeginSend
            <3>2. send' \in Send /\ send'.losses = losses /\ send'.height = Top
                BY <3>1 DEF Send, TypeOK
            <3>3. QED
                BY <3>1, <3>2 DEF Idle, Shapes, TypeOK, wallet
        <2>3. QED
            BY <1>1, <2>1, <2>2
    <1>2. ASSUME NEW a \in Accounts, NEW all \in BOOLEAN, AskHeight(a, all)
          PROVE  Idle
        BY <1>2 DEF AskHeight, Idle, TypeOK, wallet, sends
    <1>3. CASE RefreshFails
        BY <1>3, NoRefreshIsTyped DEF RefreshFails, Idle, TypeOK, wallet
    <1>4. CASE UNCHANGED vars
        BY <1>4 DEF vars, wallet, sends, Idle, TypeOK, Shapes
    <1>5. CASE MineBlock
        BY <1>5, MineBlockMines
    <1>6. ASSUME NEW n \in 1 .. MaxReorg, LoseBlocks(n) PROVE Cut
        BY <1>6, LoseBlocksCuts
    <1>7. CASE BuildCoinbase
        BY <1>7, BuildCoinbaseBuilds
    <1>8. CASE ReceiveTx
        BY <1>8, ReceiveTxReceives
    <1>9. ASSUME NEW c \in contexts, LockCoin(c) PROVE Taken(c)
        BY <1>9, LockCoinTakes
    <1>10. CASE Apply
        BY <1>10, ApplyUpdates
    <1>11. QED
        BY <1>1, <1>2, <1>3, <1>4, <1>5, <1>6, <1>7, <1>8, <1>9, <1>10 DEF Next

-----------------------------------------------------------------------------
(* The invariant is inductive.                                             *)

LEMMA InitIInv == Init => IInv
    <1> SUFFICES ASSUME Init PROVE IInv
        OBVIOUS
    <1>1. << >> \in Seq(Block) /\ << >> \in Seq(TxLogEntry) /\ Len(<< >>) = 0
          /\ DOMAIN << >> = {}
        OBVIOUS
    <1>2. MaxHeight \in Nat /\ MaxLosses \in Nat /\ MaxKeys \in Nat
        BY RefreshAssumption DEF RefreshAssumption
    <1>3. TypeOK
        BY <1>1, <1>2 DEF Init, TypeOK, Top, Height
    <1>4. Shapes
        BY <1>1, NoRefreshIsTyped, FS_EmptySet DEF Init, Shapes
    <1>5. KeysInv
        BY <1>1 DEF Init, KeysInv
    <1>6. LinkInv /\ HeightsInv /\ SendsInv
        BY <1>1 DEF Init, LinkInv, HeightsInv, SendsInv
    <1>7. ConfirmedWasMined /\ CoinbaseEnteredOnce /\ EnteredCoinbaseIsKept
        BY <1>1 DEF Init, ConfirmedWasMined, CoinbaseEnteredOnce, EnteredCoinbaseIsKept
    <1>8. QED
        BY <1>3, <1>4, <1>5, <1>6, <1>7 DEF IInv

\* Appending to one account's log leaves every entry where it is.
LEMMA AppendedKeepsEntries ==
    ASSUME Shapes, NEW a \in Accounts, NEW e, Appended(a, e)
    PROVE  /\ \A b \in Accounts : /\ Len(log'[b]) \in Nat /\ Len(log[b]) <= Len(log'[b])
                                  /\ DOMAIN log[b] = 1 .. Len(log[b])
                                  /\ DOMAIN log'[b] = 1 .. Len(log'[b])
                                  /\ \A i \in DOMAIN log[b] : log'[b][i] = log[b][i]
           /\ \A b \in Accounts : \A i \in DOMAIN log'[b] :
                i \in DOMAIN log[b] \/ (b = a /\ i = Len(log[a]) + 1)
    <1>1. \A b \in Accounts : /\ Len(log[b]) \in Nat /\ DOMAIN log[b] = 1 .. Len(log[b])
                              /\ Len(log'[b]) \in Nat /\ DOMAIN log'[b] = 1 .. Len(log'[b])
        BY LenProperties DEF Shapes, Appended
    <1>2. QED
        BY <1>1 DEF Appended

\* The same of a refresh, which may confirm them.
LEMMA RefreshedKeepsEntries ==
    ASSUME Shapes, NEW a \in Accounts, NEW new, Refreshed(a, new)
    PROVE  /\ \A b \in Accounts :
                /\ Len(log'[b]) \in Nat /\ Len(log[b]) <= Len(log'[b])
                /\ DOMAIN log[b] = 1 .. Len(log[b]) /\ DOMAIN log'[b] = 1 .. Len(log'[b])
                /\ \A i \in DOMAIN log[b] :
                    /\ log'[b][i].type = log[b][i].type /\ log'[b][i].key = log[b][i].key
                    /\ log[b][i].confirmed => log'[b][i].confirmed
                    /\ log'[b][i].confirmed => log[b][i].confirmed \/ log[b][i].key \in Utxo
           /\ \A b \in Accounts : \A i \in DOMAIN log'[b] :
                i \in DOMAIN log[b] \/ (b = a /\ \E j \in DOMAIN new : i = Len(log[a]) + j)
           /\ DOMAIN new = 1 .. Len(new)
           /\ \A j \in DOMAIN new : Len(log[a]) + j \in 1 .. Len(log'[a])
    <1>1. \A b \in Accounts : /\ Len(log[b]) \in Nat /\ DOMAIN log[b] = 1 .. Len(log[b])
                              /\ Len(log'[b]) \in Nat /\ DOMAIN log'[b] = 1 .. Len(log'[b])
        BY LenProperties DEF Shapes, Refreshed
    <1>2. /\ Len(new) \in Nat /\ DOMAIN new = 1 .. Len(new)
          /\ Len(log'[a]) = Len(log[a]) + Len(new)
        BY LenProperties DEF Refreshed
    <1>3. \A i \in 1 .. Len(log'[a]) :
             i \in 1 .. Len(log[a]) \/ \E j \in DOMAIN new : i = Len(log[a]) + j
        <2> TAKE i \in 1 .. Len(log'[a])
        <2>1. CASE i <= Len(log[a])
            BY <1>1, <2>1
        <2>2. CASE i > Len(log[a])
            <3> DEFINE j == i - Len(log[a])
            <3>1. j \in DOMAIN new /\ i = Len(log[a]) + j
                BY <1>1, <1>2, <2>2
            <3>2. QED
                BY <3>1
        <2>3. QED
            BY <1>1, <2>1, <2>2
    <1>4. \A j \in DOMAIN new : Len(log[a]) + j \in 1 .. Len(log'[a])
        BY <1>1, <1>2
    <1>5. ASSUME NEW b \in Accounts
          PROVE  /\ Len(log[b]) <= Len(log'[b])
                 /\ \A i \in 1 .. Len(log[b]) :
                    /\ log'[b][i].type = log[b][i].type /\ log'[b][i].key = log[b][i].key
                    /\ log[b][i].confirmed => log'[b][i].confirmed
                    /\ log'[b][i].confirmed => log[b][i].confirmed \/ log[b][i].key \in Utxo
        <2>1. CASE b = a
            BY <1>1, <1>2, <2>1 DEF Refreshed
        <2>2. CASE b # a
            BY <1>1, <2>2 DEF Refreshed
        <2>3. QED
            BY <2>1, <2>2
    <1>6. \A b \in Accounts \ {a} : log'[b] = log[b]
        BY DEF Refreshed
    <1>7. QED
        BY <1>1, <1>2, <1>3, <1>4, <1>5, <1>6

LEMMA TypesStep ==
    ASSUME TypeOK, Shapes, KeysInv, LinkInv, SendsInv, [Next]_vars
    PROVE  TypeOK' /\ Shapes'
    <1>0. /\ MaxHeight \in Nat /\ MaxKeys \in Nat /\ Top \in Nat
          /\ \A k \in Key : k \in Given' => k \in Key
        BY RefreshAssumption DEF RefreshAssumption, TypeOK, Height
    <1>1. \A a \in Accounts : Len(log[a]) \in Nat
        BY LenProperties DEF Shapes
    <1>2. ASSUME NEW cb, NEW new, NEW spent, MinedBlock(cb, new, spent)
          PROVE  TypeOK' /\ Shapes'
        <2>1. ever' \subseteq Key
            BY <1>2 DEF MinedBlock, TypeOK, Shapes
        <2>2. TypeOK'
            BY <1>2, <2>1 DEF MinedBlock, TypeOK, Top, wallet, sends
        <2>3. QED
            BY <1>2, <2>2 DEF MinedBlock, Shapes, wallet
    <1>3. CASE Cut
        BY <1>3 DEF Cut, TypeOK, Shapes, Top, wallet, sends, world
    <1>4. ASSUME NEW k, Built(k) PROVE TypeOK' /\ Shapes'
        <2> DEFINE r == [root |-> active, status |-> "Unconfirmed", height |-> Top + 1,
                         lock |-> LockHeight(Top + 1), coinbase |-> TRUE, entry |-> 0]
        <2>1. Top + 1 \in 0 .. MaxHeight + 1 /\ LockHeight(Top + 1) \in Nat /\ active \in Accounts
            <3>1. Top + 1 \in Nat /\ Top \in 0 .. MaxHeight /\ active \in Accounts
                BY <1>0 DEF TypeOK, Height
            <3>2. QED
                BY <1>0, <3>1, LockHeightIsNat
        <2>2. r \in OutputData /\ r.entry = 0 /\ r.root = active
            BY <2>1 DEF OutputData, Status
        <2>3. Put(k, r)
            BY <1>4 DEF Built
        <2> HIDE DEF r
        <2>4. /\ DOMAIN outs' = DOMAIN outs \cup {k} /\ outs'[k] = r
              /\ \A q \in DOMAIN outs \ {k} : outs'[q] = outs[q]
            BY <2>3, PutKeepsOthers
        <2>5. \A q \in DOMAIN outs' : /\ outs'[q] \in OutputData
                                      /\ outs'[q].entry \in 0 .. Len(log[outs'[q].root])
            BY <1>1, <2>1, <2>2, <2>4 DEF TypeOK
        <2>6. work' \in [key : Key, height : 1 .. MaxHeight]
            BY <1>4 DEF Built
        <2>7. TypeOK'
            BY <1>4, <2>4, <2>5, <2>6 DEF Built, TypeOK, Top, sends
        <2>8. IsFiniteSet(DOMAIN outs')
            <3>1. IsFiniteSet(DOMAIN outs) /\ DOMAIN outs' = DOMAIN outs \cup {k}
                BY <2>4 DEF Shapes
            <3>2. IsFiniteSet(DOMAIN outs \cup {k})
                BY ONLY <3>1, FS_AddElement
            <3>3. QED
                BY <3>1, <3>2
        <2>9. QED
            BY <1>4, <2>7, <2>8 DEF Built, Shapes
    <1>5. ASSUME NEW k, Received(k) PROVE TypeOK' /\ Shapes'
        <2> DEFINE r == [root |-> active, status |-> "Unconfirmed", height |-> Top,
                         lock |-> 0, coinbase |-> FALSE, entry |-> Len(log[active]) + 1]
                   e == [type |-> "TxReceived", confirmed |-> FALSE, key |-> k]
        <2>1. Top \in 0 .. MaxHeight + 1 /\ active \in Accounts /\ Len(log[active]) + 1 \in Nat
            BY <1>0, <1>1 DEF TypeOK, Height
        <2>2. r \in OutputData /\ r.entry = Len(log[active]) + 1 /\ r.root = active
            BY <2>1 DEF OutputData, Status
        <2>3. Put(k, r) /\ Appended(active, e)
            BY <1>5 DEF Received
        <2> HIDE DEF r, e
        <2>4. /\ DOMAIN outs' = DOMAIN outs \cup {k} /\ outs'[k] = r
              /\ \A q \in DOMAIN outs \ {k} : outs'[q] = outs[q]
            BY <2>3, PutKeepsOthers
        <2>5. /\ \A b \in Accounts : Len(log[b]) <= Len(log'[b]) /\ Len(log'[b]) \in Nat
              /\ Len(log'[active]) = Len(log[active]) + 1
            BY <2>1, <2>3, AppendedKeepsEntries DEF Appended
        <2>6. ASSUME NEW q \in DOMAIN outs'
              PROVE  outs'[q] \in OutputData /\ outs'[q].entry \in 0 .. Len(log'[outs'[q].root])
            <3>1. CASE q = k
                BY <1>1, <2>1, <2>2, <2>4, <2>5, <3>1
            <3>2. CASE q # k
                <4>1. q \in DOMAIN outs /\ outs'[q] = outs[q]
                    BY <2>4, <3>2
                <4>2. outs[q].root \in Accounts /\ outs[q].entry \in 0 .. Len(log[outs[q].root])
                    BY <4>1 DEF TypeOK, OutputData
                <4>3. QED
                    BY <1>1, <2>5, <4>1, <4>2 DEF TypeOK
            <3>3. QED
                BY <3>1, <3>2
        <2>7. TypeOK'
            BY <1>5, <2>3, <2>4, <2>6 DEF Received, TypeOK, Top, Appended, sends
        <2>8. IsFiniteSet(DOMAIN outs')
            <3>1. IsFiniteSet(DOMAIN outs) /\ DOMAIN outs' = DOMAIN outs \cup {k}
                BY <2>4 DEF Shapes
            <3>2. IsFiniteSet(DOMAIN outs \cup {k})
                BY ONLY <3>1, FS_AddElement
            <3>3. QED
                BY <3>1, <3>2
        <2>9. QED
            BY <1>5, <2>3, <2>7, <2>8 DEF Received, Shapes, Appended
    <1>6. ASSUME NEW c \in contexts, Taken(c) PROVE TypeOK' /\ Shapes'
        <2> DEFINE k == c.key
                   a == c.acct
                   e == [type |-> "TxSent", confirmed |-> FALSE, key |-> k]
        <2>1. /\ a \in Accounts /\ k \in Key /\ Appended(a, e)
              /\ DOMAIN outs' = DOMAIN outs /\ spending' = spending \cup {k}
              /\ \A q \in DOMAIN outs \ {k} : outs'[q] = outs[q]
              /\ outs'[k] \in OutputData
              /\ outs'[k].root = a /\ outs'[k].entry = Len(log[a]) + 1
            BY <1>6 DEF Taken
        <2> HIDE DEF e, k, a
        <2>2. /\ \A b \in Accounts : Len(log[b]) <= Len(log'[b]) /\ Len(log'[b]) \in Nat
              /\ Len(log'[a]) = Len(log[a]) + 1
            BY <2>1, AppendedKeepsEntries DEF Appended
        <2>3. ASSUME NEW q \in DOMAIN outs'
              PROVE  outs'[q] \in OutputData /\ outs'[q].entry \in 0 .. Len(log'[outs'[q].root])
            <3>1. CASE q = k
                BY <1>1, <2>1, <2>2, <3>1
            <3>2. CASE q # k
                <4>1. q \in DOMAIN outs /\ outs'[q] = outs[q]
                    BY <2>1, <3>2
                <4>2. outs[q].root \in Accounts /\ outs[q].entry \in 0 .. Len(log[outs[q].root])
                    BY <4>1 DEF TypeOK, OutputData
                <4>3. QED
                    BY <1>1, <2>2, <4>1, <4>2 DEF TypeOK
            <3>3. QED
                BY <3>1, <3>2
        <2>4. log' \in [Accounts -> Seq(TxLogEntry)]
            BY <2>1 DEF Appended
        <2>5. UNCHANGED <<chain, losses, ever, idx, lastHeight, active, refresh, sends,
                          work, signed>>
            BY <1>6 DEF Taken
        <2>6. TypeOK'
            BY <2>1, <2>3, <2>4, <2>5 DEF TypeOK, Top, sends
        <2>7. QED
            BY <2>1, <2>4, <2>5, <2>6 DEF Shapes
    <1>7. ASSUME NEW new, Updated(new) PROVE TypeOK' /\ Shapes'
        <2> DEFINE a == refresh.acct
        <2>1. a \in Accounts /\ Refreshed(a, new)
            BY <1>7 DEF Updated
        <2> HIDE DEF a
        <2>2. /\ \A b \in Accounts : Len(log[b]) <= Len(log'[b]) /\ Len(log'[b]) \in Nat
              /\ \A j \in DOMAIN new : Len(log[a]) + j \in 1 .. Len(log'[a])
            BY <2>1, RefreshedKeepsEntries
        <2>3. ASSUME NEW q \in DOMAIN outs'
              PROVE  outs'[q] \in OutputData /\ outs'[q].entry \in 0 .. Len(log'[outs'[q].root])
            <3>1. /\ q \in DOMAIN outs /\ outs'[q] \in OutputData
                  /\ outs'[q].root = outs[q].root
                BY <2>1 DEF Refreshed
            <3>2. outs[q].root \in Accounts /\ outs[q].entry \in 0 .. Len(log[outs[q].root])
                BY <3>1 DEF TypeOK, OutputData
            <3>3. \/ outs'[q].entry = outs[q].entry
                  \/ \E i \in DOMAIN new : outs[q].root = a /\ outs'[q].entry = Len(log[a]) + i
                BY <2>1 DEF Refreshed
            <3>4. QED
                BY <1>1, <2>2, <3>1, <3>2, <3>3
        <2>4. /\ DOMAIN outs' \subseteq DOMAIN outs
              /\ log' \in [Accounts -> Seq(TxLogEntry)]
            BY <2>1 DEF Refreshed
        <2>5. ASSUME NEW c \in contexts' PROVE c \in Context
            <3>1. CASE c \in contexts
                BY <3>1 DEF TypeOK
            <3>2. CASE c \notin contexts
                <4>1. Selected(c)
                    BY <1>7, <3>2 DEF Updated
                <4>2. c.key \in Key /\ send \in Send
                    BY <2>4, <4>1 DEF Selected, TypeOK
                <4>3. c = [acct |-> send.acct, key |-> c.key, losses |-> send.losses]
                    BY <4>1 DEF Selected
                <4>4. QED
                    BY <4>2, <4>3 DEF Send, Context
            <3>3. QED
                BY <3>1, <3>2
        <2>6. TypeOK'
            BY <1>7, <2>3, <2>4, <2>5 DEF Updated, TypeOK, Top, world
        <2>7. QED
            BY <1>7, <2>4, <2>6, NoRefreshIsTyped, FS_Subset DEF Updated, Shapes, world
    <1>8. CASE Idle
        BY <1>8 DEF Idle, TypeOK, Shapes, Top, world
    <1>9. QED
        BY <1>2, <1>3, <1>4, <1>5, <1>6, <1>7, <1>8, StepEffects

LEMMA KeysStep ==
    ASSUME TypeOK, Shapes, KeysInv, LinkInv, SendsInv, [Next]_vars
    PROVE  KeysInv'
    <1>1. ASSUME NEW cb, NEW new, NEW spent, MinedBlock(cb, new, spent) PROVE KeysInv'
        <2>1. Given' = Given /\ UNCHANGED <<outs, signed>>
            BY <1>1 DEF MinedBlock, wallet, Given
        <2>2. ever' = ever \cup cb \cup new /\ ever' \subseteq Given
            BY <1>1 DEF MinedBlock, KeysInv
        <2>3. work' # NoWork => work'.key \in Given /\ work'.key \notin ever' \cup signed
            BY <1>1, <2>2 DEF MinedBlock, KeysInv
        <2>4. \A h \in DOMAIN chain' : chain'[h].new \subseteq ever'
            BY <1>1, <2>2 DEF MinedBlock, KeysInv
        <2>5. ever \subseteq ever'
            BY <2>2
        <2>6. QED
            BY <2>1, <2>2, <2>3, <2>4, <2>5 DEF KeysInv
    <1>2. CASE Cut
        BY <1>2 DEF Cut, KeysInv, wallet, world, Given
    <1>3. ASSUME NEW k, Built(k) PROVE KeysInv'
        <2>1. /\ DOMAIN outs' = DOMAIN outs \cup {k} /\ outs'[k].status = "Unconfirmed"
              /\ \A q \in DOMAIN outs \ {k} : outs'[q] = outs[q]
            BY <1>3, BuiltRecord
        <2>2. \A q \in DOMAIN outs' : outs'[q].status # "Unconfirmed" => q \in ever
            BY <2>1 DEF KeysInv
        <2>3. QED
            BY <1>3, <2>1, <2>2 DEF Built, KeysInv
    <1>4. ASSUME NEW k, Received(k) PROVE KeysInv'
        <2>1. /\ DOMAIN outs' = DOMAIN outs \cup {k} /\ outs'[k].status = "Unconfirmed"
              /\ \A q \in DOMAIN outs \ {k} : outs'[q] = outs[q]
            BY <1>4, ReceivedRecord
        <2>2. \A q \in DOMAIN outs' : outs'[q].status # "Unconfirmed" => q \in ever
            BY <2>1 DEF KeysInv
        <2>3. QED
            BY <1>4, <2>1, <2>2 DEF Received, KeysInv
    <1>5. ASSUME NEW c \in contexts, Taken(c) PROVE KeysInv'
        <2>1. /\ DOMAIN outs' = DOMAIN outs /\ c.key \in ever
              /\ \A q \in DOMAIN outs \ {c.key} : outs'[q] = outs[q]
            BY <1>5 DEF Taken
        <2>2. \A q \in DOMAIN outs' : outs'[q].status # "Unconfirmed" => q \in ever
            BY <2>1 DEF KeysInv
        <2>3. QED
            BY <1>5, <2>1, <2>2 DEF Taken, KeysInv, Given
    <1>6. ASSUME NEW new, Updated(new) PROVE KeysInv'
        <2>1. DOMAIN outs' \subseteq DOMAIN outs
            BY <1>6 DEF Updated, Refreshed
        <2>2. Given' = Given
            BY <1>6 DEF Updated, Given
        <2>3. \A q \in DOMAIN outs' : outs'[q].status # "Unconfirmed" => q \in ever
            BY <1>6, UtxoWasMined DEF Updated, Refreshed, KeysInv
        <2>4. QED
            BY <1>6, <2>1, <2>2, <2>3 DEF Updated, KeysInv, world
    <1>7. CASE Idle
        BY <1>7 DEF Idle, KeysInv, Given, world
    <1>8. QED
        BY <1>1, <1>2, <1>3, <1>4, <1>5, <1>6, <1>7, StepEffects

LEMMA LinkStep ==
    ASSUME TypeOK, Shapes, KeysInv, LinkInv, SendsInv, [Next]_vars
    PROVE  LinkInv'
    <1>1. \A k \in DOMAIN outs :
             /\ outs[k].root \in Accounts /\ outs[k].entry \in 0 .. Len(log[outs[k].root])
             /\ outs[k].entry # 0 => outs[k].entry \in DOMAIN log[outs[k].root]
        <2> TAKE k \in DOMAIN outs
        <2>1. outs[k].root \in Accounts /\ outs[k].entry \in 0 .. Len(log[outs[k].root])
            BY DEF TypeOK, OutputData
        <2>2. DOMAIN log[outs[k].root] = 1 .. Len(log[outs[k].root])
            BY <2>1, LenProperties DEF Shapes
        <2>3. QED
            BY <2>1, <2>2
    <1>2. active \in Accounts
        BY DEF TypeOK
    <1>3. ASSUME NEW k, Built(k) PROVE LinkInv'
        <2>1. /\ log' = log /\ DOMAIN outs' = DOMAIN outs \cup {k} /\ outs'[k].entry = 0
              /\ \A q \in DOMAIN outs \ {k} : outs'[q] = outs[q]
            BY <1>3, BuiltRecord DEF Built
        <2>2. QED
            BY <2>1 DEF LinkInv
    <1>4. ASSUME NEW k, NEW e, NEW a \in Accounts,
                 Appended(a, e), e.key = k, e.type # "ConfirmedCoinbase",
                 DOMAIN outs' = DOMAIN outs \cup {k},
                 outs'[k].root = a, outs'[k].entry = Len(log[a]) + 1,
                 \A q \in DOMAIN outs \ {k} : outs'[q] = outs[q]
          PROVE  LinkInv'
        <2>1. /\ \A b \in Accounts : \A i \in DOMAIN log[b] : log'[b][i] = log[b][i]
              /\ \A b \in Accounts : \A i \in DOMAIN log'[b] :
                    i \in DOMAIN log[b] \/ (b = a /\ i = Len(log[a]) + 1)
              /\ log'[a][Len(log[a]) + 1] = e
            BY <1>4, AppendedKeepsEntries DEF Appended
        <2>2. ASSUME NEW q \in DOMAIN outs', outs'[q].entry # 0
              PROVE  log'[outs'[q].root][outs'[q].entry].key = q
            <3>1. CASE q = k
                BY <1>4, <2>1, <3>1
            <3>2. CASE q # k
                BY <1>1, <1>4, <2>1, <2>2, <3>2 DEF LinkInv
            <3>3. QED
                BY <3>1, <3>2
        <2>3. ASSUME NEW b \in Accounts, NEW i \in DOMAIN log'[b],
                     log'[b][i].type = "ConfirmedCoinbase"
              PROVE  log'[b][i].confirmed
            BY <1>4, <2>1, <2>3 DEF LinkInv
        <2>4. QED
            BY <2>2, <2>3 DEF LinkInv
    <1>5. ASSUME NEW k, Received(k) PROVE LinkInv'
        <2> DEFINE e == [type |-> "TxReceived", confirmed |-> FALSE, key |-> k]
        <2>1. Appended(active, e) /\ e.key = k /\ e.type # "ConfirmedCoinbase"
            BY <1>5 DEF Received
        <2> HIDE DEF e
        <2>2. /\ DOMAIN outs' = DOMAIN outs \cup {k}
              /\ outs'[k].root = active /\ outs'[k].entry = Len(log[active]) + 1
              /\ \A q \in DOMAIN outs \ {k} : outs'[q] = outs[q]
            BY <1>5, ReceivedRecord
        <2>3. QED
            BY <1>2, <1>4, <2>1, <2>2
    <1>6. ASSUME NEW c \in contexts, Taken(c) PROVE LinkInv'
        <2> DEFINE k == c.key
                   a == c.acct
                   e == [type |-> "TxSent", confirmed |-> FALSE, key |-> k]
        <2>1. Appended(a, e) /\ e.key = k /\ e.type # "ConfirmedCoinbase" /\ a \in Accounts
            BY <1>6 DEF Taken
        <2>2. /\ DOMAIN outs' = DOMAIN outs \cup {k}
              /\ outs'[k].root = a /\ outs'[k].entry = Len(log[a]) + 1
              /\ \A q \in DOMAIN outs \ {k} : outs'[q] = outs[q]
            BY <1>6 DEF Taken
        <2> HIDE DEF e, k, a
        <2>3. QED
            BY <1>4, <2>1, <2>2
    <1>7. ASSUME NEW new, Updated(new) PROVE LinkInv'
        <2> DEFINE a == refresh.acct
        <2>1. a \in Accounts /\ Refreshed(a, new)
            BY <1>7 DEF Updated
        <2> HIDE DEF a
        <2>2. /\ \A b \in Accounts : \A i \in DOMAIN log[b] :
                    /\ log'[b][i].type = log[b][i].type /\ log'[b][i].key = log[b][i].key
                    /\ log[b][i].confirmed => log'[b][i].confirmed
              /\ \A b \in Accounts : \A i \in DOMAIN log'[b] :
                    i \in DOMAIN log[b] \/ (b = a /\ \E j \in DOMAIN new : i = Len(log[a]) + j)
            BY <2>1, RefreshedKeepsEntries
        <2>3. ASSUME NEW j \in DOMAIN new
              PROVE  /\ log'[a][Len(log[a]) + j].confirmed
                     /\ log'[a][Len(log[a]) + j].key = new[j]
            <3>1. log'[a][Len(log[a]) + j] =
                    [type |-> "ConfirmedCoinbase", confirmed |-> TRUE, key |-> new[j]]
                BY <2>1 DEF Refreshed
            <3>2. QED
                BY <3>1
        <2>4. ASSUME NEW q \in DOMAIN outs', outs'[q].entry # 0
              PROVE  log'[outs'[q].root][outs'[q].entry].key = q
            <3>1. /\ q \in DOMAIN outs /\ outs'[q].root = outs[q].root
                  /\ \/ outs'[q].entry = outs[q].entry
                     \/ \E i \in DOMAIN new : /\ new[i] = q /\ outs[q].root = a
                                              /\ outs'[q].entry = Len(log[a]) + i
                BY <2>1 DEF Refreshed
            <3>2. QED
                BY <1>1, <2>2, <2>3, <2>4, <3>1 DEF LinkInv
        <2>5. ASSUME NEW b \in Accounts, NEW i \in DOMAIN log'[b],
                     log'[b][i].type = "ConfirmedCoinbase"
              PROVE  log'[b][i].confirmed
            BY <2>2, <2>3, <2>5 DEF LinkInv
        <2>6. QED
            BY <2>4, <2>5 DEF LinkInv
    <1>8. ASSUME UNCHANGED <<outs, log>> PROVE LinkInv'
        BY <1>8 DEF LinkInv
    <1>9. ASSUME NEW cb, NEW new, NEW spent, MinedBlock(cb, new, spent) PROVE LinkInv'
        BY <1>8, <1>9 DEF MinedBlock, wallet
    <1>10. CASE Cut
        BY <1>8, <1>10 DEF Cut, wallet
    <1>11. CASE Idle
        BY <1>8, <1>11 DEF Idle
    <1>12. QED
        BY <1>3, <1>5, <1>6, <1>7, <1>9, <1>10, <1>11, StepEffects

LEMMA HeightsStep ==
    ASSUME TypeOK, Shapes, KeysInv, LinkInv, SendsInv, HeightsInv, [Next]_vars
    PROVE  HeightsInv'
    <1>1. ASSUME NEW cb, NEW new, NEW spent, MinedBlock(cb, new, spent) PROVE HeightsInv'
        <2>1. UNCHANGED <<outs, signed>>
            BY <1>1 DEF MinedBlock, wallet
        <2>2. work'.key \in DOMAIN outs => work' = work
            BY <1>1, AccountsOfKeys DEF MinedBlock, NoWork, TypeOK
        <2>3. ASSUME NEW k \in (cb \cup new) \cap DOMAIN outs, outs[k].coinbase
              PROVE  outs[k].lock = LockHeight(Top + 1)
            BY <1>1, <2>3 DEF MinedBlock, HeightsInv
        <2>4. ASSUME NEW h \in DOMAIN chain', NEW k \in chain'[h].new \cap DOMAIN outs,
                     outs[k].coinbase
              PROVE  outs[k].lock = LockHeight(h)
            <3>1. CASE h \in DOMAIN chain
                BY <1>1, <2>4, <3>1 DEF MinedBlock, HeightsInv
            <3>2. CASE h = Top + 1
                BY <1>1, <2>3, <2>4, <3>2 DEF MinedBlock
            <3>3. QED
                BY <1>1, <3>1, <3>2 DEF MinedBlock
        <2>5. QED
            BY <2>1, <2>2, <2>4 DEF HeightsInv
    <1>2. CASE Cut
        BY <1>2 DEF Cut, HeightsInv, wallet, world
    <1>3. ASSUME NEW k, Built(k) PROVE HeightsInv'
        <2>1. /\ DOMAIN outs' = DOMAIN outs \cup {k}
              /\ outs'[k].coinbase /\ outs'[k].lock = LockHeight(Top + 1)
              /\ \A q \in DOMAIN outs \ {k} : outs'[q] = outs[q]
            BY <1>3, BuiltRecord DEF Built
        <2>2. work'.key = k /\ work'.height = Top + 1 /\ UNCHANGED <<chain, signed>>
            BY <1>3 DEF Built
        <2>3. k \notin signed /\ \A h \in DOMAIN chain : k \notin chain[h].new
            BY <1>3 DEF Built, KeysInv
        <2>4. QED
            BY <2>1, <2>2, <2>3 DEF HeightsInv
    <1>4. ASSUME NEW k, Received(k) PROVE HeightsInv'
        <2>1. /\ DOMAIN outs' = DOMAIN outs \cup {k}
              /\ ~outs'[k].coinbase /\ outs'[k].lock = 0
              /\ \A q \in DOMAIN outs \ {k} : outs'[q] = outs[q]
            BY <1>4, ReceivedRecord
        <2>2. signed' = signed \cup {k} /\ UNCHANGED <<chain, work>>
            BY <1>4 DEF Received
        <2>3. work.key # k
            <3>1. k \in Key /\ k \notin Given
                BY <1>4 DEF Received
            <3>2. CASE work = NoWork
                BY <3>1, <3>2, AccountsOfKeys DEF NoWork
            <3>3. CASE work # NoWork
                BY <3>1, <3>3 DEF KeysInv
            <3>4. QED
                BY <3>2, <3>3
        <2>4. QED
            BY <2>1, <2>2, <2>3 DEF HeightsInv
    <1>5. ASSUME NEW c \in contexts, Taken(c) PROVE HeightsInv'
        <2>1. /\ DOMAIN outs' = DOMAIN outs
              /\ \A q \in DOMAIN outs : /\ outs'[q].lock = outs[q].lock
                                        /\ outs'[q].coinbase = outs[q].coinbase
            BY <1>5 DEF Taken
        <2>2. UNCHANGED <<chain, work, signed>>
            BY <1>5 DEF Taken
        <2>3. QED
            BY <2>1, <2>2 DEF HeightsInv
    <1>6. ASSUME NEW new, Updated(new) PROVE HeightsInv'
        <2>1. /\ DOMAIN outs' \subseteq DOMAIN outs
              /\ \A q \in DOMAIN outs' : /\ outs'[q].lock = outs[q].lock
                                         /\ outs'[q].coinbase = outs[q].coinbase
            BY <1>6 DEF Updated, Refreshed
        <2>2. UNCHANGED <<chain, work, signed>>
            BY <1>6 DEF Updated, world
        <2>3. QED
            BY <2>1, <2>2 DEF HeightsInv
    <1>7. CASE Idle
        BY <1>7 DEF Idle, HeightsInv, world
    <1>8. QED
        BY <1>1, <1>2, <1>3, <1>4, <1>5, <1>6, <1>7, StepEffects

LEMMA SendsStep ==
    ASSUME TypeOK, Shapes, KeysInv, LinkInv, SendsInv, [Next]_vars
    PROVE  SendsInv'
    <1>1. /\ losses \in Nat /\ Top \in Nat
          /\ send \in Send => send.losses \in Nat /\ send.height \in Nat
          /\ \A c \in contexts : c.losses \in Nat
          /\ \A k \in DOMAIN outs : outs[k].lock \in Nat
        <2>1. MaxLosses \in Nat /\ MaxHeight \in Nat
            BY RefreshAssumption DEF RefreshAssumption
        <2>2. QED
            BY <2>1 DEF TypeOK, Height, Send, Context, OutputData
    \* What the records and the context of a coin need to keep.
    <1>2. ASSUME send' = send, contexts' = contexts, ever \subseteq ever',
                 \A k \in ever \cap DOMAIN outs :
                    /\ k \in DOMAIN outs'
                    /\ outs'[k].root = outs[k].root /\ outs'[k].lock = outs[k].lock
                    /\ outs[k].status # "Unconfirmed" => outs'[k].status # "Unconfirmed",
                 \/ losses' = losses /\ Top' \in Nat /\ Top <= Top'
                 \/ losses' \in Nat /\ losses < losses'
          PROVE  SendsInv'
        <2>1. send' # NoSend => /\ send'.losses <= losses'
                                /\ send'.losses = losses' => send'.height <= Top'
            BY <1>1, <1>2 DEF SendsInv, TypeOK
        <2>2. ASSUME NEW c \in contexts'
              PROVE  /\ c.key \in ever' \cap DOMAIN outs'
                     /\ outs'[c.key].root = c.acct /\ outs'[c.key].status # "Unconfirmed"
                     /\ c.losses <= losses'
                     /\ c.losses = losses' => outs'[c.key].lock <= Top'
            <3>1. /\ c \in contexts /\ c.key \in ever \cap DOMAIN outs
                  /\ outs[c.key].root = c.acct /\ outs[c.key].status # "Unconfirmed"
                  /\ c.losses <= losses
                  /\ c.losses = losses => outs[c.key].lock <= Top
                BY <1>2 DEF SendsInv
            <3>2. /\ c.key \in ever' \cap DOMAIN outs'
                  /\ outs'[c.key].root = c.acct /\ outs'[c.key].status # "Unconfirmed"
                  /\ outs'[c.key].lock = outs[c.key].lock
                BY <1>2, <3>1
            <3>3. /\ c.losses <= losses'
                  /\ c.losses = losses' => outs[c.key].lock <= Top'
                BY <1>1, <1>2, <3>1
            <3>4. QED
                BY <3>2, <3>3
        <2>3. QED
            BY <2>1, <2>2 DEF SendsInv
    <1>3. ASSUME NEW cb, NEW new, NEW spent, MinedBlock(cb, new, spent) PROVE SendsInv'
        <2>1. /\ UNCHANGED <<losses, outs, send, contexts>> /\ ever \subseteq ever'
              /\ Top' = Top + 1
            BY <1>3 DEF MinedBlock, wallet, sends, Top
        <2>2. QED
            BY <1>1, <1>2, <2>1
    <1>4. CASE Cut
        <2>1. /\ UNCHANGED <<outs, send, contexts, ever>>
              /\ losses' \in 0 .. MaxLosses /\ losses < losses'
            BY <1>4 DEF Cut, wallet, sends
        <2>2. QED
            BY <1>2, <2>1
    <1>5. ASSUME NEW k, Built(k) PROVE SendsInv'
        <2>1. k \notin ever /\ UNCHANGED <<chain, losses, ever, send, contexts>>
            BY <1>5 DEF Built, sends
        <2>2. /\ DOMAIN outs' = DOMAIN outs \cup {k}
              /\ \A q \in DOMAIN outs \ {k} : outs'[q] = outs[q]
            BY <1>5, BuiltRecord
        <2>3. QED
            BY <1>1, <1>2, <2>1, <2>2 DEF Top
    <1>6. ASSUME NEW k, Received(k) PROVE SendsInv'
        <2>1. k \notin ever /\ UNCHANGED <<chain, losses, ever, send, contexts>>
            BY <1>6 DEF Received, KeysInv, sends
        <2>2. /\ DOMAIN outs' = DOMAIN outs \cup {k}
              /\ \A q \in DOMAIN outs \ {k} : outs'[q] = outs[q]
            BY <1>6, ReceivedRecord
        <2>3. QED
            BY <1>1, <1>2, <2>1, <2>2 DEF Top
    <1>7. ASSUME NEW c \in contexts, Taken(c) PROVE SendsInv'
        <2>1. UNCHANGED <<chain, losses, ever, send, contexts>>
            BY <1>7 DEF Taken, sends
        <2>2. \A q \in DOMAIN outs :
                /\ q \in DOMAIN outs'
                /\ outs'[q].root = outs[q].root /\ outs'[q].lock = outs[q].lock
                /\ outs[q].status # "Unconfirmed" => outs'[q].status # "Unconfirmed"
            BY <1>7 DEF Taken
        <2>3. QED
            BY <1>1, <1>2, <2>1, <2>2 DEF Top
    <1>8. ASSUME NEW new, Updated(new) PROVE SendsInv'
        <2>1. /\ UNCHANGED <<chain, losses, ever>> /\ send' = NoSend /\ Top' = Top
              /\ DOMAIN outs' \subseteq DOMAIN outs
            BY <1>8 DEF Updated, Refreshed, Top
        <2>2. ASSUME NEW c \in contexts
              PROVE  /\ c.key \in ever \cap DOMAIN outs'
                     /\ outs'[c.key].root = c.acct /\ outs'[c.key].status # "Unconfirmed"
                     /\ c.losses <= losses
                     /\ c.losses = losses => outs'[c.key].lock <= Top
            <3>1. /\ c.key \in ever \cap DOMAIN outs
                  /\ outs[c.key].root = c.acct /\ outs[c.key].status # "Unconfirmed"
                  /\ c.losses <= losses
                  /\ c.losses = losses => outs[c.key].lock <= Top
                BY DEF SendsInv
            <3>2. /\ c.key \in DOMAIN outs' /\ outs'[c.key].root = outs[c.key].root
                  /\ outs'[c.key].lock = outs[c.key].lock
                  /\ outs'[c.key].status # "Unconfirmed"
                BY <1>8, <3>1 DEF Updated, Refreshed
            <3>3. QED
                BY <3>1, <3>2
        <2>3. ASSUME NEW c, Selected(c)
              PROVE  /\ c.key \in ever \cap DOMAIN outs'
                     /\ outs'[c.key].root = c.acct /\ outs'[c.key].status # "Unconfirmed"
                     /\ c.losses <= losses
                     /\ c.losses = losses => outs'[c.key].lock <= Top
            <3>1. /\ send # NoSend /\ c.acct = send.acct /\ c.losses = send.losses
                  /\ c.key \in DOMAIN outs' /\ outs'[c.key].root = send.acct
                  /\ outs'[c.key].status # "Unconfirmed"
                  /\ outs'[c.key].lock <= send.height
                BY <2>3 DEF Selected
            <3>2. c.key \in ever
                BY <1>8, <3>1, UtxoWasMined DEF Updated, Refreshed, KeysInv
            <3>3. outs'[c.key].lock \in Nat
                BY <1>8, <3>1 DEF Updated, Refreshed, OutputData
            <3>4. send \in Send
                BY <3>1 DEF TypeOK
            <3>5. QED
                BY <1>1, <3>1, <3>2, <3>3, <3>4 DEF SendsInv
        <2>4. \A c \in contexts' : c \in contexts \/ Selected(c)
            BY <1>8 DEF Updated
        <2>5. QED
            BY <2>1, <2>2, <2>3, <2>4 DEF SendsInv
    <1>9. CASE Idle
        <2>1. UNCHANGED <<losses, ever, outs, contexts>> /\ Top' = Top
            BY <1>9 DEF Idle, Top
        <2>2. send' # NoSend => \/ send' = send
                                \/ send'.losses = losses /\ send'.height = Top
            BY <1>9 DEF Idle
        <2>3. QED
            BY <1>1, <2>1, <2>2 DEF SendsInv
    <1>10. QED
        BY <1>3, <1>4, <1>5, <1>6, <1>7, <1>8, <1>9, StepEffects

LEMMA MinedStep ==
    ASSUME TypeOK, Shapes, KeysInv, LinkInv, SendsInv, ConfirmedWasMined,
           [Next]_vars
    PROVE  ConfirmedWasMined'
    <1>1. ASSUME ever \subseteq ever', log' = log PROVE ConfirmedWasMined'
        BY <1>1 DEF ConfirmedWasMined
    <1>2. ASSUME NEW a \in Accounts, NEW e, Appended(a, e), ~e.confirmed, UNCHANGED ever
          PROVE  ConfirmedWasMined'
        <2>1. /\ \A b \in Accounts : \A i \in DOMAIN log[b] : log'[b][i] = log[b][i]
              /\ \A b \in Accounts : \A i \in DOMAIN log'[b] :
                    i \in DOMAIN log[b] \/ (b = a /\ i = Len(log[a]) + 1)
              /\ log'[a][Len(log[a]) + 1] = e
            BY <1>2, AppendedKeepsEntries DEF Appended
        <2>2. QED
            BY <1>2, <2>1 DEF ConfirmedWasMined
    <1>3. ASSUME NEW cb, NEW new, NEW spent, MinedBlock(cb, new, spent) PROVE ConfirmedWasMined'
        BY <1>1, <1>3 DEF MinedBlock, wallet
    <1>4. CASE Cut
        BY <1>1, <1>4 DEF Cut, wallet
    <1>5. ASSUME NEW k, Built(k) PROVE ConfirmedWasMined'
        BY <1>1, <1>5 DEF Built
    <1>6. ASSUME NEW k, Received(k) PROVE ConfirmedWasMined'
        <2> DEFINE e == [type |-> "TxReceived", confirmed |-> FALSE, key |-> k]
        <2>1. Appended(active, e) /\ ~e.confirmed /\ ever' = ever /\ active \in Accounts
            BY <1>6 DEF Received, TypeOK
        <2> HIDE DEF e
        <2>2. QED
            BY <1>2, <2>1
    <1>7. ASSUME NEW c \in contexts, Taken(c) PROVE ConfirmedWasMined'
        <2> DEFINE e == [type |-> "TxSent", confirmed |-> FALSE, key |-> c.key]
        <2>1. Appended(c.acct, e) /\ ~e.confirmed /\ ever' = ever /\ c.acct \in Accounts
            BY <1>7 DEF Taken
        <2> HIDE DEF e
        <2>2. QED
            BY <1>2, <2>1
    <1>8. ASSUME NEW new, Updated(new) PROVE ConfirmedWasMined'
        <2> DEFINE a == refresh.acct
        <2>1. a \in Accounts /\ Refreshed(a, new) /\ ever' = ever
            BY <1>8 DEF Updated
        <2> HIDE DEF a
        <2>2. /\ \A b \in Accounts : \A i \in DOMAIN log[b] :
                    /\ log'[b][i].key = log[b][i].key
                    /\ log'[b][i].confirmed => log[b][i].confirmed \/ log[b][i].key \in Utxo
              /\ \A b \in Accounts : \A i \in DOMAIN log'[b] :
                    i \in DOMAIN log[b] \/ (b = a /\ \E j \in DOMAIN new : i = Len(log[a]) + j)
            BY <2>1, RefreshedKeepsEntries
        <2>3. ASSUME NEW j \in DOMAIN new
              PROVE  log'[a][Len(log[a]) + j].key \in Utxo
            <3>1. /\ log'[a][Len(log[a]) + j] =
                        [type |-> "ConfirmedCoinbase", confirmed |-> TRUE, key |-> new[j]]
                  /\ new[j] \in Utxo
                BY <2>1 DEF Refreshed
            <3>2. QED
                BY <3>1
        <2>4. Utxo \subseteq ever
            BY UtxoWasMined
        <2>5. QED
            BY <2>1, <2>2, <2>3, <2>4 DEF ConfirmedWasMined
    <1>9. CASE Idle
        BY <1>1, <1>9 DEF Idle
    <1>10. QED
        BY <1>3, <1>4, <1>5, <1>6, <1>7, <1>8, <1>9, StepEffects

\* What is in the log as coinbase in the new state was there, or was entered by
\* this refresh.
LEMMA EnteredBefore ==
    ASSUME TypeOK, Shapes, KeysInv, LinkInv, SendsInv, [Next]_vars
    PROVE  \/ \E new : /\ Updated(new)
                       /\ \A b \in Accounts : \A i \in DOMAIN log'[b] :
                            \/ /\ i \in DOMAIN log[b]
                               /\ log'[b][i].type = log[b][i].type
                               /\ log'[b][i].key = log[b][i].key
                            \/ \E j \in DOMAIN new : /\ b = refresh.acct
                                                     /\ i = Len(log[b]) + j
                                                     /\ log'[b][i].key = new[j]
           \/ /\ \A new : ~Updated(new)
              /\ \A b \in Accounts : \A i \in DOMAIN log'[b] :
                    log'[b][i].type = "ConfirmedCoinbase" =>
                        i \in DOMAIN log[b] /\ log'[b][i] = log[b][i]
    <1>1. CASE \E new : Updated(new)
        <2>1. PICK new : Updated(new)
            BY <1>1
        <2> DEFINE a == refresh.acct
        <2>2. a \in Accounts /\ Refreshed(a, new)
            BY <2>1 DEF Updated
        <2> HIDE DEF a
        <2>3. /\ \A b \in Accounts : \A i \in DOMAIN log[b] :
                    /\ log'[b][i].type = log[b][i].type
                    /\ log'[b][i].key = log[b][i].key
              /\ \A b \in Accounts : \A i \in DOMAIN log'[b] :
                    i \in DOMAIN log[b] \/ (b = a /\ \E j \in DOMAIN new : i = Len(log[a]) + j)
            BY <2>2, RefreshedKeepsEntries
        <2>4. ASSUME NEW j \in DOMAIN new
              PROVE  log'[a][Len(log[a]) + j].key = new[j]
            <3>1. log'[a][Len(log[a]) + j] =
                        [type |-> "ConfirmedCoinbase", confirmed |-> TRUE, key |-> new[j]]
                BY <2>2 DEF Refreshed
            <3>2. QED
                BY <3>1
        <2>5. \A b \in Accounts : \A i \in DOMAIN log'[b] :
                \/ /\ i \in DOMAIN log[b]
                   /\ log'[b][i].type = log[b][i].type
                   /\ log'[b][i].key = log[b][i].key
                \/ \E j \in DOMAIN new : /\ b = a
                                         /\ i = Len(log[b]) + j
                                         /\ log'[b][i].key = new[j]
            BY <2>3, <2>4
        <2>6. QED
            BY <2>1, <2>5 DEF a
    <1>2. CASE \A new : ~Updated(new)
        <2> DEFINE Same == \A b \in Accounts : \A i \in DOMAIN log'[b] :
                                log'[b][i].type = "ConfirmedCoinbase" =>
                                    i \in DOMAIN log[b] /\ log'[b][i] = log[b][i]
        <2>1. ASSUME NEW a \in Accounts, NEW e, Appended(a, e), e.type # "ConfirmedCoinbase"
              PROVE  Same
            <3>1. /\ \A b \in Accounts : \A i \in DOMAIN log[b] : log'[b][i] = log[b][i]
                  /\ \A b \in Accounts : \A i \in DOMAIN log'[b] :
                        i \in DOMAIN log[b] \/ (b = a /\ i = Len(log[a]) + 1)
                  /\ log'[a][Len(log[a]) + 1] = e
                BY <2>1, AppendedKeepsEntries DEF Appended
            <3>2. QED
                BY <2>1, <3>1
        <2>2. ASSUME log' = log PROVE Same
            BY <2>2
        <2> HIDE DEF Same
        <2>3. ASSUME NEW cb, NEW new, NEW spent, MinedBlock(cb, new, spent) PROVE Same
            BY <2>2, <2>3 DEF MinedBlock, wallet
        <2>4. ASSUME NEW k, Built(k) PROVE Same
            BY <2>2, <2>4 DEF Built
        <2>5. ASSUME NEW k, Received(k) PROVE Same
            <3> DEFINE e == [type |-> "TxReceived", confirmed |-> FALSE, key |-> k]
            <3>1. Appended(active, e) /\ e.type # "ConfirmedCoinbase" /\ active \in Accounts
                BY <2>5 DEF Received, TypeOK
            <3> HIDE DEF e
            <3>2. QED
                BY <2>1, <3>1
        <2>6. ASSUME NEW c \in contexts, Taken(c) PROVE Same
            <3> DEFINE e == [type |-> "TxSent", confirmed |-> FALSE, key |-> c.key]
            <3>1. Appended(c.acct, e) /\ e.type # "ConfirmedCoinbase" /\ c.acct \in Accounts
                BY <2>6 DEF Taken
            <3> HIDE DEF e
            <3>2. QED
                BY <2>1, <3>1
        <2>7. ASSUME Cut \/ Idle PROVE Same
            BY <2>2, <2>7 DEF Cut, Idle, wallet
        <2>8. Same
            BY <1>2, <2>3, <2>4, <2>5, <2>6, <2>7, StepEffects
        <2>9. QED
            BY <1>2, <2>8 DEF Same
    <1>3. QED
        BY <1>1, <1>2

LEMMA KeptStep ==
    ASSUME TypeOK, Shapes, KeysInv, LinkInv, SendsInv, ConfirmedWasMined,
           EnteredCoinbaseIsKept, [Next]_vars
    PROVE  EnteredCoinbaseIsKept'
    <1>1. CASE \E new : Updated(new)
        <2>1. PICK new :
                /\ Updated(new)
                /\ \A b \in Accounts : \A i \in DOMAIN log'[b] :
                     \/ /\ i \in DOMAIN log[b]
                        /\ log'[b][i].type = log[b][i].type
                        /\ log'[b][i].key = log[b][i].key
                     \/ \E j \in DOMAIN new : /\ b = refresh.acct
                                              /\ i = Len(log[b]) + j
                                              /\ log'[b][i].key = new[j]
            BY <1>1, EnteredBefore
        <2>2. \A q \in DOMAIN outs : outs[q].status # "Unconfirmed" =>
                /\ q \in DOMAIN outs' /\ outs'[q].root = outs[q].root
                /\ outs'[q].status # "Unconfirmed"
            BY <2>1 DEF Updated, Refreshed
        <2>3. \A j \in DOMAIN new :
                /\ new[j] \in DOMAIN outs' /\ outs'[new[j]].root = refresh.acct
                /\ outs'[new[j]].status # "Unconfirmed"
            BY <2>1 DEF Updated, Refreshed
        <2>4. ASSUME NEW b \in Accounts, NEW i \in DOMAIN log'[b],
                     log'[b][i].type = "ConfirmedCoinbase"
              PROVE  /\ log'[b][i].key \in DOMAIN outs'
                     /\ outs'[log'[b][i].key].root = b
                     /\ outs'[log'[b][i].key].status # "Unconfirmed"
            <3>1. CASE /\ i \in DOMAIN log[b]
                       /\ log'[b][i].type = log[b][i].type
                       /\ log'[b][i].key = log[b][i].key
                BY <2>2, <2>4, <3>1 DEF EnteredCoinbaseIsKept
            <3>2. CASE b = refresh.acct /\ \E j \in DOMAIN new : log'[b][i].key = new[j]
                BY <2>3, <3>2
            <3>3. QED
                BY <2>1, <3>1, <3>2
        <2>5. QED
            BY <2>4 DEF EnteredCoinbaseIsKept
    <1>2. CASE \A new : ~Updated(new)
        <2>1. \A b \in Accounts : \A i \in DOMAIN log'[b] :
                log'[b][i].type = "ConfirmedCoinbase" =>
                    i \in DOMAIN log[b] /\ log'[b][i] = log[b][i]
            BY <1>2, EnteredBefore
        <2>2. ASSUME \A q \in ever \cap DOMAIN outs :
                        /\ q \in DOMAIN outs' /\ outs'[q].root = outs[q].root
                        /\ outs[q].status # "Unconfirmed" => outs'[q].status # "Unconfirmed"
              PROVE  EnteredCoinbaseIsKept'
            <3>1. ASSUME NEW b \in Accounts, NEW i \in DOMAIN log'[b],
                         log'[b][i].type = "ConfirmedCoinbase"
                  PROVE  /\ log'[b][i].key \in DOMAIN outs'
                         /\ outs'[log'[b][i].key].root = b
                         /\ outs'[log'[b][i].key].status # "Unconfirmed"
                <4>1. i \in DOMAIN log[b] /\ log'[b][i] = log[b][i]
                    BY <2>1, <3>1
                <4>2. /\ log[b][i].key \in ever \cap DOMAIN outs
                      /\ outs[log[b][i].key].root = b
                      /\ outs[log[b][i].key].status # "Unconfirmed"
                    BY <3>1, <4>1 DEF ConfirmedWasMined, EnteredCoinbaseIsKept, LinkInv
                <4>3. QED
                    BY <2>2, <4>1, <4>2
            <3>2. QED
                BY <3>1 DEF EnteredCoinbaseIsKept
        <2>3. ASSUME outs' = outs PROVE EnteredCoinbaseIsKept'
            BY <2>2, <2>3
        <2>4. ASSUME NEW cb, NEW new, NEW spent, MinedBlock(cb, new, spent)
              PROVE  EnteredCoinbaseIsKept'
            BY <2>3, <2>4 DEF MinedBlock, wallet
        <2>5. ASSUME Cut \/ Idle PROVE EnteredCoinbaseIsKept'
            BY <2>3, <2>5 DEF Cut, Idle, wallet
        <2>6. ASSUME NEW k, Built(k) PROVE EnteredCoinbaseIsKept'
            <3>1. k \notin ever
                BY <2>6 DEF Built
            <3>2. /\ DOMAIN outs' = DOMAIN outs \cup {k}
                  /\ \A q \in DOMAIN outs \ {k} : outs'[q] = outs[q]
                BY <2>6, BuiltRecord
            <3>3. \A q \in ever \cap DOMAIN outs : q \in DOMAIN outs' /\ outs'[q] = outs[q]
                BY <3>1, <3>2
            <3>4. QED
                BY <2>2, <3>3
        <2>7. ASSUME NEW k, Received(k) PROVE EnteredCoinbaseIsKept'
            <3>1. k \notin ever
                BY <2>7 DEF Received, KeysInv
            <3>2. \A q \in ever \cap DOMAIN outs : q \in DOMAIN outs' /\ outs'[q] = outs[q]
                BY <2>7, <3>1, ReceivedRecord
            <3>3. QED
                BY <2>2, <3>2
        <2>8. ASSUME NEW c \in contexts, Taken(c) PROVE EnteredCoinbaseIsKept'
            <3>1. \A q \in DOMAIN outs :
                    /\ q \in DOMAIN outs' /\ outs'[q].root = outs[q].root
                    /\ outs[q].status # "Unconfirmed" => outs'[q].status # "Unconfirmed"
                BY <2>8 DEF Taken
            <3>2. QED
                BY <2>2, <3>1
        <2>9. QED
            BY <1>2, <2>4, <2>5, <2>6, <2>7, <2>8, StepEffects
    <1>3. QED
        BY <1>1, <1>2

LEMMA OnceStep ==
    ASSUME TypeOK, Shapes, KeysInv, LinkInv, SendsInv, EnteredCoinbaseIsKept,
           CoinbaseEnteredOnce, [Next]_vars
    PROVE  CoinbaseEnteredOnce'
    <1>1. CASE \E new : Updated(new)
        <2>1. PICK new :
                /\ Updated(new)
                /\ \A b \in Accounts : \A i \in DOMAIN log'[b] :
                     \/ /\ i \in DOMAIN log[b]
                        /\ log'[b][i].type = log[b][i].type
                        /\ log'[b][i].key = log[b][i].key
                     \/ \E j \in DOMAIN new : /\ b = refresh.acct
                                              /\ i = Len(log[b]) + j
                                              /\ log'[b][i].key = new[j]
            BY <1>1, EnteredBefore
        <2>2. /\ \A i, j \in DOMAIN new : new[i] = new[j] => i = j
              /\ \A j \in DOMAIN new : outs[new[j]].status = "Unconfirmed"
            BY <2>1 DEF Updated, Refreshed
        <2>3. \A b \in Accounts : \A i \in DOMAIN log[b] : \A j \in DOMAIN new :
                log[b][i].type = "ConfirmedCoinbase" => log[b][i].key # new[j]
            BY <2>2 DEF EnteredCoinbaseIsKept
        <2>4. QED
            BY <2>1, <2>2, <2>3 DEF CoinbaseEnteredOnce
    <1>2. CASE \A new : ~Updated(new)
        <2>1. \A b \in Accounts : \A i \in DOMAIN log'[b] :
                log'[b][i].type = "ConfirmedCoinbase" =>
                    i \in DOMAIN log[b] /\ log'[b][i] = log[b][i]
            BY <1>2, EnteredBefore
        <2>2. QED
            BY <2>1 DEF CoinbaseEnteredOnce
    <1>3. QED
        BY <1>1, <1>2

LEMMA IInvStep == IInv /\ [Next]_vars => IInv'
    <1> SUFFICES ASSUME IInv, [Next]_vars PROVE IInv'
        OBVIOUS
    <1>1. /\ TypeOK /\ Shapes /\ KeysInv /\ LinkInv /\ HeightsInv /\ SendsInv
          /\ ConfirmedWasMined /\ CoinbaseEnteredOnce /\ EnteredCoinbaseIsKept
        BY DEF IInv
    <1>2. TypeOK' /\ Shapes' /\ KeysInv' /\ LinkInv' /\ HeightsInv' /\ SendsInv'
        BY <1>1, TypesStep, KeysStep, LinkStep, HeightsStep, SendsStep
    <1>3. ConfirmedWasMined' /\ CoinbaseEnteredOnce' /\ EnteredCoinbaseIsKept'
        BY <1>1, MinedStep, OnceStep, KeptStep
    <1>4. QED
        BY <1>2, <1>3 DEF IInv

LEMMA IInvHolds == Spec => []IInv
    BY InitIInv, IInvStep, PTL DEF Spec

-----------------------------------------------------------------------------
(* The theorems.                                                           *)

\* The records keep their shapes, and an output names an entry of its account
\* that is there.
THEOREM RefreshTyped == Spec => []TypeOK
    <1>1. IInv => TypeOK
        BY DEF IInv
    <1>2. QED
        BY <1>1, IInvHolds, PTL

\* apply_api_outputs enters a coinbase output into the log once, whatever the
\* chain loses and finds again.
THEOREM CoinbaseIsEnteredOnce == Spec => []CoinbaseEnteredOnce
    <1>1. IInv => CoinbaseEnteredOnce
        BY DEF IInv
    <1>2. QED
        BY <1>1, IInvHolds, PTL

\* A confirmed entry is about an output that has been on the chain.
THEOREM ConfirmedEntryWasMined == Spec => []ConfirmedWasMined
    <1>1. IInv => ConfirmedWasMined
        BY DEF IInv
    <1>2. QED
        BY <1>1, IInvHolds, PTL

\* clean_old_unconfirmed never drops a coinbase that a refresh has entered.
THEOREM EnteredIsKept == Spec => []EnteredCoinbaseIsKept
    <1>1. IInv => EnteredCoinbaseIsKept
        BY DEF IInv
    <1>2. QED
        BY <1>1, IInvHolds, PTL

\* retrieve_info counts as spendable what select_coins may take, and no more.
THEOREM SpendableMayBeSelected == Spec => []SpendableIsEligible
    <1>1. IInv => SpendableIsEligible
        <2> SUFFICES ASSUME IInv, NEW k \in DOMAIN outs, NEW now \in Height, NEW min \in 1 .. 2
                     PROVE  CurrentlySpendable(outs[k], now, min) <=>
                              outs[k].status = "Unspent" /\ EligibleToSpend(outs[k], now, min)
            BY DEF SpendableIsEligible
        <2>1. outs[k].lock \in Nat /\ outs[k].coinbase \in BOOLEAN
            BY DEF IInv, TypeOK, OutputData
        <2>2. ~outs[k].coinbase => outs[k].lock = 0
            BY DEF IInv, HeightsInv
        <2>3. now \in Nat
            BY RefreshAssumption DEF RefreshAssumption, Height
        <2>4. outs[k].lock <= now <=> ~(outs[k].coinbase /\ outs[k].lock > now)
            BY <2>1, <2>2, <2>3
        <2>5. QED
            BY <2>4 DEF CurrentlySpendable, EligibleToSpend
    <1>2. QED
        BY <1>1, IInvHolds, PTL

\* While no block is lost from when new_tx_slate took the height, a coinbase that
\* select_coins has put into a context is mature, whatever account it is of and
\* however often refreshes, templates of the miner and locks came in between.
THEOREM SelectedCoinbaseIsMature == Spec => []SelectedIsMature
    <1>1. IInv => SelectedIsMature
        <2> SUFFICES ASSUME IInv, NEW c \in contexts, c.losses = losses,
                            c.key \in Utxo, outs[c.key].coinbase
                     PROVE  Top >= Born(c.key) + Maturity
            BY DEF SelectedIsMature
        <2>1. c.key \in DOMAIN outs /\ outs[c.key].lock <= Top
            BY DEF IInv, SendsInv
        <2>2. Born(c.key) \in DOMAIN chain /\ c.key \in chain[Born(c.key)].new
            BY UtxoWasMined DEF IInv
        <2>3. outs[c.key].lock = LockHeight(Born(c.key))
            BY <2>1, <2>2 DEF IInv, HeightsInv
        <2>4. Born(c.key) \in Nat /\ Top \in Nat /\ Maturity \in Nat
            BY <2>2, LenProperties, RefreshAssumption DEF RefreshAssumption, IInv, TypeOK, Height
        <2>5. QED
            BY <2>1, <2>3, <2>4 DEF LockHeight
    <1>2. QED
        BY <1>1, IInvHolds, PTL
=============================================================================
