------------------------- MODULE WalletLedgerProofs -------------------------
(***************************************************************************)
(* What holds of WalletLedger for every value of its constants.            *)
(***************************************************************************)
EXTENDS WalletLedger, SequenceTheorems, TLAPS

-----------------------------------------------------------------------------
(* The refresh changes statuses and confirmed flags and nothing else.      *)

\* The part of Shapes that speaks of the outputs and of the log.
TypedDb(outs, log) ==
    /\ outs \in [DOMAIN outs -> OutputData]
    /\ DOMAIN outs \subseteq Key
    /\ log \in [Accounts -> Seq(TxLogEntry)]

\* refresh_outputs keeps the account and the log entry of every output.
LEMMA RefreshedOutputsTyped ==
    ASSUME Shapes, NEW a
    PROVE  /\ RefreshedOutputs(a) \in [DOMAIN outputs -> OutputData]
           /\ DOMAIN RefreshedOutputs(a) = DOMAIN outputs
           /\ \A k \in DOMAIN outputs :
                /\ RefreshedOutputs(a)[k].acct = outputs[k].acct
                /\ RefreshedOutputs(a)[k].tx = outputs[k].tx
    <1>1. ASSUME NEW k \in DOMAIN outputs
          PROVE  /\ RefreshedOutputs(a)[k] \in OutputData
                 /\ RefreshedOutputs(a)[k].acct = outputs[k].acct
                 /\ RefreshedOutputs(a)[k].tx = outputs[k].tx
        <2>1. outputs[k] \in OutputData
            BY DEF Shapes
        <2>2. CASE k \notin Refreshable(a)
            BY <2>1, <2>2 DEF RefreshedOutputs
        <2>3. CASE k \in Refreshable(a)
            <3> DEFINE st == IF k \in utxo THEN MarkUnspent(outputs[k].status)
                                           ELSE MarkSpent(outputs[k].status)
            <3>1. RefreshedOutputs(a)[k] = [outputs[k] EXCEPT !.status = st]
                BY <2>3 DEF RefreshedOutputs
            <3>2. st \in Status
                BY <2>1 DEF OutputData, Status, MarkUnspent, MarkSpent
            <3> HIDE DEF st
            <3>3. QED
                BY <2>1, <3>1, <3>2 DEF OutputData
        <2>4. QED
            BY <2>2, <2>3
    <1>2. DOMAIN RefreshedOutputs(a) = DOMAIN outputs
        BY DEF RefreshedOutputs
    <1>3. RefreshedOutputs(a) \in [DOMAIN outputs -> OutputData]
        BY <1>1, <1>2 DEF RefreshedOutputs
    <1>4. QED
        BY <1>1, <1>2, <1>3

\* apply_api_outputs keeps the length of every account's log and the type and
\* the slate of every entry; an entry it confirms was outstanding.
LEMMA RefreshedLogTyped ==
    ASSUME Shapes, NEW a \in Accounts
    PROVE  /\ RefreshedLog(a) \in [Accounts -> Seq(TxLogEntry)]
           /\ \A b \in Accounts :
                /\ DOMAIN RefreshedLog(a)[b] = DOMAIN txlog[b]
                /\ Len(RefreshedLog(a)[b]) = Len(txlog[b])
                /\ \A i \in DOMAIN txlog[b] :
                    /\ RefreshedLog(a)[b][i].type = txlog[b][i].type
                    /\ RefreshedLog(a)[b][i].slate = txlog[b][i].slate
                    /\ RefreshedLog(a)[b][i] # txlog[b][i] => Confirms(a, i) /\ b = a
    <1> DEFINE entry(i) == [txlog[a][i] EXCEPT !.confirmed = @ \/ Confirms(a, i)]
               new == [i \in DOMAIN txlog[a] |-> entry(i)]
    <1>1. /\ txlog \in [Accounts -> Seq(TxLogEntry)]
          /\ txlog[a] \in Seq(TxLogEntry)
        BY DEF Shapes
    <1>2. RefreshedLog(a) = [txlog EXCEPT ![a] = new]
        BY DEF RefreshedLog
    <1>3. ASSUME NEW i \in DOMAIN txlog[a]
          PROVE  /\ entry(i) \in TxLogEntry
                 /\ entry(i).type = txlog[a][i].type
                 /\ entry(i).slate = txlog[a][i].slate
                 /\ entry(i) # txlog[a][i] => Confirms(a, i)
        <2>1. txlog[a][i] \in TxLogEntry
            BY <1>1, LenProperties, ElementOfSeq
        <2>2. Confirms(a, i) \in BOOLEAN
            BY DEF Confirms
        <2> DEFINE c == Confirms(a, i)
        <2>3. c \in BOOLEAN
            BY <2>2
        <2> HIDE DEF c
        <2>4. entry(i) = [txlog[a][i] EXCEPT !.confirmed = txlog[a][i].confirmed \/ c]
            BY DEF c
        <2>5. ~c => entry(i) = txlog[a][i]
            BY <2>1, <2>3, <2>4 DEF TxLogEntry
        <2>6. (txlog[a][i].confirmed \/ c) \in BOOLEAN
            OBVIOUS
        <2>7. /\ entry(i) \in TxLogEntry
              /\ entry(i).type = txlog[a][i].type
              /\ entry(i).slate = txlog[a][i].slate
            BY <2>1, <2>4, <2>6 DEF TxLogEntry
        <2>8. QED
            BY <2>5, <2>7 DEF c
    <1>4. DOMAIN txlog[a] = 1 .. Len(txlog[a]) /\ Len(txlog[a]) \in Nat
        BY <1>1, LenProperties
    <1> HIDE DEF entry
    <1>5. /\ new \in Seq(TxLogEntry)
          /\ DOMAIN new = DOMAIN txlog[a]
          /\ Len(new) = Len(txlog[a])
        <2>1. new \in [1 .. Len(txlog[a]) -> TxLogEntry]
            BY <1>3, <1>4
        <2>2. new \in Seq(TxLogEntry)
            BY <1>4, <2>1, SeqDef
        <2>3. QED
            BY <1>4, <2>1, <2>2, LenProperties
    <1>6. ASSUME NEW i \in DOMAIN txlog[a]
          PROVE  new[i] = entry(i)
        OBVIOUS
    <1> HIDE DEF new
    <1>7. QED
        BY <1>1, <1>2, <1>3, <1>5, <1>6

LEMMA RefreshTyped ==
    ASSUME Shapes, NEW a \in Accounts
    PROVE  TypedDb(RefreshedOutputs(a), RefreshedLog(a))
    BY RefreshedOutputsTyped, RefreshedLogTyped DEF TypedDb, Shapes

\* save_tx_log_entry appends to one account's log and leaves the rest alone.
LEMMA AddToLogTyped ==
    ASSUME Shapes, NEW a \in Accounts, NEW type \in TxType, NEW s \in Slates,
           AddToLog(a, type, s)
    PROVE  /\ txlog' \in [Accounts -> Seq(TxLogEntry)]
           /\ Len(txlog[a]) \in Nat
           /\ DOMAIN txlog'[a] = DOMAIN txlog[a] \cup {Len(txlog[a]) + 1}
           /\ Len(txlog[a]) + 1 \notin DOMAIN txlog[a]
           /\ txlog'[a][Len(txlog[a]) + 1] =
                    [type |-> type, slate |-> s, confirmed |-> FALSE]
           /\ \A i \in DOMAIN txlog[a] : txlog'[a][i] = txlog[a][i]
           /\ \A b \in Accounts \ {a} : txlog'[b] = txlog[b]
           /\ \A b \in Accounts : DOMAIN txlog[b] \subseteq DOMAIN txlog'[b]
    <1> DEFINE e == [type |-> type, slate |-> s, confirmed |-> FALSE]
    <1>1. txlog \in [Accounts -> Seq(TxLogEntry)] /\ txlog[a] \in Seq(TxLogEntry)
        BY DEF Shapes
    <1>2. e \in TxLogEntry
        BY DEF TxLogEntry
    <1>3. txlog' = [txlog EXCEPT ![a] = Append(txlog[a], e)]
        BY DEF AddToLog
    <1> HIDE DEF e
    <1>4. /\ Append(txlog[a], e) \in Seq(TxLogEntry)
          /\ Len(Append(txlog[a], e)) = Len(txlog[a]) + 1
          /\ \A i \in 1 .. Len(txlog[a]) : Append(txlog[a], e)[i] = txlog[a][i]
          /\ Append(txlog[a], e)[Len(txlog[a]) + 1] = e
        BY <1>1, <1>2, AppendProperties
    <1>5. /\ txlog'[a] = Append(txlog[a], e)
          /\ \A b \in Accounts \ {a} : txlog'[b] = txlog[b]
          /\ txlog' \in [Accounts -> Seq(TxLogEntry)]
        BY <1>1, <1>3, <1>4
    <1>6. /\ Len(txlog[a]) \in Nat
          /\ DOMAIN txlog[a] = 1 .. Len(txlog[a])
          /\ DOMAIN txlog'[a] = 1 .. Len(txlog[a]) + 1
        BY <1>1, <1>4, <1>5, LenProperties
    <1> DEFINE n == Len(txlog[a])
    <1>7. /\ n \in Nat
          /\ DOMAIN txlog'[a] = DOMAIN txlog[a] \cup {n + 1}
          /\ n + 1 \notin DOMAIN txlog[a]
        BY <1>6
    <1>8. txlog'[a][n + 1] = e /\ \A i \in DOMAIN txlog[a] : txlog'[a][i] = txlog[a][i]
        BY <1>4, <1>5, <1>6
    <1>9. ASSUME NEW b \in Accounts
          PROVE  DOMAIN txlog[b] \subseteq DOMAIN txlog'[b]
        BY <1>5, <1>7
    <1>10. QED
        BY <1>5, <1>7, <1>8, <1>9 DEF e

-----------------------------------------------------------------------------
(* Typing.                                                                 *)

LEMMA ShapesInit == Init => Shapes
    <1> SUFFICES ASSUME Init PROVE Shapes
        OBVIOUS
    <1> USE LedgerAssumption DEF LedgerAssumption
    <1>1. Coins \subseteq Key
        BY DEF Coins, Key
    <1> DEFINE e == [type |-> "TxReceived", slate |-> NoSlate, confirmed |-> TRUE]
    <1>2. e \in TxLogEntry
        BY DEF TxLogEntry, TxType
    <1> HIDE DEF e
    <1>3. /\ <<e>> \in Seq(TxLogEntry) /\ DOMAIN <<e>> = 1 .. 1
          /\ << >> \in Seq(TxLogEntry)
        BY <1>2
    <1>4. /\ txlog \in [Accounts -> Seq(TxLogEntry)]
          /\ txlog[Default] = <<e>>
        BY <1>3 DEF Init, e
    <1>5. /\ outputs \in [DOMAIN outputs -> OutputData]
          /\ DOMAIN outputs \subseteq Key
        BY <1>1, <1>3, <1>4 DEF Init, OutputData, Status
    <1>6. childIdx \in [Accounts -> Nat]
        BY DEF Init
    <1>7. /\ stored \in [OwnSlates -> StoredTx]
          /\ slates \in [OwnSlates -> SendSlate]
          /\ replies \in [Slates -> SUBSET Key]
        BY DEF Init, StoredTx, NotStored, SendSlate, Blank
    <1>8. QED
        BY <1>1, <1>4, <1>5, <1>6, <1>7 DEF Init, Shapes

\* Derived keys are keys, and the index stays a natural number.
LEMMA DeriveKeysTyped ==
    ASSUME Shapes, NEW n \in Nat, DeriveKeys(n)
    PROVE  /\ NewKeys(n) \subseteq Key
           /\ childIdx' \in [Accounts -> Nat]
    BY DEF Shapes, DeriveKeys, NewKeys, Key

LEMMA ShapesNext == Shapes /\ [Next]_vars => Shapes'
    <1> SUFFICES ASSUME Shapes, [Next]_vars
                 PROVE  Shapes'
        OBVIOUS
    <1> USE LedgerAssumption DEF LedgerAssumption
    <1>db. TypedDb(outputs, txlog)
        BY DEF Shapes, TypedDb
    <1>rest. /\ childIdx \in [Accounts -> Nat]
             /\ contexts \subseteq OwnSlates
             /\ stored \in [OwnSlates -> StoredTx]
             /\ active \in Accounts
             /\ slates \in [OwnSlates -> SendSlate]
             /\ replies \in [Slates -> SUBSET Key]
             /\ final \cup pool \cup mined \subseteq Transaction
             /\ utxo \subseteq Key
        BY DEF Shapes
    <1>1. ASSUME NEW s \in OwnSlates, NEW a \in Accounts, InitSendTx(s, a)
          PROVE  Shapes'
        <2>1. PICK ins \in (SUBSET Eligible(outputs', a)) \ {{}}, n \in ChangeCounts :
                /\ DeriveKeys(n)
                /\ slates' = [slates EXCEPT ![s] =
                                [acct |-> a, inputs |-> ins, change |-> NewKeys(n)]]
            BY <1>1 DEF InitSendTx
        <2>2. TypedDb(outputs', txlog')
            BY <1>1, RefreshTyped DEF InitSendTx
        <2>3. ins \in SUBSET Key
            BY <2>2 DEF TypedDb, Eligible
        <2>4. NewKeys(n) \subseteq Key /\ childIdx' \in [Accounts -> Nat]
            BY <2>1, DeriveKeysTyped
        <2>5. slates' \in [OwnSlates -> SendSlate]
            BY <1>rest, <2>1, <2>3, <2>4 DEF SendSlate
        <2>6. QED
            BY <1>1, <1>rest, <2>2, <2>4, <2>5 DEF Shapes, TypedDb, InitSendTx, node
    <1>2. ASSUME NEW a \in Accounts, InitSendTxFails(a)
          PROVE  Shapes'
        <2>1. TypedDb(outputs', txlog')
            BY <1>2, RefreshTyped DEF InitSendTxFails
        <2>2. childIdx' \in [Accounts -> Nat]
            BY <1>2, DeriveKeysTyped DEF InitSendTxFails
        <2>3. QED
            BY <1>2, <1>rest, <2>1, <2>2 DEF Shapes, TypedDb, InitSendTxFails, world, node
    <1>3. ASSUME NEW s \in OwnSlates, TxLockOutputs(s)
          PROVE  Shapes'
        <2> DEFINE a == slates[s].acct
                   id == Len(txlog[a]) + 1
        <2>1. a \in Accounts /\ slates[s].change \subseteq Key
            BY <1>rest DEF SendSlate
        <2>2. AddToLog(a, "TxSent", s)
            BY <1>3 DEF TxLockOutputs
        <2>3. txlog' \in [Accounts -> Seq(TxLogEntry)] /\ id \in Nat
            <3>1. "TxSent" \in TxType /\ s \in Slates
                BY DEF TxType, Slates
            <3> HIDE DEF a
            <3>2. txlog' \in [Accounts -> Seq(TxLogEntry)] /\ Len(txlog[a]) \in Nat
                BY <2>1, <2>2, <3>1, AddToLogTyped
            <3>3. QED
                BY <3>2
        <2>4. outputs' = [k \in DOMAIN outputs \cup slates[s].change |->
                            IF k \in slates[s].change
                            THEN [acct |-> a, status |-> "Unconfirmed", tx |-> id]
                            ELSE IF k \in slates[s].inputs
                            THEN [outputs[k] EXCEPT !.status = "Locked", !.tx = id]
                            ELSE outputs[k]]
            BY <1>3 DEF TxLockOutputs
        <2> HIDE DEF a, id
        <2>5. ASSUME NEW k \in DOMAIN outputs'
              PROVE  outputs'[k] \in OutputData
            <3>1. CASE k \in slates[s].change
                BY <2>1, <2>3, <2>4, <3>1 DEF OutputData, Status
            <3>2. CASE k \notin slates[s].change
                BY <1>db, <2>3, <2>4, <3>2 DEF TypedDb, OutputData, Status
            <3>3. QED
                BY <3>1, <3>2
        <2>6. TypedDb(outputs', txlog')
            BY <1>db, <2>1, <2>3, <2>4, <2>5 DEF TypedDb
        <2>7. QED
            BY <1>3, <1>rest, <2>6
               DEF Shapes, TypedDb, TxLockOutputs, StoredTx, Partial, world, node
    <1>4. ASSUME NEW s \in OwnSlates, TxLockOutputsCrash(s)
          PROVE  Shapes'
        BY <1>4, <1>db, <1>rest
           DEF Shapes, TypedDb, TxLockOutputsCrash, StoredTx, Partial, world, node
    <1>5. ASSUME NEW s \in OwnSlates, NEW r \in Answers(s),
                 FinalizeTx(s, r) \/ FinalizeTxCrash(s, r)
          PROVE  Shapes'
        <2>1. r \subseteq Key
            BY <1>rest DEF Answers, Slates
        <2>2. [slate |-> s, reply |-> r] \in Transaction
            BY <2>1 DEF Transaction, Slates
        <2>3. [form |-> "final", reply |-> r] \in StoredTx
            BY <2>1 DEF StoredTx
        <2>4. QED
            BY <1>5, <1>db, <1>rest, <2>2, <2>3
               DEF Shapes, TypedDb, FinalizeTx, FinalizeTxCrash, world, node
    <1>6. ASSUME NEW s \in Slates, NEW a \in Accounts,
                 ReceiveTx(s, a) \/ ReceiveTxFails(s, a)
          PROVE  Shapes'
        <2> DEFINE id == Len(txlog[a]) + 1
        <2>1. /\ DeriveKeys(1)
              /\ AddToLog(a, "TxReceived", s)
              /\ outputs' = [k \in DOMAIN outputs \cup NewKeys(1) |->
                                IF k \in NewKeys(1)
                                THEN [acct |-> a, status |-> "Unconfirmed", tx |-> id]
                                ELSE outputs[k]]
            BY <1>6 DEF ReceiveTx, ReceiveTxFails, BuildRecipientOutput
        <2>2. NewKeys(1) \subseteq Key /\ childIdx' \in [Accounts -> Nat]
            BY <2>1, DeriveKeysTyped
        <2>3. txlog' \in [Accounts -> Seq(TxLogEntry)] /\ id \in Nat
            <3>1. "TxReceived" \in TxType
                BY DEF TxType
            <3>2. txlog' \in [Accounts -> Seq(TxLogEntry)] /\ Len(txlog[a]) \in Nat
                BY <2>1, <3>1, AddToLogTyped
            <3>3. QED
                BY <3>2
        <2> HIDE DEF id
        <2>4. \A k \in DOMAIN outputs' : outputs'[k] \in OutputData
            BY <1>db, <2>1, <2>3 DEF TypedDb, OutputData, Status
        <2>5. TypedDb(outputs', txlog')
            BY <1>db, <2>1, <2>2, <2>3, <2>4 DEF TypedDb
        <2>6. replies' \in [Slates -> SUBSET Key]
            BY <1>6, <1>rest, <2>2 DEF ReceiveTx, ReceiveTxFails, world
        <2>7. QED
            BY <1>6, <1>rest, <2>2, <2>5, <2>6
               DEF Shapes, TypedDb, ReceiveTx, ReceiveTxFails, world, node
    <1>7. CASE Refresh
        BY <1>7, <1>rest, RefreshTyped DEF Shapes, TypedDb, Refresh, world, node
    <1>8. ASSUME NEW i \in DOMAIN txlog[active], CancelTx(i)
          PROVE  Shapes'
        <2> DEFINE outs == RefreshedOutputs(active)
                   log == RefreshedLog(active)
                   deleted == {k \in Involved(outs, i) : outs[k].status = "Unconfirmed"}
        <2>1. /\ outputs' = [k \in DOMAIN outs \ deleted |->
                                IF k \in Involved(outs, i) THEN Unlock(outs[k]) ELSE outs[k]]
              /\ txlog' = [log EXCEPT ![active][i].type =
                        IF @ = "TxSent" THEN "TxSentCancelled" ELSE "TxReceivedCancelled"]
            BY <1>8 DEF CancelTx
        <2>2. TypedDb(outs, log)
            BY <1>rest, RefreshTyped
        <2>3. i \in DOMAIN log[active]
            BY <1>rest, RefreshedLogTyped
        <2> HIDE DEF outs, log, deleted
        <2>4. \A k \in DOMAIN outputs' : outputs'[k] \in OutputData
            BY <2>1, <2>2 DEF TypedDb, Unlock, OutputData, Status
        <2>5. txlog' \in [Accounts -> Seq(TxLogEntry)]
            <3> DEFINE t == IF log[active][i].type = "TxSent"
                            THEN "TxSentCancelled" ELSE "TxReceivedCancelled"
                       e == [log[active][i] EXCEPT !.type = t]
            <3>1. log[active] \in Seq(TxLogEntry) /\ log[active][i] \in TxLogEntry
                BY <1>rest, <2>2, <2>3, LenProperties, ElementOfSeq DEF TypedDb
            <3>2. e \in TxLogEntry
                BY <3>1 DEF TxLogEntry, TxType
            <3>3. txlog' = [log EXCEPT ![active] = [log[active] EXCEPT ![i] = e]]
                BY <2>1
            <3> HIDE DEF e
            <3>4. [log[active] EXCEPT ![i] = e] \in Seq(TxLogEntry)
                BY <2>3, <3>1, <3>2, LenProperties, ExceptSeq
            <3>5. QED
                BY <2>2, <3>3, <3>4 DEF TypedDb
        <2>6. TypedDb(outputs', txlog')
            BY <2>1, <2>2, <2>4, <2>5 DEF TypedDb
        <2>7. QED
            BY <1>8, <1>rest, <2>6 DEF Shapes, TypedDb, CancelTx, world, node
    <1>9. ASSUME NEW i \in DOMAIN txlog[active], RepostTx(i)
          PROVE  Shapes'
        <2> DEFINE s == RefreshedLog(active)[active][i].slate
                   t == [slate |-> s, reply |-> stored[s].reply]
        <2>1. TypedDb(outputs', txlog')
            BY <1>9, <1>rest, RefreshTyped DEF RepostTx
        <2>2. s \in OwnSlates /\ pool' = pool \cup {t}
            BY <1>9 DEF RepostTx
        <2>3. t \in Transaction
            BY <1>rest, <2>2 DEF StoredTx, Transaction, Slates
        <2>4. QED
            BY <1>9, <1>rest, <2>1, <2>2, <2>3 DEF Shapes, TypedDb, RepostTx, world
    <1>10. ASSUME NEW t \in final \ pool, PostTx(t)
           PROVE  Shapes'
        BY <1>10, <1>db, <1>rest DEF Shapes, TypedDb, PostTx, db, world
    <1>11. ASSUME NEW t \in Transaction, Mine(t)
           PROVE  Shapes'
        <2>1. Created(t) \subseteq Key
            BY <1>rest DEF Created, Transaction, SendSlate
        <2>2. QED
            BY <1>11, <1>db, <1>rest, <2>1 DEF Shapes, TypedDb, Mine, db, world
    <1>12. ASSUME NEW s \in ForeignSlates, NEW k \in replies[s], MineForeign(s, k)
           PROVE  Shapes'
        <2>1. [slate |-> s, reply |-> {k}] \in Transaction
            BY <1>rest DEF Transaction, Slates
        <2>2. QED
            BY <1>11, <1>12, <2>1 DEF MineForeign
    <1>13. ASSUME NEW a \in Accounts, SetActiveAccount(a)
           PROVE  Shapes'
        BY <1>13, <1>db, <1>rest DEF Shapes, TypedDb, SetActiveAccount, db, world, node
    <1>14. CASE UNCHANGED vars
        BY <1>14, <1>db, <1>rest DEF Shapes, TypedDb, vars, db, world, node
    <1>15. QED
        BY <1>rest, <1>1, <1>2, <1>3, <1>4, <1>5, <1>6, <1>7, <1>8, <1>9, <1>10, <1>11,
           <1>12, <1>13, <1>14 DEF Next, Send, Receive, Settle, Environment

LEMMA ShapesInvariant == Spec => []Shapes
    BY ShapesInit, ShapesNext, PTL DEF Spec

-----------------------------------------------------------------------------
(* Keys are fresh.  NoKeyReuse is inductive once it is known that a        *)
(* transaction only carries answers this wallet gave for its slate.        *)

KeysInv ==
    /\ NoKeyReuse
    /\ \A t \in final \cup pool : t.reply \subseteq replies[t.slate]
    /\ \A s \in OwnSlates : stored[s].reply \subseteq replies[s]

\* next_child moves the index past the keys it hands out, and no others.
LEMMA DerivedGrows ==
    ASSUME Shapes, NEW n \in Nat, DeriveKeys(n)
    PROVE  /\ Derived' = Derived \cup NewKeys(n)
           /\ Derived \cap NewKeys(n) = {}
    <1>1. childIdx \in [Accounts -> Nat] /\ active \in Accounts
        BY DEF Shapes
    <1>2. childIdx' = [childIdx EXCEPT ![active] = @ + n]
        BY DEF DeriveKeys
    <1> DEFINE old(b) == 0 .. childIdx[b] - 1
               new(b) == 0 .. childIdx'[b] - 1
               range == childIdx[active] .. childIdx[active] + n - 1
    <1>3. Derived = UNION {{b} \X old(b) : b \in Accounts}
        BY DEF Derived
    <1>4. Derived' = UNION {{b} \X new(b) : b \in Accounts}
        BY DEF Derived
    <1>5. ASSUME NEW b \in Accounts
          PROVE  new(b) = old(b) \cup (IF b = active THEN range ELSE {})
        BY <1>1, <1>2
    <1>6. old(active) \cap range = {}
        BY <1>1
    <1>7. NewKeys(n) = {active} \X range
        BY DEF NewKeys
    <1> HIDE DEF old, new, range
    <1>8. Derived' = Derived \cup NewKeys(n)
        <2>1. ASSUME NEW k \in Derived' PROVE k \in Derived \cup NewKeys(n)
            BY <1>3, <1>4, <1>5, <1>7
        <2>2. ASSUME NEW k \in Derived \cup NewKeys(n) PROVE k \in Derived'
            BY <1>1, <1>3, <1>4, <1>5, <1>7
        <2>3. QED
            BY <2>1, <2>2
    <1>9. Derived \cap NewKeys(n) = {}
        BY <1>1, <1>3, <1>6, <1>7
    <1>10. QED
        BY <1>8, <1>9

LEMMA KeysInit == Init => KeysInv
    <1> SUFFICES ASSUME Init PROVE KeysInv
        OBVIOUS
    <1>1. Coins \subseteq Derived
        BY LedgerAssumption DEF LedgerAssumption, Init, Coins, Derived
    <1>2. QED
        BY <1>1 DEF Init, KeysInv, NoKeyReuse, Blank, NotStored

\* A call that derives no key, signs no answer and adds only known keys to the
\* database or to the chain keeps KeysInv.
LEMMA KeysKept ==
    ASSUME KeysInv,
           DOMAIN outputs' \cup utxo' \subseteq Derived,
           \A t \in (final \cup pool)' : t.reply \subseteq replies[t.slate],
           \A s \in OwnSlates : stored'[s].reply \subseteq replies[s],
           UNCHANGED <<childIdx, slates, replies>>
    PROVE  KeysInv'
    BY DEF KeysInv, NoKeyReuse, Derived

LEMMA KeysNext == Shapes /\ KeysInv /\ [Next]_vars => KeysInv'
    <1> SUFFICES ASSUME Shapes, KeysInv, [Next]_vars
                 PROVE  KeysInv'
        OBVIOUS
    <1>inv. /\ DOMAIN outputs \cup utxo \subseteq Derived
            /\ \A s \in OwnSlates : slates[s].change \subseteq Derived
            /\ \A s \in Slates : replies[s] \subseteq Derived
            /\ \A t \in final \cup pool : t.reply \subseteq replies[t.slate]
            /\ \A s \in OwnSlates : stored[s].reply \subseteq replies[s]
        BY DEF KeysInv, NoKeyReuse
    <1>1. ASSUME NEW s \in OwnSlates, NEW a \in Accounts, InitSendTx(s, a)
          PROVE  KeysInv'
        <2>1. PICK ins \in (SUBSET Eligible(outputs', a)) \ {{}}, n \in ChangeCounts :
                /\ DeriveKeys(n)
                /\ slates' = [slates EXCEPT ![s] =
                                [acct |-> a, inputs |-> ins, change |-> NewKeys(n)]]
            BY <1>1 DEF InitSendTx
        <2>2. Derived' = Derived \cup NewKeys(n) /\ Derived \cap NewKeys(n) = {}
            BY <2>1, DerivedGrows, LedgerAssumption DEF LedgerAssumption
        <2>3. /\ DOMAIN outputs' = DOMAIN outputs
              /\ UNCHANGED <<stored, replies, final, pool, utxo>>
            BY <1>1, RefreshedOutputsTyped DEF InitSendTx, node
        <2>4. \A t \in OwnSlates :
                slates'[t].change = IF t = s THEN NewKeys(n) ELSE slates[t].change
            BY <2>1 DEF Shapes
        <2>5. QED
            BY <2>2, <2>3, <2>4 DEF KeysInv, NoKeyReuse
    <1>2. ASSUME NEW a \in Accounts, InitSendTxFails(a)
          PROVE  KeysInv'
        <2>1. PICK n \in ChangeCounts \cup {0} : DeriveKeys(n)
            BY <1>2 DEF InitSendTxFails
        <2>2. Derived \subseteq Derived'
            BY <2>1, DerivedGrows, LedgerAssumption DEF LedgerAssumption
        <2>3. /\ DOMAIN outputs' = DOMAIN outputs
              /\ UNCHANGED <<stored, slates, replies, final, pool, utxo>>
            BY <1>2, RefreshedOutputsTyped DEF InitSendTxFails, world, node
        <2>4. QED
            BY <2>2, <2>3 DEF KeysInv, NoKeyReuse
    <1>3. ASSUME NEW s \in OwnSlates, TxLockOutputs(s) \/ TxLockOutputsCrash(s)
          PROVE  KeysInv'
        <2>1. DOMAIN outputs' \subseteq DOMAIN outputs \cup slates[s].change
            BY <1>3 DEF TxLockOutputs, TxLockOutputsCrash
        <2>2. stored' = [stored EXCEPT ![s] = Partial]
            BY <1>3 DEF TxLockOutputs, TxLockOutputsCrash
        <2>3. \A u \in OwnSlates : stored'[u].reply \subseteq replies[u]
            BY <1>inv, <2>2 DEF Shapes, Partial
        <2>4. UNCHANGED <<childIdx, world, node>>
            BY <1>3 DEF TxLockOutputs, TxLockOutputsCrash
        <2>5. QED
            BY <1>inv, <2>1, <2>3, <2>4, KeysKept DEF world, node
    <1>4. ASSUME NEW s \in OwnSlates, NEW r \in Answers(s),
                 FinalizeTx(s, r) \/ FinalizeTxCrash(s, r)
          PROVE  KeysInv'
        <2>1. r \subseteq replies[s]
            BY DEF Answers
        <2>2. /\ stored' = [stored EXCEPT ![s] = [form |-> "final", reply |-> r]]
              /\ final' \subseteq final \cup {[slate |-> s, reply |-> r]}
              /\ UNCHANGED <<outputs, childIdx, slates, replies, pool, utxo>>
            BY <1>4 DEF FinalizeTx, FinalizeTxCrash, world, node
        <2>3. \A u \in OwnSlates : stored'[u].reply \subseteq replies[u]
            BY <1>inv, <2>1, <2>2 DEF Shapes
        <2>4. \A t \in (final \cup pool)' : t.reply \subseteq replies[t.slate]
            BY <1>inv, <2>1, <2>2
        <2>5. QED
            BY <1>inv, <2>2, <2>3, <2>4, KeysKept
    <1>5. ASSUME NEW s \in Slates, NEW a \in Accounts,
                 ReceiveTx(s, a) \/ ReceiveTxFails(s, a)
          PROVE  KeysInv'
        <2>1. /\ DeriveKeys(1)
              /\ DOMAIN outputs' = DOMAIN outputs \cup NewKeys(1)
              /\ UNCHANGED <<stored, slates, final, pool, utxo>>
            BY <1>5 DEF ReceiveTx, ReceiveTxFails, BuildRecipientOutput, world, node
        <2>2. Derived' = Derived \cup NewKeys(1) /\ Derived \cap NewKeys(1) = {}
            BY <2>1, DerivedGrows
        <2>3. \A t \in Slates :
                replies[t] \subseteq replies'[t] /\ replies'[t] \subseteq replies[t] \cup NewKeys(1)
            BY <1>5 DEF ReceiveTx, ReceiveTxFails, world, Shapes
        <2>4. \A t \in Slates \ {s} : replies'[t] = replies[t]
            BY <1>5 DEF ReceiveTx, ReceiveTxFails, world, Shapes
        <2>5. \A t \in OwnSlates : t \in Slates
            BY DEF Slates
        <2>6. \A t \in final \cup pool : t.slate \in Slates
            BY DEF Shapes, Transaction
        <2>7. NoKeyReuse'
            <3>1. DOMAIN outputs' \cup utxo' \subseteq Derived'
                BY <1>inv, <2>1, <2>2
            <3>2. \A u \in OwnSlates :
                    /\ slates'[u].change \subseteq Derived'
                    /\ \A t \in OwnSlates \ {u} : slates'[u].change \cap slates'[t].change = {}
                    /\ \A t \in Slates : slates'[u].change \cap replies'[t] = {}
                BY <1>inv, <2>1, <2>2, <2>3 DEF KeysInv, NoKeyReuse
            <3>3. \A u \in Slates :
                    /\ replies'[u] \subseteq Derived'
                    /\ \A t \in Slates \ {u} : replies'[u] \cap replies'[t] = {}
                BY <1>inv, <2>2, <2>3, <2>4 DEF KeysInv, NoKeyReuse
            <3>4. QED
                BY <3>1, <3>2, <3>3 DEF NoKeyReuse
        <2>8. QED
            BY <1>inv, <2>1, <2>3, <2>5, <2>6, <2>7 DEF KeysInv
    <1>6. CASE Refresh
        <2>1. DOMAIN outputs' = DOMAIN outputs
            BY <1>6, RefreshedOutputsTyped DEF Refresh
        <2>2. QED
            BY <1>6, <1>inv, <2>1, KeysKept DEF Refresh, world, node
    <1>7. ASSUME NEW i \in DOMAIN txlog[active], CancelTx(i)
          PROVE  KeysInv'
        <2>1. DOMAIN outputs' \subseteq DOMAIN outputs
            BY <1>7, RefreshedOutputsTyped DEF CancelTx
        <2>2. QED
            BY <1>7, <1>inv, <2>1, KeysKept DEF CancelTx, world, node
    <1>8. ASSUME NEW i \in DOMAIN txlog[active], RepostTx(i)
          PROVE  KeysInv'
        <2> DEFINE s == RefreshedLog(active)[active][i].slate
        <2>1. /\ s \in OwnSlates
              /\ pool' = pool \cup {[slate |-> s, reply |-> stored[s].reply]}
              /\ DOMAIN outputs' = DOMAIN outputs
              /\ UNCHANGED <<childIdx, stored, world, utxo>>
            BY <1>8, RefreshedOutputsTyped DEF RepostTx
        <2> HIDE DEF s
        <2>2. \A t \in (final \cup pool)' : t.reply \subseteq replies[t.slate]
            BY <1>inv, <2>1 DEF world
        <2>3. QED
            BY <1>inv, <2>1, <2>2, KeysKept DEF world
    <1>9. ASSUME NEW t \in final \ pool, PostTx(t)
          PROVE  KeysInv'
        BY <1>9, <1>inv, KeysKept DEF PostTx, db, world
    <1>10. ASSUME NEW t \in Transaction, Mine(t), t.reply \subseteq replies[t.slate]
           PROVE  KeysInv'
        <2>1. t.slate \in Slates
            BY DEF Transaction
        <2>2. Created(t) \subseteq Derived
            BY <1>10, <1>inv, <2>1 DEF Created
        <2>3. QED
            BY <1>10, <1>inv, <2>2, KeysKept DEF Mine, db, world
    <1>11. ASSUME NEW s \in ForeignSlates, NEW k \in replies[s], MineForeign(s, k)
           PROVE  KeysInv'
        <2> DEFINE t == [slate |-> s, reply |-> {k}]
        <2>1. t \in Transaction /\ t.reply \subseteq replies[t.slate]
            BY DEF Transaction, Slates, Shapes
        <2>2. QED
            BY <1>10, <1>11, <2>1 DEF MineForeign
    <1>12. ASSUME NEW a \in Accounts, SetActiveAccount(a)
           PROVE  KeysInv'
        BY <1>12, <1>inv, KeysKept DEF SetActiveAccount, db, world, node
    <1>13. CASE UNCHANGED vars
        BY <1>13, <1>inv, KeysKept DEF vars, db, world, node
    <1>14. QED
        <2>1. \A t \in pool : t \in Transaction /\ t.reply \subseteq replies[t.slate]
            BY <1>inv DEF Shapes
        <2>2. QED
            BY <2>1, <1>1, <1>2, <1>3, <1>4, <1>5, <1>6, <1>7, <1>8, <1>9, <1>10, <1>11,
               <1>12, <1>13 DEF Next, Send, Receive, Settle, Environment

\* No key of the wallet is ever used for two outputs, for any number of
\* accounts, slates and change outputs and any order of calls and failures.
THEOREM KeysAreFresh == Spec => []NoKeyReuse
    <1>1. Spec => []KeysInv
        BY KeysInit, KeysNext, ShapesInvariant, PTL DEF Spec
    <1>2. KeysInv => NoKeyReuse
        BY DEF KeysInv
    <1>3. QED
        BY <1>1, <1>2, PTL

-----------------------------------------------------------------------------
(* Every output names an entry of its own account.  tx_lock_outputs writes *)
(* an id of the slate's account into the selected outputs without looking  *)
(* at their account: the invariant has to know that a key that was         *)
(* selected for a send, or derived for its change, stays in that account,  *)
(* even if the output is deleted by a cancel and created again.            *)

AccountsInv ==
    /\ \A k \in DOMAIN outputs : outputs[k].tx \in DOMAIN txlog[outputs[k].acct]
    /\ \A s \in OwnSlates :
        /\ slates[s].inputs \subseteq Derived
        /\ \A k \in (slates[s].inputs \cup slates[s].change) \cap DOMAIN outputs :
                outputs[k].acct = slates[s].acct
        /\ \A t \in OwnSlates : slates[s].inputs \cap slates[t].change # {} =>
                slates[s].acct = slates[t].acct

LEMMA AccountsInit == Init => AccountsInv
    <1> SUFFICES ASSUME Init PROVE AccountsInv
        OBVIOUS
    <1> DEFINE e == [type |-> "TxReceived", slate |-> NoSlate, confirmed |-> TRUE]
    <1>1. txlog[Default] = <<e>>
        BY LedgerAssumption DEF LedgerAssumption, Init
    <1> HIDE DEF e
    <1>2. 1 \in DOMAIN txlog[Default]
        BY <1>1
    <1>3. \A k \in DOMAIN outputs : outputs[k].tx = 1 /\ outputs[k].acct = Default
        BY DEF Init
    <1>4. \A s \in OwnSlates : slates[s].inputs = {} /\ slates[s].change = {}
        BY DEF Init, Blank
    <1>5. QED
        BY <1>2, <1>3, <1>4 DEF AccountsInv

\* A call that creates no output, moves none to another entry and shortens no
\* log keeps AccountsInv.
LEMMA AccountsKept ==
    ASSUME AccountsInv, Shapes,
           DOMAIN outputs' \subseteq DOMAIN outputs,
           \A k \in DOMAIN outputs' :
                outputs'[k].acct = outputs[k].acct /\ outputs'[k].tx = outputs[k].tx,
           \A a \in Accounts : DOMAIN txlog'[a] = DOMAIN txlog[a],
           Derived \subseteq Derived',
           UNCHANGED slates
    PROVE  AccountsInv'
    <1>1. \A k \in DOMAIN outputs : outputs[k].acct \in Accounts
        BY DEF Shapes, OutputData
    <1>2. QED
        BY <1>1 DEF AccountsInv

\* The refresh does neither.
LEMMA RefreshKeepsEntries ==
    ASSUME Shapes, NEW a \in Accounts,
           outputs' = RefreshedOutputs(a), txlog' = RefreshedLog(a)
    PROVE  /\ DOMAIN outputs' = DOMAIN outputs
           /\ \A k \in DOMAIN outputs :
                outputs'[k].acct = outputs[k].acct /\ outputs'[k].tx = outputs[k].tx
           /\ \A b \in Accounts : DOMAIN txlog'[b] = DOMAIN txlog[b]
    BY RefreshedOutputsTyped, RefreshedLogTyped

LEMMA AccountsNext == Shapes /\ KeysInv /\ AccountsInv /\ [Next]_vars => AccountsInv'
    <1> SUFFICES ASSUME Shapes, KeysInv, AccountsInv, [Next]_vars
                 PROVE  AccountsInv'
        OBVIOUS
    <1>acct. active \in Accounts /\ \A k \in DOMAIN outputs : outputs[k].acct \in Accounts
        BY DEF Shapes, OutputData
    <1>1. ASSUME NEW s \in OwnSlates, NEW a \in Accounts, InitSendTx(s, a)
          PROVE  AccountsInv'
        <2>1. PICK ins \in (SUBSET Eligible(outputs', a)) \ {{}}, n \in ChangeCounts :
                /\ DeriveKeys(n)
                /\ slates' = [slates EXCEPT ![s] =
                                [acct |-> a, inputs |-> ins, change |-> NewKeys(n)]]
            BY <1>1 DEF InitSendTx
        <2>2. Derived' = Derived \cup NewKeys(n) /\ Derived \cap NewKeys(n) = {}
            BY <2>1, DerivedGrows, LedgerAssumption DEF LedgerAssumption
        <2>3. /\ DOMAIN outputs' = DOMAIN outputs
              /\ \A k \in DOMAIN outputs :
                    outputs'[k].acct = outputs[k].acct /\ outputs'[k].tx = outputs[k].tx
              /\ \A b \in Accounts : DOMAIN txlog'[b] = DOMAIN txlog[b]
            BY <1>1, RefreshKeepsEntries DEF InitSendTx
        <2>4. \A k \in ins : k \in DOMAIN outputs /\ outputs[k].acct = a /\ k \in Derived
            BY <2>1, <2>3 DEF Eligible, KeysInv, NoKeyReuse
        <2>5. /\ slates'[s] = [acct |-> a, inputs |-> ins, change |-> NewKeys(n)]
              /\ \A t \in OwnSlates \ {s} : slates'[t] = slates[t]
            BY <2>1 DEF Shapes
        <2>6. \A k \in DOMAIN outputs' : outputs'[k].tx \in DOMAIN txlog'[outputs'[k].acct]
            BY <1>acct, <2>3 DEF AccountsInv
        <2>7. DOMAIN outputs \cap NewKeys(n) = {}
            BY <2>2 DEF KeysInv, NoKeyReuse
        <2>8. ASSUME NEW t \in OwnSlates
              PROVE  /\ slates'[t].inputs \subseteq Derived'
                     /\ \A k \in (slates'[t].inputs \cup slates'[t].change) \cap DOMAIN outputs' :
                            outputs'[k].acct = slates'[t].acct
            BY <2>2, <2>3, <2>4, <2>5, <2>7 DEF AccountsInv
        <2>9. ASSUME NEW t \in OwnSlates, NEW u \in OwnSlates,
                     slates'[t].inputs \cap slates'[u].change # {}
              PROVE  slates'[t].acct = slates'[u].acct
            <3>1. PICK k : k \in slates'[t].inputs /\ k \in slates'[u].change
                BY <2>9
            <3>2. k \in Derived
                BY <2>4, <2>5, <3>1 DEF AccountsInv
            <3>3. u # s
                BY <2>2, <2>5, <3>1, <3>2
            <3>4. CASE t = s
                BY <2>4, <2>5, <3>1, <3>3, <3>4 DEF AccountsInv
            <3>5. CASE t # s
                BY <2>5, <3>1, <3>3, <3>5 DEF AccountsInv
            <3>6. QED
                BY <3>4, <3>5
        <2>10. QED
            BY <2>6, <2>8, <2>9 DEF AccountsInv
    <1>2. ASSUME NEW a \in Accounts, InitSendTxFails(a)
          PROVE  AccountsInv'
        <2>1. Derived \subseteq Derived'
            BY <1>2, DerivedGrows, LedgerAssumption DEF LedgerAssumption, InitSendTxFails
        <2>2. QED
            BY <1>2, <2>1, RefreshKeepsEntries, AccountsKept DEF InitSendTxFails, world
    <1>3. ASSUME NEW s \in OwnSlates, TxLockOutputs(s)
          PROVE  AccountsInv'
        <2> DEFINE a == slates[s].acct
                   id == Len(txlog[a]) + 1
        <2>1. a \in Accounts
            BY DEF Shapes, SendSlate
        <2>2. AddToLog(a, "TxSent", s) /\ "TxSent" \in TxType /\ s \in Slates
            BY <1>3 DEF TxLockOutputs, TxType, Slates
        <2>3. outputs' = [k \in DOMAIN outputs \cup slates[s].change |->
                            IF k \in slates[s].change
                            THEN [acct |-> a, status |-> "Unconfirmed", tx |-> id]
                            ELSE IF k \in slates[s].inputs
                            THEN [outputs[k] EXCEPT !.status = "Locked", !.tx = id]
                            ELSE outputs[k]]
            BY <1>3 DEF TxLockOutputs
        <2> HIDE DEF a
        <2>4. /\ id \in DOMAIN txlog'[a]
              /\ \A b \in Accounts : DOMAIN txlog[b] \subseteq DOMAIN txlog'[b]
            <3>1. /\ DOMAIN txlog'[a] = DOMAIN txlog[a] \cup {Len(txlog[a]) + 1}
                  /\ \A b \in Accounts : DOMAIN txlog[b] \subseteq DOMAIN txlog'[b]
                BY <2>1, <2>2, AddToLogTyped
            <3>2. QED
                BY <3>1
        <2> HIDE DEF id
        <2>5. UNCHANGED <<slates, childIdx>> /\ Derived' = Derived
            BY <1>3 DEF TxLockOutputs, world, Derived
        <2>6. ASSUME NEW k \in DOMAIN outputs'
              PROVE  /\ k \in slates[s].change => outputs'[k].acct = a
                     /\ k \notin slates[s].change =>
                            k \in DOMAIN outputs /\ outputs'[k].acct = outputs[k].acct
                     /\ outputs'[k].tx \in DOMAIN txlog'[outputs'[k].acct]
            <3>1. CASE k \in slates[s].change
                BY <2>3, <2>4, <3>1
            <3>2. CASE k \notin slates[s].change /\ k \in slates[s].inputs
                <4>1. k \in DOMAIN outputs /\ outputs[k].acct = a /\ outputs[k] \in OutputData
                    BY <2>3, <3>2 DEF AccountsInv, Shapes, a
                <4>2. outputs'[k].acct = outputs[k].acct /\ outputs'[k].tx = id
                    BY <2>3, <3>2, <4>1 DEF OutputData
                <4>3. QED
                    BY <2>4, <3>2, <4>1, <4>2
            <3>3. CASE k \notin slates[s].change /\ k \notin slates[s].inputs
                <4>1. k \in DOMAIN outputs /\ outputs'[k] = outputs[k]
                    BY <2>3, <3>3
                <4>2. QED
                    BY <1>acct, <2>4, <3>3, <4>1 DEF AccountsInv
            <3>4. QED
                BY <3>1, <3>2, <3>3
        <2>7. ASSUME NEW t \in OwnSlates,
                     NEW k \in (slates[t].inputs \cup slates[t].change) \cap DOMAIN outputs'
              PROVE  outputs'[k].acct = slates[t].acct
            <3>1. CASE k \in slates[s].change
                <4>1. k \in slates[t].inputs \/ t = s
                    BY <3>1 DEF KeysInv, NoKeyReuse
                <4>2. slates[t].acct = a
                    BY <3>1, <4>1 DEF AccountsInv, a
                <4>3. QED
                    BY <2>6, <3>1, <4>2
            <3>2. CASE k \notin slates[s].change
                BY <2>6, <3>2 DEF AccountsInv
            <3>3. QED
                BY <3>1, <3>2
        <2>8. QED
            BY <2>5, <2>6, <2>7 DEF AccountsInv
    <1>4. ASSUME NEW s \in Slates, NEW a \in Accounts, BuildRecipientOutput(s, a), UNCHANGED slates
          PROVE  AccountsInv'
        <2> DEFINE id == Len(txlog[a]) + 1
        <2>1. /\ DeriveKeys(1)
              /\ AddToLog(a, "TxReceived", s) /\ "TxReceived" \in TxType
              /\ outputs' = [k \in DOMAIN outputs \cup NewKeys(1) |->
                                IF k \in NewKeys(1)
                                THEN [acct |-> a, status |-> "Unconfirmed", tx |-> id]
                                ELSE outputs[k]]
            BY <1>4 DEF BuildRecipientOutput, TxType
        <2>2. Derived' = Derived \cup NewKeys(1) /\ Derived \cap NewKeys(1) = {}
            BY <2>1, DerivedGrows
        <2>3. /\ id \in DOMAIN txlog'[a]
              /\ \A b \in Accounts : DOMAIN txlog[b] \subseteq DOMAIN txlog'[b]
            <3>1. /\ DOMAIN txlog'[a] = DOMAIN txlog[a] \cup {Len(txlog[a]) + 1}
                  /\ \A b \in Accounts : DOMAIN txlog[b] \subseteq DOMAIN txlog'[b]
                BY <2>1, AddToLogTyped
            <3>2. QED
                BY <3>1
        <2> HIDE DEF id
        <2>4. ASSUME NEW k \in DOMAIN outputs'
              PROVE  outputs'[k].tx \in DOMAIN txlog'[outputs'[k].acct]
            <3>1. CASE k \in NewKeys(1)
                BY <2>1, <2>3, <3>1
            <3>2. CASE k \notin NewKeys(1)
                <4>1. k \in DOMAIN outputs /\ outputs'[k] = outputs[k]
                    BY <2>1, <3>2
                <4>2. QED
                    BY <1>acct, <2>3, <4>1 DEF AccountsInv
            <3>3. QED
                BY <3>1, <3>2
        <2>5. ASSUME NEW t \in OwnSlates
              PROVE  (slates[t].inputs \cup slates[t].change) \subseteq Derived
            BY DEF AccountsInv, KeysInv, NoKeyReuse
        <2>6. ASSUME NEW t \in OwnSlates,
                     NEW k \in (slates[t].inputs \cup slates[t].change) \cap DOMAIN outputs'
              PROVE  outputs'[k].acct = slates[t].acct
            <3>1. k \notin NewKeys(1)
                BY <2>2, <2>5
            <3>2. k \in DOMAIN outputs /\ outputs'[k] = outputs[k]
                BY <2>1, <3>1
            <3>3. QED
                BY <3>2 DEF AccountsInv
        <2>7. QED
            BY <1>4, <2>2, <2>4, <2>6 DEF AccountsInv
    <1>5. CASE Refresh
        BY <1>5, <1>acct, RefreshKeepsEntries, AccountsKept DEF Refresh, world, Derived
    <1>6. ASSUME NEW i \in DOMAIN txlog[active], CancelTx(i)
          PROVE  AccountsInv'
        <2> DEFINE outs == RefreshedOutputs(active)
                   log == RefreshedLog(active)
                   deleted == {k \in Involved(outs, i) : outs[k].status = "Unconfirmed"}
        <2>1. /\ outputs' = [k \in DOMAIN outs \ deleted |->
                                IF k \in Involved(outs, i) THEN Unlock(outs[k]) ELSE outs[k]]
              /\ txlog' = [log EXCEPT ![active][i].type =
                        IF @ = "TxSent" THEN "TxSentCancelled" ELSE "TxReceivedCancelled"]
              /\ UNCHANGED <<slates, childIdx>>
            BY <1>6 DEF CancelTx, world
        <2>2. /\ outs \in [DOMAIN outputs -> OutputData]
              /\ DOMAIN outs = DOMAIN outputs
              /\ \A k \in DOMAIN outputs : outs[k].acct = outputs[k].acct /\ outs[k].tx = outputs[k].tx
            BY RefreshedOutputsTyped
        <2>3. /\ log \in [Accounts -> Seq(TxLogEntry)]
              /\ \A b \in Accounts : DOMAIN log[b] = DOMAIN txlog[b]
            BY <1>acct, RefreshedLogTyped
        <2> HIDE DEF outs, log, deleted
        <2>4. \A k \in DOMAIN outputs' :
                /\ k \in DOMAIN outputs
                /\ outputs'[k].acct = outputs[k].acct /\ outputs'[k].tx = outputs[k].tx
            BY <2>1, <2>2 DEF Unlock, OutputData
        <2>5. \A b \in Accounts : DOMAIN txlog'[b] = DOMAIN txlog[b]
            BY <2>1, <2>3
        <2>6. Derived' = Derived
            BY <2>1 DEF Derived
        <2>7. QED
            BY <2>1, <2>4, <2>5, <2>6, AccountsKept
    <1>7. ASSUME NEW i \in DOMAIN txlog[active], RepostTx(i)
          PROVE  AccountsInv'
        <2>1. /\ outputs' = RefreshedOutputs(active) /\ txlog' = RefreshedLog(active)
              /\ UNCHANGED <<slates, childIdx>>
            BY <1>7 DEF RepostTx, world
        <2>2. Derived' = Derived
            BY <2>1 DEF Derived
        <2>3. QED
            BY <1>acct, <2>1, <2>2, RefreshKeepsEntries, AccountsKept
    <1>8. ASSUME UNCHANGED <<outputs, txlog, childIdx, slates>>
          PROVE  AccountsInv'
        BY <1>8 DEF AccountsInv, Derived
    <1>9. QED
        <2>1. ASSUME NEW s \in OwnSlates, TxLockOutputsCrash(s)
              PROVE  AccountsInv'
            BY <1>8, <2>1 DEF TxLockOutputsCrash, world
        <2>2. ASSUME NEW s \in OwnSlates, NEW r \in Answers(s),
                     FinalizeTx(s, r) \/ FinalizeTxCrash(s, r)
              PROVE  AccountsInv'
            BY <1>8, <2>2 DEF FinalizeTx, FinalizeTxCrash, world
        <2>3. ASSUME NEW s \in Slates, NEW a \in Accounts,
                     ReceiveTx(s, a) \/ ReceiveTxFails(s, a)
              PROVE  AccountsInv'
            BY <1>4, <2>3 DEF ReceiveTx, ReceiveTxFails, world
        <2>4. ASSUME NEW t, PostTx(t) \/ Mine(t)
              PROVE  AccountsInv'
            BY <1>8, <2>4 DEF PostTx, Mine, db, world
        <2>5. ASSUME NEW s \in ForeignSlates, NEW k \in replies[s], MineForeign(s, k)
              PROVE  AccountsInv'
            BY <2>4, <2>5 DEF MineForeign
        <2>6. ASSUME NEW a \in Accounts, SetActiveAccount(a)
              PROVE  AccountsInv'
            BY <1>8, <2>6 DEF SetActiveAccount, db, world
        <2>7. CASE UNCHANGED vars
            BY <1>8, <2>7 DEF vars, db, world
        <2>8. QED
            BY <1>1, <1>2, <1>3, <1>5, <1>6, <1>7, <2>1, <2>2, <2>3, <2>4, <2>5, <2>6, <2>7
               DEF Next, Send, Receive, Settle, Environment

\* The records keep their shapes and every output names a log entry of its own
\* account, so the look-ups of cancel_tx and of the refresh never miss.
THEOREM TypeCorrect == Spec => []TypeOK
    <1>1. Spec => []KeysInv
        BY KeysInit, KeysNext, ShapesInvariant, PTL DEF Spec
    <1>2. Spec => []AccountsInv
        BY <1>1, AccountsInit, AccountsNext, ShapesInvariant, PTL DEF Spec
    <1>3. Shapes /\ AccountsInv => TypeOK
        BY DEF AccountsInv, TypeOK
    <1>4. QED
        BY <1>2, <1>3, ShapesInvariant, PTL

-----------------------------------------------------------------------------
(* The life of a log entry.                                                *)

\* Only outstanding entries are confirmed, and only outstanding entries are
\* cancelled: whatever the calls, an entry's fate is decided once.
LEMMA LogStepHolds == Shapes /\ [Next]_vars => [LogStep]_vars
    <1> SUFFICES ASSUME Shapes, [Next]_vars
                 PROVE  LogStep \/ UNCHANGED vars
        BY DEF vars
    <1>typ. /\ active \in Accounts
            /\ \A a \in Accounts : Len(txlog[a]) \in Nat
        BY LenProperties DEF Shapes
    <1>1. ASSUME txlog' = txlog PROVE LogStep
        BY <1>1, <1>typ DEF LogStep
    <1>2. ASSUME NEW a \in Accounts, NEW b \in Accounts, NEW i \in DOMAIN txlog[b],
                 RefreshedLog(a)[b][i] # txlog[b][i]
          PROVE  Outstanding(b, i)
        <2>1. b = a /\ Confirms(a, i)
            BY <1>2, RefreshedLogTyped
        <2>2. PICK k \in Refreshable(a) : outputs[k].tx = i
            BY <2>1 DEF Confirms
        <2>3. QED
            BY <2>1, <2>2 DEF Refreshable
    <1>3. ASSUME NEW a \in Accounts, txlog' = RefreshedLog(a)
          PROVE  LogStep
        BY <1>2, <1>3, <1>typ, RefreshedLogTyped DEF LogStep
    <1>4. ASSUME NEW a \in Accounts, NEW s \in Slates, NEW type \in TxType,
                 AddToLog(a, type, s)
          PROVE  LogStep
        <2>1. \A b \in Accounts : /\ Len(txlog[b]) <= Len(txlog'[b])
                                  /\ \A i \in DOMAIN txlog[b] : txlog'[b][i] = txlog[b][i]
            <3>1. /\ txlog' \in [Accounts -> Seq(TxLogEntry)]
                  /\ \A i \in DOMAIN txlog[a] : txlog'[a][i] = txlog[a][i]
                  /\ \A b \in Accounts \ {a} : txlog'[b] = txlog[b]
                  /\ DOMAIN txlog[a] \subseteq DOMAIN txlog'[a]
                BY <1>4, AddToLogTyped
            <3>2. DOMAIN txlog[a] = 1 .. Len(txlog[a]) /\ DOMAIN txlog'[a] = 1 .. Len(txlog'[a])
                BY <3>1, LenProperties DEF Shapes
            <3>3. Len(txlog'[a]) \in Nat
                BY <3>1, LenProperties
            <3>4. Len(txlog[a]) <= Len(txlog'[a])
                BY <1>typ, <3>1, <3>2, <3>3
            <3>5. QED
                BY <1>typ, <3>1, <3>4
        <2>2. QED
            BY <2>1 DEF LogStep
    <1>5. ASSUME NEW i \in DOMAIN txlog[active], CancelTx(i)
          PROVE  LogStep
        <2> DEFINE log == RefreshedLog(active)
                   t == IF log[active][i].type = "TxSent"
                        THEN "TxSentCancelled" ELSE "TxReceivedCancelled"
        <2>1. /\ txlog' = [log EXCEPT ![active][i].type = t]
              /\ Cancellable(log[active][i])
            BY <1>5 DEF CancelTx
        <2>2. /\ log \in [Accounts -> Seq(TxLogEntry)]
              /\ \A b \in Accounts :
                    /\ DOMAIN log[b] = DOMAIN txlog[b]
                    /\ Len(log[b]) = Len(txlog[b])
                    /\ \A j \in DOMAIN txlog[b] :
                        /\ log[b][j].type = txlog[b][j].type
                        /\ log[b][j].slate = txlog[b][j].slate
            BY <1>typ, RefreshedLogTyped
        <2>3. \A b \in Accounts : \A j \in DOMAIN txlog[b] :
                log[b][j] # txlog[b][j] => Outstanding(b, j)
            BY <1>2, <1>typ
        <2> HIDE DEF log, t
        <2>4. log[active] \in Seq(TxLogEntry) /\ i \in 1 .. Len(log[active])
            BY <1>typ, <2>2, LenProperties
        <2>5. log[active][i] \in TxLogEntry
            BY <2>4, ElementOfSeq
        <2> DEFINE e == [log[active][i] EXCEPT !.type = t]
        <2>6. e.slate = log[active][i].slate /\ e.confirmed = log[active][i].confirmed
            BY <2>5 DEF TxLogEntry
        <2>7. /\ txlog'[active][i] = e
              /\ \A j \in DOMAIN txlog[active] \ {i} : txlog'[active][j] = log[active][j]
              /\ \A b \in Accounts \ {active} : txlog'[b] = log[b]
            BY <1>typ, <2>1, <2>2
        <2>8. Len(txlog'[active]) = Len(txlog[active])
            <3>1. txlog'[active] = [log[active] EXCEPT ![i] = e]
                BY <1>typ, <2>1, <2>2
            <3> HIDE DEF e
            <3>2. DOMAIN txlog'[active] = 1 .. Len(log[active])
                BY <2>4, <3>1, LenProperties
            <3>3. QED
                BY <1>typ, <2>2, <3>2
        <2>9. Outstanding(active, i) /\ ~e.confirmed
            <3>1. ~log[active][i].confirmed /\ log[active][i].type \in {"TxSent", "TxReceived"}
                BY <2>1 DEF Cancellable
            <3>2. log[active][i] = txlog[active][i] => Outstanding(active, i)
                BY <3>1 DEF Outstanding
            <3>3. QED
                BY <1>typ, <2>3, <2>6, <3>1, <3>2
        <2> HIDE DEF e
        <2>10. ASSUME NEW b \in Accounts, NEW j \in DOMAIN txlog[b]
               PROVE  /\ txlog'[b][j].slate = txlog[b][j].slate
                      /\ txlog[b][j] # txlog'[b][j] => Outstanding(b, j)
                      /\ txlog[b][j].type # txlog'[b][j].type => ~txlog'[b][j].confirmed
            <3>1. CASE b = active /\ j = i
                BY <2>2, <2>6, <2>7, <2>9, <3>1
            <3>2. CASE ~(b = active /\ j = i)
                <4>1. txlog'[b][j] = log[b][j]
                    BY <2>7, <3>2
                <4>2. QED
                    BY <2>2, <2>3, <4>1
            <3>3. QED
                BY <3>1, <3>2
        <2>11. \A b \in Accounts : Len(txlog[b]) <= Len(txlog'[b])
            BY <1>typ, <2>2, <2>7, <2>8
        <2>12. QED
            BY <2>10, <2>11 DEF LogStep
    <1>6. QED
        <2>1. ASSUME NEW s \in OwnSlates, NEW a \in Accounts, InitSendTx(s, a)
              PROVE  LogStep
            BY <1>3, <2>1 DEF InitSendTx
        <2>2. ASSUME NEW a \in Accounts, InitSendTxFails(a)
              PROVE  LogStep
            BY <1>3, <2>2 DEF InitSendTxFails
        <2>3. ASSUME NEW s \in OwnSlates, TxLockOutputs(s)
              PROVE  LogStep
            <3>1. /\ slates[s].acct \in Accounts /\ s \in Slates /\ "TxSent" \in TxType
                  /\ AddToLog(slates[s].acct, "TxSent", s)
                BY <2>3 DEF Shapes, SendSlate, Slates, TxType, TxLockOutputs
            <3>2. QED
                BY <1>4, <3>1
        <2>4. ASSUME NEW s \in Slates, NEW a \in Accounts,
                     ReceiveTx(s, a) \/ ReceiveTxFails(s, a)
              PROVE  LogStep
            <3>1. "TxReceived" \in TxType /\ AddToLog(a, "TxReceived", s)
                BY <2>4 DEF TxType, ReceiveTx, ReceiveTxFails, BuildRecipientOutput
            <3>2. QED
                BY <1>4, <3>1
        <2>5. ASSUME Refresh \/ \E i \in DOMAIN txlog[active] : RepostTx(i)
              PROVE  LogStep
            BY <1>3, <1>typ, <2>5 DEF Refresh, RepostTx
        <2>6. ASSUME NEW s \in OwnSlates,
                     TxLockOutputsCrash(s)
                     \/ \E r \in Answers(s) : FinalizeTx(s, r) \/ FinalizeTxCrash(s, r)
              PROVE  LogStep
            BY <1>1, <2>6 DEF TxLockOutputsCrash, FinalizeTx, FinalizeTxCrash
        <2>7. ASSUME NEW t, PostTx(t) \/ Mine(t)
              PROVE  LogStep
            BY <1>1, <2>7 DEF PostTx, Mine, db
        <2>8. ASSUME Environment
              PROVE  LogStep
            BY <1>1, <2>7, <2>8 DEF Environment, MineForeign, SetActiveAccount, db
        <2>9. QED
            BY <1>5, <2>1, <2>2, <2>3, <2>4, <2>5, <2>6, <2>7, <2>8
               DEF Next, Send, Receive, Settle

\* A log entry is never lost, never changes hands, and is decided once.
THEOREM EntriesDecidedOnce == Spec => EntryLifecycle
    BY ShapesInvariant, LogStepHolds, PTL DEF Spec, EntryLifecycle

-----------------------------------------------------------------------------
(* A finalized transaction is kept.  A context only exists for a slate that *)
(* was initiated, and a slate is initiated once: so the context of a slate  *)
(* that was finalized never comes back, and nothing writes its file again.  *)

FinalInv ==
    /\ FinalizedIsKept
    /\ \A s \in contexts : Initiated(s)
    /\ \A t \in final : t.slate \in OwnSlates /\ Initiated(t.slate)

LEMMA FinalNext == Shapes /\ FinalInv /\ [Next]_vars => FinalInv'
    <1> SUFFICES ASSUME Shapes, FinalInv, [Next]_vars
                 PROVE  FinalInv'
        OBVIOUS
    <1>1. ASSUME NEW s \in OwnSlates, NEW a \in Accounts, InitSendTx(s, a)
          PROVE  FinalInv'
        <2>1. /\ ~Initiated(s)
              /\ contexts' = contexts \cup {s}
              /\ UNCHANGED <<stored, final>>
              /\ slates'[s].inputs # {}
              /\ \A t \in OwnSlates \ {s} : slates'[t] = slates[t]
            <3>1. PICK ins \in (SUBSET Eligible(outputs', a)) \ {{}}, n \in ChangeCounts :
                    slates' = [slates EXCEPT ![s] =
                                [acct |-> a, inputs |-> ins, change |-> NewKeys(n)]]
                BY <1>1 DEF InitSendTx
            <3>2. /\ slates'[s] = [acct |-> a, inputs |-> ins, change |-> NewKeys(n)]
                  /\ \A t \in OwnSlates \ {s} : slates'[t] = slates[t]
                BY <3>1 DEF Shapes
            <3>3. slates'[s].inputs # {}
                <4>1. ins # {}
                    OBVIOUS
                <4>2. slates'[s].inputs = ins
                    BY <3>2
                <4>3. QED
                    BY <4>1, <4>2
            <3>4. QED
                BY <1>1, <3>2, <3>3 DEF InitSendTx
        <2>2. contexts \subseteq OwnSlates
            BY DEF Shapes
        <2>3. QED
            BY <2>1, <2>2 DEF FinalInv, FinalizedIsKept, Initiated
    <1>2. ASSUME NEW s \in OwnSlates, TxLockOutputs(s) \/ TxLockOutputsCrash(s)
          PROVE  FinalInv'
        <2>1. /\ s \in contexts
              /\ stored' = [stored EXCEPT ![s] = Partial]
              /\ UNCHANGED <<contexts, final, slates>>
            BY <1>2 DEF TxLockOutputs, TxLockOutputsCrash, world
        <2>2. QED
            BY <2>1 DEF FinalInv, FinalizedIsKept, Initiated, Shapes
    <1>3. ASSUME NEW s \in OwnSlates, NEW r \in Answers(s), FinalizeTx(s, r)
          PROVE  FinalInv'
        <2> DEFINE new == [slate |-> s, reply |-> r]
        <2>1. /\ s \in contexts
              /\ stored' = [stored EXCEPT ![s] = [form |-> "final", reply |-> r]]
              /\ contexts' = contexts \ {s}
              /\ final' = final \cup {new}
              /\ UNCHANGED slates
            BY <1>3 DEF FinalizeTx
        <2>2. \A t \in final : t.slate # s
            BY <2>1 DEF FinalInv, FinalizedIsKept
        <2>3. new.slate = s /\ new.reply = r
            OBVIOUS
        <2> HIDE DEF new
        <2>4. QED
            BY <2>1, <2>2, <2>3 DEF FinalInv, FinalizedIsKept, Initiated, Shapes
    <1>4. ASSUME NEW s \in OwnSlates, NEW r \in Answers(s), FinalizeTxCrash(s, r)
          PROVE  FinalInv'
        <2>1. /\ s \in contexts
              /\ stored' = [stored EXCEPT ![s] = [form |-> "final", reply |-> r]]
              /\ UNCHANGED <<contexts, final, slates>>
            BY <1>4 DEF FinalizeTxCrash, world
        <2>2. QED
            BY <2>1 DEF FinalInv, FinalizedIsKept, Initiated, Shapes
    <1>5. ASSUME UNCHANGED <<contexts, stored, slates, final>>
          PROVE  FinalInv'
        BY <1>5 DEF FinalInv, FinalizedIsKept, Initiated
    <1>6. QED
        <2>1. ASSUME NEW a \in Accounts, InitSendTxFails(a) \/ SetActiveAccount(a)
              PROVE  FinalInv'
            BY <1>5, <2>1 DEF InitSendTxFails, SetActiveAccount, db, world
        <2>2. ASSUME Receive
              PROVE  FinalInv'
            BY <1>5, <2>2 DEF Receive, ReceiveTx, ReceiveTxFails, world
        <2>3. ASSUME NEW t, PostTx(t) \/ Mine(t)
              PROVE  FinalInv'
            BY <1>5, <2>3 DEF PostTx, Mine, db, world
        <2>4. ASSUME Settle
              PROVE  FinalInv'
            BY <1>5, <2>3, <2>4 DEF Settle, Refresh, CancelTx, RepostTx, world
        <2>5. ASSUME Environment
              PROVE  FinalInv'
            BY <2>1, <2>3, <2>5 DEF Environment, MineForeign
        <2>6. CASE UNCHANGED vars
            BY <1>5, <2>6 DEF vars, db, world
        <2>7. QED
            BY <1>1, <1>2, <1>3, <1>4, <2>1, <2>2, <2>4, <2>5, <2>6 DEF Next, Send

\* Once finalize_tx has returned a transaction it cannot be signed again and
\* repost_tx finds exactly that transaction, for any interleaving of calls.
THEOREM FinalizedStays == Spec => []FinalizedIsKept
    <1>1. Init => FinalInv
        BY DEF Init, FinalInv, FinalizedIsKept
    <1>2. FinalInv => FinalizedIsKept
        BY DEF FinalInv
    <1>3. QED
        BY <1>1, <1>2, FinalNext, ShapesInvariant, PTL DEF Spec
=============================================================================
