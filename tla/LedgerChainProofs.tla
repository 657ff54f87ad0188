------------------------- MODULE LedgerChainProofs -------------------------
(***************************************************************************)
(* What the database of WalletLedger says of the chain, for every value of *)
(* the constants.  The argument has two halves: ChainInv, that the chain   *)
(* spends every key of the wallet once and creates it once, and then what  *)
(* the records have to do with it.                                         *)
(***************************************************************************)
EXTENDS WalletLedgerProofs

-----------------------------------------------------------------------------
(* The chain.                                                              *)

\* The keys that were derived for a slate and left the wallet in it.
KeysOf(s) == replies[s] \cup (IF s \in OwnSlates THEN slates[s].change ELSE {})

\* How a key got onto the chain.
Origin(k) == k \in Coins \/ \E t \in mined : k \in Created(t)

\* What a transaction carries: the answers of its slate, and the sends in the
\* hands of the wallet are its own.
CarriedInv ==
    /\ \A t \in final \cup pool : t.slate \in OwnSlates /\ Initiated(t.slate)
    /\ \A t \in mined : /\ t.reply \subseteq replies[t.slate]
                        /\ t.slate \in OwnSlates => Initiated(t.slate)
    /\ \A s \in OwnSlates : stored[s].form = "final" => Initiated(s)
    /\ \A s \in contexts : Initiated(s)

\* A key that was spent is not on the chain, whatever is on the chain was put
\* there by a transaction or is one of the first coins, and those are nobody's
\* change or answer.
SpendInv ==
    /\ Coins \subseteq Derived
    /\ \A s \in Slates : KeysOf(s) \cap Coins = {}
    /\ \A t \in mined : Inputs(t) \cap utxo = {}
    /\ \A k \in utxo : Origin(k)
    /\ \A t \in mined : \A k \in Inputs(t) : Origin(k)

LEMMA KeysOfDisjoint ==
    ASSUME KeysInv, NEW s \in Slates, NEW t \in Slates, s # t
    PROVE  KeysOf(s) \cap KeysOf(t) = {}
    BY DEF KeysInv, NoKeyReuse, KeysOf, Slates

LEMMA KeysOfDerived ==
    ASSUME KeysInv, NEW s \in Slates
    PROVE  KeysOf(s) \subseteq Derived
    BY DEF KeysInv, NoKeyReuse, KeysOf, Slates

LEMMA CreatedIsOfSlate ==
    ASSUME CarriedInv, NEW t \in mined
    PROVE  Created(t) \subseteq KeysOf(t.slate)
    BY DEF CarriedInv, Created, KeysOf

\* What init_send_tx does to the slates: one that was blank gets fresh keys.
LEMMA InitSendTxSlates ==
    ASSUME Shapes, KeysInv, NEW s \in OwnSlates, NEW a \in Accounts, InitSendTx(s, a)
    PROVE  /\ ~Initiated(s)
           /\ slates'[s].inputs # {} /\ slates'[s].inputs \subseteq Eligible(outputs', a)
           /\ slates'[s].acct = a
           /\ \A t \in OwnSlates \ {s} : slates'[t] = slates[t]
           /\ Derived \subseteq Derived' /\ slates'[s].change \cap Derived = {}
    <1>1. PICK ins \in (SUBSET Eligible(outputs', a)) \ {{}}, n \in ChangeCounts :
            /\ DeriveKeys(n)
            /\ slates' = [slates EXCEPT ![s] =
                            [acct |-> a, inputs |-> ins, change |-> NewKeys(n)]]
        BY DEF InitSendTx
    <1>2. /\ slates'[s] = [acct |-> a, inputs |-> ins, change |-> NewKeys(n)]
          /\ \A t \in OwnSlates \ {s} : slates'[t] = slates[t]
        BY <1>1 DEF Shapes
    <1>3. Derived' = Derived \cup NewKeys(n) /\ Derived \cap NewKeys(n) = {}
        BY <1>1, DerivedGrows, LedgerAssumption DEF LedgerAssumption
    <1>4. /\ slates'[s].inputs = ins /\ slates'[s].change = NewKeys(n)
          /\ slates'[s].acct = a
        BY <1>2
    <1>5. ~Initiated(s)
        BY DEF InitSendTx
    <1>6. QED
        BY <1>1, <1>2, <1>3, <1>4, <1>5

LEMMA CarriedInit == Init => CarriedInv
    BY DEF Init, CarriedInv, NotStored

LEMMA CarriedNext == Shapes /\ KeysInv /\ CarriedInv /\ [Next]_vars => CarriedInv'
    <1> SUFFICES ASSUME Shapes, KeysInv, CarriedInv, [Next]_vars
                 PROVE  CarriedInv'
        OBVIOUS
    <1>typ. /\ contexts \subseteq OwnSlates
            /\ replies \in [Slates -> SUBSET Key]
            /\ stored \in [OwnSlates -> StoredTx]
            /\ \A t \in final \cup pool \cup mined : t.slate \in Slates
        BY DEF Shapes, Transaction
    <1>1. ASSUME NEW s \in OwnSlates, NEW a \in Accounts, InitSendTx(s, a)
          PROVE  CarriedInv'
        <2>1. /\ slates'[s].inputs # {}
              /\ \A t \in OwnSlates \ {s} : slates'[t] = slates[t]
            BY <1>1, InitSendTxSlates
        <2>2. /\ contexts' = contexts \cup {s}
              /\ UNCHANGED <<stored, replies, final, pool, mined>>
            BY <1>1 DEF InitSendTx, node
        <2>3. \A t \in OwnSlates : Initiated(t) => Initiated(t)'
            BY <2>1 DEF Initiated
        <2>4. Initiated(s)'
            BY <2>1 DEF Initiated
        <2>5. QED
            BY <1>typ, <2>2, <2>3, <2>4 DEF CarriedInv
    <1>2. ASSUME NEW s \in OwnSlates, TxLockOutputs(s) \/ TxLockOutputsCrash(s)
          PROVE  CarriedInv'
        <2>1. /\ stored' = [stored EXCEPT ![s] = Partial]
              /\ UNCHANGED <<contexts, slates, replies, final, pool, mined>>
            BY <1>2 DEF TxLockOutputs, TxLockOutputsCrash, world, node
        <2>2. \A t \in OwnSlates : stored'[t].form = "final" => stored[t].form = "final"
            BY <1>typ, <2>1 DEF Partial
        <2>3. QED
            BY <2>1, <2>2 DEF CarriedInv, Initiated
    <1>3. ASSUME NEW s \in OwnSlates, NEW r \in Answers(s),
                 FinalizeTx(s, r) \/ FinalizeTxCrash(s, r)
          PROVE  CarriedInv'
        <2> DEFINE new == [slate |-> s, reply |-> r]
        <2>1. /\ s \in contexts
              /\ stored' = [stored EXCEPT ![s] = [form |-> "final", reply |-> r]]
              /\ contexts' \subseteq contexts
              /\ final' \subseteq final \cup {new}
              /\ UNCHANGED <<slates, replies, pool, mined>>
            BY <1>3 DEF FinalizeTx, FinalizeTxCrash, node, world
        <2>2. new.slate = s
            OBVIOUS
        <2> HIDE DEF new
        <2>3. \A t \in OwnSlates \ {s} : stored'[t] = stored[t]
            BY <1>typ, <2>1
        <2>4. Initiated(s)
            BY <2>1 DEF CarriedInv
        <2>5. \A t \in OwnSlates : Initiated(t)' <=> Initiated(t)
            BY <2>1 DEF Initiated
        <2>6. QED
            BY <1>typ, <2>1, <2>2, <2>3, <2>4, <2>5 DEF CarriedInv
    <1>4. ASSUME NEW s \in Slates, NEW a \in Accounts, ReceiveTx(s, a)
          PROVE  CarriedInv'
        <2>1. /\ replies' = [replies EXCEPT ![s] = @ \cup NewKeys(1)]
              /\ UNCHANGED <<contexts, stored, slates, final, pool, mined>>
            BY <1>4 DEF ReceiveTx, node
        <2>2. \A t \in Slates : replies[t] \subseteq replies'[t]
            BY <1>typ, <2>1
        <2>3. QED
            BY <1>typ, <2>1, <2>2 DEF CarriedInv, Initiated
    <1>5. ASSUME NEW i \in DOMAIN txlog[active], RepostTx(i)
          PROVE  CarriedInv'
        <2>1. PICK s \in OwnSlates :
                /\ stored[s].form = "final"
                /\ pool' = pool \cup {[slate |-> s, reply |-> stored[s].reply]}
                /\ UNCHANGED <<contexts, stored, slates, replies, final, mined>>
            BY <1>5 DEF RepostTx, world
        <2>2. QED
            BY <2>1 DEF CarriedInv, Initiated
    <1>6. ASSUME NEW t \in final, PostTx(t)
          PROVE  CarriedInv'
        BY <1>6 DEF PostTx, db, world, CarriedInv, Initiated
    <1>7. ASSUME NEW t \in pool, Mine(t)
          PROVE  CarriedInv'
        BY <1>7 DEF Mine, db, world, CarriedInv, Initiated, KeysInv
    <1>8. ASSUME NEW s \in ForeignSlates, NEW k \in replies[s], MineForeign(s, k)
          PROVE  CarriedInv'
        <2>1. /\ mined' = mined \cup {[slate |-> s, reply |-> {k}]}
              /\ UNCHANGED <<contexts, stored, slates, replies, final, pool>>
            BY <1>8 DEF MineForeign, Mine, db, world
        <2>2. s \notin OwnSlates
            BY LedgerAssumption DEF LedgerAssumption
        <2>3. QED
            BY <2>1, <2>2 DEF CarriedInv, Initiated
    <1>9. ASSUME UNCHANGED <<contexts, stored, slates, replies, final, pool, mined>>
          PROVE  CarriedInv'
        BY <1>9 DEF CarriedInv, Initiated
    <1>10. QED
        <2>1. ASSUME NEW a \in Accounts, InitSendTxFails(a) \/ SetActiveAccount(a)
              PROVE  CarriedInv'
            BY <1>9, <2>1 DEF InitSendTxFails, SetActiveAccount, db, world, node
        <2>2. ASSUME NEW s \in Slates, NEW a \in Accounts, ReceiveTxFails(s, a)
              PROVE  CarriedInv'
            BY <1>9, <2>2 DEF ReceiveTxFails, world, node
        <2>3. ASSUME Refresh \/ \E i \in DOMAIN txlog[active] : CancelTx(i)
              PROVE  CarriedInv'
            BY <1>9, <2>3 DEF Refresh, CancelTx, world, node
        <2>4. CASE UNCHANGED vars
            BY <1>9, <2>4 DEF vars, db, world, node
        <2>5. QED
            BY <1>1, <1>2, <1>3, <1>4, <1>5, <1>6, <1>7, <1>8, <2>1, <2>2, <2>3, <2>4
               DEF Next, Send, Receive, Settle, Environment

LEMMA SpendInit == Init => SpendInv
    <1> SUFFICES ASSUME Init PROVE SpendInv
        OBVIOUS
    <1>1. Coins \subseteq Derived
        BY LedgerAssumption DEF LedgerAssumption, Init, Coins, Derived
    <1>2. \A s \in Slates : KeysOf(s) = {}
        BY DEF Init, KeysOf, Blank
    <1>3. QED
        BY <1>1, <1>2 DEF Init, SpendInv, Origin

\* A call that leaves the chain and the mined slates alone and takes its keys
\* from beyond the indices keeps SpendInv.
LEMMA SpendKept ==
    ASSUME SpendInv, Derived \subseteq Derived',
           \A s \in Slates : KeysOf(s)' \subseteq KeysOf(s) \cup (Derived' \ Derived),
           \A t \in mined : Inputs(t)' = Inputs(t) /\ Created(t)' = Created(t),
           UNCHANGED <<mined, utxo>>
    PROVE  SpendInv'
    <1>1. \A k : Origin(k)' <=> Origin(k)
        BY DEF Origin, Coins
    <1>2. Coins' = Coins
        BY DEF Coins
    <1>3. \A s \in Slates : KeysOf(s)' \cap Coins = {}
        BY DEF SpendInv
    <1>4. QED
        BY <1>1, <1>2, <1>3 DEF SpendInv

\* A slate is mined once: a second transaction of it would spend its inputs
\* again, and the other wallet completes one answer only.
LEMMA MineKeepsSpend ==
    ASSUME Shapes, KeysInv, CarriedInv, SpendInv, NEW t \in Transaction,
           t.reply \subseteq replies[t.slate],
           \/ t.slate \in OwnSlates /\ Initiated(t.slate)
           \/ t.slate \notin OwnSlates /\ \A u \in mined : u.slate # t.slate,
           Mine(t)
    PROVE  SpendInv'
    <1>1. /\ Inputs(t) \subseteq utxo
          /\ mined' = mined \cup {t}
          /\ utxo' = (utxo \ Inputs(t)) \cup Created(t)
          /\ UNCHANGED <<slates, replies, childIdx>>
        BY DEF Mine, Accepts, db, world
    <1>2. /\ \A u : Inputs(u)' = Inputs(u) /\ Created(u)' = Created(u)
          /\ \A s \in Slates : KeysOf(s)' = KeysOf(s)
          /\ Derived' = Derived /\ Coins' = Coins
        BY <1>1 DEF Inputs, Created, KeysOf, Derived, Coins
    <1>3. ASSUME NEW u \in mined
          PROVE  u.slate # t.slate
        <2>1. SUFFICES ASSUME t.slate \in OwnSlates, Initiated(t.slate), u.slate = t.slate
                       PROVE  FALSE
            OBVIOUS
        <2>2. Inputs(u) = Inputs(t) /\ Inputs(t) # {}
            BY <2>1 DEF Inputs, Initiated
        <2>3. QED
            BY <1>1, <2>2 DEF SpendInv
    <1>4. t.slate \in Slates /\ \A u \in mined : u.slate \in Slates
        BY DEF Transaction, Shapes
    <1>5. Created(t) \subseteq KeysOf(t.slate)
        BY DEF Created, KeysOf
    <1>6. ASSUME NEW k, Origin(k)
          PROVE  k \notin Created(t)
        <2>1. ASSUME NEW u \in mined, k \in Created(u)
              PROVE  k \notin Created(t)
            BY <1>3, <1>4, <1>5, <2>1, CreatedIsOfSlate, KeysOfDisjoint
        <2>2. ASSUME k \in Coins
              PROVE  k \notin Created(t)
            BY <1>4, <1>5, <2>2 DEF SpendInv
        <2>3. QED
            BY <1>6, <2>1, <2>2 DEF Origin
    <1>7. \A k : Origin(k) \/ k \in Created(t) => Origin(k)'
        BY <1>1, <1>2 DEF Origin
    <1>8. ASSUME NEW u \in mined'
          PROVE  Inputs(u) \cap utxo' = {} /\ \A k \in Inputs(u) : Origin(k)
        <2>1. CASE u \in mined
            BY <1>1, <1>6, <2>1 DEF SpendInv
        <2>2. CASE u = t
            BY <1>1, <1>6, <2>2 DEF SpendInv
        <2>3. QED
            BY <1>1, <2>1, <2>2
    <1>9. QED
        BY <1>1, <1>2, <1>7, <1>8 DEF SpendInv

LEMMA SpendNext == Shapes /\ KeysInv /\ CarriedInv /\ SpendInv /\ [Next]_vars => SpendInv'
    <1> SUFFICES ASSUME Shapes, KeysInv, CarriedInv, SpendInv, [Next]_vars
                 PROVE  SpendInv'
        OBVIOUS
    <1>1. ASSUME NEW s \in OwnSlates, NEW a \in Accounts, InitSendTx(s, a)
          PROVE  SpendInv'
        <2>1. /\ ~Initiated(s)
              /\ \A t \in OwnSlates \ {s} : slates'[t] = slates[t]
              /\ Derived \subseteq Derived' /\ slates'[s].change \cap Derived = {}
            BY <1>1, InitSendTxSlates
        <2>2. UNCHANGED <<replies, mined, utxo>>
            BY <1>1 DEF InitSendTx, node
        <2>3. \A t \in mined : t.slate # s
            BY <2>1 DEF CarriedInv
        <2>4. \A t \in mined : Inputs(t)' = Inputs(t) /\ Created(t)' = Created(t)
            BY <2>1, <2>2, <2>3 DEF Inputs, Created
        <2>5. slates'[s].change \subseteq Derived'
            BY KeysNext DEF KeysInv, NoKeyReuse
        <2>6. \A t \in Slates : KeysOf(t)' \subseteq KeysOf(t) \cup (Derived' \ Derived)
            BY <2>1, <2>2, <2>5 DEF KeysOf
        <2>7. QED
            BY <2>1, <2>2, <2>4, <2>6, SpendKept
    <1>2. ASSUME NEW s \in Slates, NEW a \in Accounts, ReceiveTx(s, a)
          PROVE  SpendInv'
        <2>1. /\ replies' = [replies EXCEPT ![s] = @ \cup NewKeys(1)]
              /\ DeriveKeys(1)
              /\ UNCHANGED <<slates, mined, utxo>>
            BY <1>2 DEF ReceiveTx, BuildRecipientOutput, node
        <2>2. Derived' = Derived \cup NewKeys(1) /\ Derived \cap NewKeys(1) = {}
            BY <2>1, DerivedGrows
        <2>3. replies \in [Slates -> SUBSET Key]
            BY DEF Shapes
        <2>4. \A t \in Slates : KeysOf(t)' \subseteq KeysOf(t) \cup (Derived' \ Derived)
            BY <2>1, <2>2, <2>3 DEF KeysOf
        <2>5. \A t \in mined : Inputs(t)' = Inputs(t) /\ Created(t)' = Created(t)
            BY <2>1 DEF Inputs, Created
        <2>6. QED
            BY <2>1, <2>2, <2>4, <2>5, SpendKept
    <1>3. ASSUME Derived \subseteq Derived', UNCHANGED <<slates, replies, mined, utxo>>
          PROVE  SpendInv'
        <2>1. \A t : Inputs(t)' = Inputs(t) /\ Created(t)' = Created(t)
            BY <1>3 DEF Inputs, Created
        <2>2. \A t \in Slates : KeysOf(t)' = KeysOf(t)
            BY <1>3 DEF KeysOf
        <2>3. QED
            BY <1>3, <2>1, <2>2, SpendKept
    <1>4. ASSUME NEW n \in Nat, DeriveKeys(n), UNCHANGED <<slates, replies, mined, utxo>>
          PROVE  SpendInv'
        <2>1. Derived \subseteq Derived'
            BY <1>4, DerivedGrows
        <2>2. QED
            BY <1>3, <1>4, <2>1
    <1>5. ASSUME UNCHANGED <<childIdx, slates, replies, mined, utxo>>
          PROVE  SpendInv'
        <2>1. Derived' = Derived
            BY <1>5 DEF Derived
        <2>2. QED
            BY <1>3, <1>5, <2>1
    <1>6. ASSUME NEW t \in pool, Mine(t)
          PROVE  SpendInv'
        <2>1. /\ t \in Transaction /\ t.reply \subseteq replies[t.slate]
              /\ t.slate \in OwnSlates /\ Initiated(t.slate)
            BY DEF Shapes, KeysInv, CarriedInv
        <2>2. QED
            BY <1>6, <2>1, MineKeepsSpend
    <1>7. ASSUME NEW s \in ForeignSlates, NEW k \in replies[s], MineForeign(s, k)
          PROVE  SpendInv'
        <2> DEFINE t == [slate |-> s, reply |-> {k}]
        <2>1. s \in Slates /\ s \notin OwnSlates
            BY LedgerAssumption DEF LedgerAssumption, Slates
        <2>2. {k} \subseteq Key
            BY <2>1 DEF Shapes
        <2>3. t \in Transaction /\ t.slate = s /\ t.reply = {k}
            BY <2>1, <2>2 DEF Transaction
        <2>4. Mine(t) /\ \A u \in mined : u.slate # s
            BY <1>7 DEF MineForeign
        <2> HIDE DEF t
        <2>5. QED
            BY <2>1, <2>3, <2>4, MineKeepsSpend
    <1>8. QED
        <2>1. ASSUME NEW a \in Accounts, InitSendTxFails(a)
              PROVE  SpendInv'
            <3>1. PICK n \in ChangeCounts \cup {0} : DeriveKeys(n)
                BY <2>1 DEF InitSendTxFails
            <3>2. n \in Nat /\ UNCHANGED <<slates, replies, mined, utxo>>
                BY <2>1, LedgerAssumption DEF LedgerAssumption, InitSendTxFails, world, node
            <3>3. QED
                BY <1>4, <3>1, <3>2
        <2>2. ASSUME NEW s \in OwnSlates,
                     TxLockOutputs(s) \/ TxLockOutputsCrash(s)
                     \/ \E r \in Answers(s) : FinalizeTx(s, r) \/ FinalizeTxCrash(s, r)
              PROVE  SpendInv'
            BY <1>5, <2>2 DEF TxLockOutputs, TxLockOutputsCrash, FinalizeTx, FinalizeTxCrash,
                              world, node
        <2>3. ASSUME NEW s \in Slates, NEW a \in Accounts, ReceiveTxFails(s, a)
              PROVE  SpendInv'
            <3>1. DeriveKeys(1) /\ UNCHANGED <<slates, replies, mined, utxo>>
                BY <2>3 DEF ReceiveTxFails, BuildRecipientOutput, world, node
            <3>2. QED
                BY <1>4, <3>1
        <2>4. ASSUME \/ Refresh
                     \/ \E i \in DOMAIN txlog[active] : CancelTx(i) \/ RepostTx(i)
                     \/ \E t \in final \ pool : PostTx(t)
                     \/ \E a \in Accounts : SetActiveAccount(a)
                     \/ UNCHANGED vars
              PROVE  SpendInv'
            <3>1. UNCHANGED <<childIdx, slates, replies, mined, utxo>>
                BY <2>4 DEF Refresh, CancelTx, RepostTx, PostTx, SetActiveAccount,
                            vars, db, world, node
            <3>2. QED
                BY <1>5, <3>1
        <2>5. QED
            BY <1>1, <1>2, <1>6, <1>7, <2>1, <2>2, <2>3, <2>4
               DEF Next, Send, Receive, Settle, Environment

\* All that is known so far, and the chain.
ChainInv == Shapes /\ KeysInv /\ AccountsInv /\ CarriedInv /\ SpendInv

LEMMA ChainNext == ChainInv /\ [Next]_vars => ChainInv'
    BY ShapesNext, KeysNext, AccountsNext, CarriedNext, SpendNext DEF ChainInv

LEMMA ChainInvariant == Spec => []ChainInv
    <1>1. Init => ChainInv
        BY ShapesInit, KeysInit, AccountsInit, CarriedInit, SpendInit DEF ChainInv
    <1>2. QED
        BY <1>1, ChainNext, PTL DEF Spec

-----------------------------------------------------------------------------
(* What each call does to the records.  cancel_tx works on the refreshed   *)
(* database, so both are stated for outputs and a log given as arguments.  *)

Entry(outs, log, k) == log[outs[k].acct][outs[k].tx]

\* A database of the right shapes whose outputs name entries.
WellFormed(outs, log) ==
    /\ TypedDb(outs, log)
    /\ \A k \in DOMAIN outs : outs[k].tx \in DOMAIN log[outs[k].acct]

LEMMA DbWellFormed == ASSUME ChainInv PROVE WellFormed(outputs, txlog)
    BY DEF ChainInv, Shapes, AccountsInv, WellFormed, TypedDb

\* The refresh decides the statuses by the chain and confirms by Confirms.
LEMMA RefreshEffect ==
    ASSUME ChainInv, NEW a \in Accounts
    PROVE  /\ WellFormed(RefreshedOutputs(a), RefreshedLog(a))
           /\ DOMAIN RefreshedOutputs(a) = DOMAIN outputs
           /\ \A k \in DOMAIN outputs :
                /\ RefreshedOutputs(a)[k].acct = outputs[k].acct
                /\ RefreshedOutputs(a)[k].tx = outputs[k].tx
                /\ RefreshedOutputs(a)[k].status =
                        IF k \notin Refreshable(a) THEN outputs[k].status
                        ELSE IF k \in utxo THEN MarkUnspent(outputs[k].status)
                                           ELSE MarkSpent(outputs[k].status)
           /\ \A b \in Accounts : DOMAIN RefreshedLog(a)[b] = DOMAIN txlog[b]
           /\ \A b \in Accounts : \A i \in DOMAIN txlog[b] :
                /\ RefreshedLog(a)[b][i].type = txlog[b][i].type
                /\ RefreshedLog(a)[b][i].slate = txlog[b][i].slate
                /\ RefreshedLog(a)[b][i].confirmed =>
                        txlog[b][i].confirmed \/ (b = a /\ Confirms(a, i))
    <1>1. Shapes /\ WellFormed(outputs, txlog)
        BY DbWellFormed DEF ChainInv
    <1>2. \A k \in DOMAIN outputs : outputs[k] \in OutputData
        BY <1>1 DEF Shapes
    <1>3. ASSUME NEW k \in DOMAIN outputs
          PROVE  RefreshedOutputs(a)[k].status =
                        IF k \notin Refreshable(a) THEN outputs[k].status
                        ELSE IF k \in utxo THEN MarkUnspent(outputs[k].status)
                                           ELSE MarkSpent(outputs[k].status)
        <2> DEFINE st == IF k \in utxo THEN MarkUnspent(outputs[k].status)
                                       ELSE MarkSpent(outputs[k].status)
        <2>1. CASE k \notin Refreshable(a)
            BY <2>1 DEF RefreshedOutputs
        <2>2. CASE k \in Refreshable(a)
            <3>1. RefreshedOutputs(a)[k] = [outputs[k] EXCEPT !.status = st]
                BY <2>2 DEF RefreshedOutputs
            <3> HIDE DEF st
            <3>2. RefreshedOutputs(a)[k].status = st
                BY <1>2, <3>1 DEF OutputData
            <3>3. QED
                BY <2>2, <3>2 DEF st
        <2>3. QED
            BY <2>1, <2>2
    <1>4. /\ DOMAIN RefreshedOutputs(a) = DOMAIN outputs
          /\ \A k \in DOMAIN outputs : /\ RefreshedOutputs(a)[k].acct = outputs[k].acct
                                       /\ RefreshedOutputs(a)[k].tx = outputs[k].tx
          /\ TypedDb(RefreshedOutputs(a), RefreshedLog(a))
        BY <1>1, RefreshedOutputsTyped, RefreshTyped
    <1>5. \A b \in Accounts :
            /\ DOMAIN RefreshedLog(a)[b] = DOMAIN txlog[b]
            /\ \A i \in DOMAIN txlog[b] :
                /\ RefreshedLog(a)[b][i].type = txlog[b][i].type
                /\ RefreshedLog(a)[b][i].slate = txlog[b][i].slate
                /\ RefreshedLog(a)[b][i] # txlog[b][i] => Confirms(a, i) /\ b = a
        BY <1>1, RefreshedLogTyped
    <1>6. ASSUME NEW b \in Accounts, NEW i \in DOMAIN txlog[b],
                 RefreshedLog(a)[b][i].confirmed
          PROVE  txlog[b][i].confirmed \/ (b = a /\ Confirms(a, i))
        BY <1>5, <1>6
    <1>7. \A k \in DOMAIN outputs : outputs[k].acct \in Accounts
        BY <1>2 DEF OutputData
    <1>8. WellFormed(RefreshedOutputs(a), RefreshedLog(a))
        BY <1>1, <1>4, <1>5, <1>7 DEF WellFormed
    <1>9. QED
        BY <1>3, <1>4, <1>5, <1>6, <1>8

\* cancel_tx_and_outputs, on the refreshed database.
Deleted(outs, i) == {k \in Involved(outs, i) : outs[k].status = "Unconfirmed"}
CancelledOutputs(outs, i) ==
    [k \in DOMAIN outs \ Deleted(outs, i) |->
        IF k \in Involved(outs, i) THEN Unlock(outs[k]) ELSE outs[k]]
CancelledLog(log, i) ==
    [log EXCEPT ![active][i].type =
        IF @ = "TxSent" THEN "TxSentCancelled" ELSE "TxReceivedCancelled"]

LEMMA CancelIs ==
    ASSUME NEW i, CancelTx(i)
    PROVE  /\ Cancellable(RefreshedLog(active)[active][i])
           /\ outputs' = CancelledOutputs(RefreshedOutputs(active), i)
           /\ txlog' = CancelledLog(RefreshedLog(active), i)
           /\ UNCHANGED <<stored, slates, replies, final, pool, mined, utxo>>
    BY DEF CancelTx, CancelledOutputs, CancelledLog, Deleted, world, node

LEMMA CancelledOutputsAre ==
    ASSUME NEW outs, NEW i, \A k \in DOMAIN outs : outs[k] \in OutputData
    PROVE  /\ DOMAIN CancelledOutputs(outs, i) = DOMAIN outs \ Deleted(outs, i)
           /\ \A k \in DOMAIN CancelledOutputs(outs, i) :
                /\ CancelledOutputs(outs, i)[k].acct = outs[k].acct
                /\ CancelledOutputs(outs, i)[k].tx = outs[k].tx
                /\ CancelledOutputs(outs, i)[k].status =
                        IF k \in Involved(outs, i) /\ outs[k].status = "Locked"
                        THEN "Unspent" ELSE outs[k].status
    BY DEF CancelledOutputs, Unlock, OutputData

LEMMA CancelledLogIs ==
    ASSUME active \in Accounts, NEW log \in [Accounts -> Seq(TxLogEntry)],
           NEW i \in DOMAIN log[active]
    PROVE  /\ \A b \in Accounts : DOMAIN CancelledLog(log, i)[b] = DOMAIN log[b]
           /\ \A b \in Accounts : \A j \in DOMAIN log[b] :
                /\ CancelledLog(log, i)[b][j].slate = log[b][j].slate
                /\ CancelledLog(log, i)[b][j].confirmed = log[b][j].confirmed
                /\ b # active \/ j # i => CancelledLog(log, i)[b][j] = log[b][j]
           /\ CancelledLog(log, i)[active][i].type \in {"TxSentCancelled", "TxReceivedCancelled"}
    <1> DEFINE ty == IF log[active][i].type = "TxSent" THEN "TxSentCancelled"
                                                     ELSE "TxReceivedCancelled"
               e == [log[active][i] EXCEPT !.type = ty]
    <1>1. CancelledLog(log, i) = [log EXCEPT ![active] = [log[active] EXCEPT ![i] = e]]
        BY DEF CancelledLog
    <1>2. ty \in {"TxSentCancelled", "TxReceivedCancelled"}
        OBVIOUS
    <1> HIDE DEF ty
    <1>3. log[active][i] \in TxLogEntry
        BY LenProperties, ElementOfSeq
    <1>4. e.type = ty /\ e.slate = log[active][i].slate /\ e.confirmed = log[active][i].confirmed
        BY <1>3 DEF TxLogEntry
    <1> HIDE DEF e
    <1>5. /\ \A b \in Accounts \ {active} : CancelledLog(log, i)[b] = log[b]
          /\ DOMAIN CancelledLog(log, i)[active] = DOMAIN log[active]
          /\ CancelledLog(log, i)[active][i] = e
          /\ \A j \in DOMAIN log[active] \ {i} : CancelledLog(log, i)[active][j] = log[active][j]
        BY <1>1
    <1>6. QED
        BY <1>2, <1>4, <1>5

\* tx_lock_outputs: entry id of the slate's account is new, the change is new
\* and the inputs are locked under it.
EntryAdded(a, id, type, s) ==
    /\ txlog' \in [Accounts -> Seq(TxLogEntry)]
    /\ id \notin DOMAIN txlog[a] /\ DOMAIN txlog'[a] = DOMAIN txlog[a] \cup {id}
    /\ txlog'[a][id].type = type /\ txlog'[a][id].slate = s
    /\ ~txlog'[a][id].confirmed
    /\ \A i \in DOMAIN txlog[a] : txlog'[a][i] = txlog[a][i]
    /\ \A b \in Accounts \ {a} : txlog'[b] = txlog[b]

LockedUnder(s, id) ==
    /\ DOMAIN outputs' = DOMAIN outputs \cup slates[s].change
    /\ \A k \in slates[s].change :
        /\ outputs'[k].acct = slates[s].acct /\ outputs'[k].tx = id
        /\ outputs'[k].status = "Unconfirmed"
    /\ \A k \in slates[s].inputs \ slates[s].change :
        /\ k \in DOMAIN outputs
        /\ outputs'[k].acct = slates[s].acct /\ outputs'[k].tx = id
        /\ outputs'[k].status = "Locked"
    /\ \A k \in DOMAIN outputs \ (slates[s].change \cup slates[s].inputs) :
        outputs'[k] = outputs[k]

LEMMA LockEffect ==
    ASSUME ChainInv, NEW s \in OwnSlates, TxLockOutputs(s)
    PROVE  /\ slates[s].acct \in Accounts /\ Initiated(s)
           /\ \E id : EntryAdded(slates[s].acct, id, "TxSent", s) /\ LockedUnder(s, id)
           /\ UNCHANGED <<slates, replies, final, pool, mined, utxo>>
           /\ \A t \in OwnSlates : stored'[t].form = "final" => stored[t].form = "final"
    <1> DEFINE a == slates[s].acct
               id == Len(txlog[a]) + 1
    <1>1. /\ a \in Accounts /\ s \in Slates /\ stored \in [OwnSlates -> StoredTx]
          /\ \A k \in DOMAIN outputs : outputs[k] \in OutputData
        BY DEF ChainInv, Shapes, SendSlate, Slates
    <1>2. /\ AddToLog(a, "TxSent", s) /\ "TxSent" \in TxType
          /\ s \in contexts
          /\ slates[s].inputs \subseteq DOMAIN outputs
          /\ outputs' = [k \in DOMAIN outputs \cup slates[s].change |->
                            IF k \in slates[s].change
                            THEN [acct |-> a, status |-> "Unconfirmed", tx |-> id]
                            ELSE IF k \in slates[s].inputs
                            THEN [outputs[k] EXCEPT !.status = "Locked", !.tx = id]
                            ELSE outputs[k]]
          /\ stored' = [stored EXCEPT ![s] = Partial]
          /\ UNCHANGED <<slates, replies, final, pool, mined, utxo>>
        BY DEF TxLockOutputs, TxType, world, node
    <1> HIDE DEF a
    <1>3. /\ txlog' \in [Accounts -> Seq(TxLogEntry)]
          /\ id \notin DOMAIN txlog[a] /\ DOMAIN txlog'[a] = DOMAIN txlog[a] \cup {id}
          /\ txlog'[a][id] = [type |-> "TxSent", slate |-> s, confirmed |-> FALSE]
          /\ \A i \in DOMAIN txlog[a] : txlog'[a][i] = txlog[a][i]
          /\ \A b \in Accounts \ {a} : txlog'[b] = txlog[b]
        BY <1>1, <1>2, AddToLogTyped DEF ChainInv
    <1>4. /\ txlog'[a][id].type = "TxSent" /\ txlog'[a][id].slate = s
          /\ ~txlog'[a][id].confirmed
        BY <1>3
    <1> HIDE DEF id
    <1>5. \A k \in slates[s].change :
                /\ outputs'[k].acct = a /\ outputs'[k].tx = id
                /\ outputs'[k].status = "Unconfirmed"
        BY <1>2
    <1>6. ASSUME NEW k \in slates[s].inputs \ slates[s].change
          PROVE  /\ k \in DOMAIN outputs
                 /\ outputs'[k].acct = a /\ outputs'[k].tx = id
                 /\ outputs'[k].status = "Locked"
        <2>1. k \in DOMAIN outputs /\ outputs[k] \in OutputData /\ outputs[k].acct = a
            BY <1>1, <1>2 DEF ChainInv, AccountsInv, a
        <2>2. outputs'[k] = [outputs[k] EXCEPT !.status = "Locked", !.tx = id]
            BY <1>2, <2>1
        <2>3. QED
            BY <2>1, <2>2 DEF OutputData
    <1>7. /\ DOMAIN outputs' = DOMAIN outputs \cup slates[s].change
          /\ \A k \in DOMAIN outputs \ (slates[s].change \cup slates[s].inputs) :
                outputs'[k] = outputs[k]
        BY <1>2
    <1>8. Initiated(s)
        BY <1>2 DEF ChainInv, CarriedInv
    <1>9. \A t \in OwnSlates : stored'[t].form = "final" => stored[t].form = "final"
        BY <1>1, <1>2 DEF Partial
    <1>10. EntryAdded(a, id, "TxSent", s)
        BY <1>3, <1>4 DEF EntryAdded
    <1>11. LockedUnder(s, id)
        BY <1>5, <1>6, <1>7 DEF LockedUnder, a
    <1>12. QED
        BY <1>1, <1>2, <1>8, <1>9, <1>10, <1>11 DEF a

\* build_recipient_output: one fresh key under a new entry.
ReceivedUnder(a, id) ==
    /\ DOMAIN outputs' = DOMAIN outputs \cup NewKeys(1)
    /\ \A j, k \in NewKeys(1) : j = k
    /\ \A k \in NewKeys(1) :
        /\ outputs'[k].acct = a /\ outputs'[k].tx = id
        /\ outputs'[k].status = "Unconfirmed"
    /\ \A k \in DOMAIN outputs : outputs'[k] = outputs[k]

LEMMA ReceiveEffect ==
    ASSUME ChainInv, NEW s \in Slates, NEW a \in Accounts, BuildRecipientOutput(s, a)
    PROVE  /\ NewKeys(1) \cap Derived = {} /\ Derived \subseteq Derived'
           /\ \E id : EntryAdded(a, id, "TxReceived", s) /\ ReceivedUnder(a, id)
    <1> DEFINE id == Len(txlog[a]) + 1
    <1>1. /\ DeriveKeys(1)
          /\ AddToLog(a, "TxReceived", s) /\ "TxReceived" \in TxType
          /\ outputs' = [k \in DOMAIN outputs \cup NewKeys(1) |->
                            IF k \in NewKeys(1)
                            THEN [acct |-> a, status |-> "Unconfirmed", tx |-> id]
                            ELSE outputs[k]]
        BY DEF BuildRecipientOutput, TxType
    <1>2. /\ Derived' = Derived \cup NewKeys(1) /\ Derived \cap NewKeys(1) = {}
          /\ DOMAIN outputs \subseteq Derived
        BY <1>1, DerivedGrows DEF ChainInv, KeysInv, NoKeyReuse
    <1>3. /\ txlog' \in [Accounts -> Seq(TxLogEntry)]
          /\ id \notin DOMAIN txlog[a] /\ DOMAIN txlog'[a] = DOMAIN txlog[a] \cup {id}
          /\ txlog'[a][id] = [type |-> "TxReceived", slate |-> s, confirmed |-> FALSE]
          /\ \A i \in DOMAIN txlog[a] : txlog'[a][i] = txlog[a][i]
          /\ \A b \in Accounts \ {a} : txlog'[b] = txlog[b]
        BY <1>1, AddToLogTyped DEF ChainInv
    <1>4. /\ txlog'[a][id].type = "TxReceived" /\ txlog'[a][id].slate = s
          /\ ~txlog'[a][id].confirmed
        BY <1>3
    <1> HIDE DEF id
    <1>5. ASSUME NEW j \in NewKeys(1), NEW k \in NewKeys(1)
          PROVE  j = k
        <2>1. childIdx[active] \in Nat
            BY DEF ChainInv, Shapes
        <2>2. childIdx[active] .. childIdx[active] + 1 - 1 = {childIdx[active]}
            BY <2>1
        <2>3. QED
            BY <2>2 DEF NewKeys
    <1>6. /\ DOMAIN outputs' = DOMAIN outputs \cup NewKeys(1)
          /\ \A k \in NewKeys(1) : /\ outputs'[k].acct = a /\ outputs'[k].tx = id
                                   /\ outputs'[k].status = "Unconfirmed"
          /\ \A k \in DOMAIN outputs : outputs'[k] = outputs[k]
        BY <1>1, <1>2
    <1>7. EntryAdded(a, id, "TxReceived", s)
        BY <1>3, <1>4 DEF EntryAdded
    <1>8. ReceivedUnder(a, id)
        BY <1>5, <1>6 DEF ReceivedUnder
    <1>9. QED
        BY <1>2, <1>7, <1>8

-----------------------------------------------------------------------------
(* The records and the chain.  An entry is confirmed by the key of an      *)
(* output, so the invariant follows a key from its slate to the entry its  *)
(* output names; an output is deleted only with its entry cancelled.       *)

SentIn(log, s) ==
    \E a \in Accounts : \E i \in DOMAIN log[a] :
        log[a][i].type = "TxSent" /\ log[a][i].slate = s
Signed(s) ==
    stored[s].form = "final" \/ \E t \in final \cup pool \cup mined : t.slate = s
CancelledIn(log, s) ==
    \E a \in Accounts : \E i \in DOMAIN log[a] :
        /\ log[a][i].slate = s
        /\ log[a][i].type \in {"TxSentCancelled", "TxReceivedCancelled"}

\* An output that is waiting for the chain names the entry of its slate.
Named(outs, log) ==
    \A k \in DOMAIN outs : outs[k].status = "Unconfirmed" =>
        /\ k \notin Coins
        /\ \A s \in Slates : k \in KeysOf(s) => Entry(outs, log, k).slate = s

ConfirmedIn(log) ==
    \A a \in Accounts : \A i \in DOMAIN log[a] :
        log[a][i].confirmed /\ log[a][i].slate # NoSlate =>
            \E t \in mined : t.slate = log[a][i].slate

\* The keys that left the wallet are in the database, or cancelled.
Tracked(outs, log) ==
    /\ \A s \in Slates : replies[s] \subseteq DOMAIN outs \/ CancelledIn(log, s)
    /\ \A s \in OwnSlates : SentIn(log, s) =>
            Initiated(s)
    /\ \A s \in OwnSlates : SentIn(log, s) \/ Signed(s) =>
            slates[s].change \subseteq DOMAIN outs \/ CancelledIn(log, s)

RecordInv(outs, log) == Named(outs, log) /\ ConfirmedIn(log) /\ Tracked(outs, log)

LEMMA RecordInit == Init => RecordInv(outputs, txlog)
    <1> SUFFICES ASSUME Init PROVE RecordInv(outputs, txlog)
        OBVIOUS
    <1> DEFINE e == [type |-> "TxReceived", slate |-> NoSlate, confirmed |-> TRUE]
    <1>1. \A a \in Accounts : txlog[a] = <<e>> \/ txlog[a] = << >>
        BY DEF Init
    <1>2. e.type = "TxReceived" /\ e.slate = NoSlate
        OBVIOUS
    <1> HIDE DEF e
    <1>3. ASSUME NEW a \in Accounts, NEW i \in DOMAIN txlog[a]
          PROVE  txlog[a][i].slate = NoSlate /\ txlog[a][i].type = "TxReceived"
        <2>1. txlog[a] = <<e>> /\ i = 1
            BY <1>1
        <2>2. QED
            BY <1>2, <2>1
    <1>4. \A s \in Slates : ~SentIn(txlog, s)
        BY <1>3 DEF SentIn
    <1>5. \A k \in DOMAIN outputs : outputs[k].status = "Unspent"
        BY DEF Init
    <1>6. \A s \in OwnSlates : ~Signed(s)
        BY DEF Init, Signed, NotStored
    <1>7. \A s \in Slates : replies[s] = {}
        BY DEF Init
    <1>8. QED
        BY <1>3, <1>4, <1>5, <1>6, <1>7
           DEF RecordInv, Named, ConfirmedIn, Tracked, Slates

\* An output that confirms an entry was put on the chain by a transaction of
\* the entry's slate.
LEMMA ConfirmingIsMined ==
    ASSUME ChainInv, Named(outputs, txlog), NEW a \in Accounts,
           NEW k \in Refreshable(a) \cap utxo, outputs[k].status = "Unconfirmed"
    PROVE  \E t \in mined : /\ k \in Created(t)
                            /\ t.slate = Entry(outputs, txlog, k).slate
    <1>1. k \in DOMAIN outputs /\ k \notin Coins
        BY DEF Refreshable, Named
    <1>2. PICK t \in mined : k \in Created(t)
        BY <1>1 DEF ChainInv, SpendInv, Origin
    <1>3. t.slate \in Slates /\ k \in KeysOf(t.slate)
        BY <1>2, CreatedIsOfSlate DEF ChainInv, Shapes, Transaction
    <1>4. QED
        BY <1>1, <1>2, <1>3 DEF Named

LEMMA RefreshKeepsRecords ==
    ASSUME ChainInv, RecordInv(outputs, txlog), NEW a \in Accounts
    PROVE  RecordInv(RefreshedOutputs(a), RefreshedLog(a))
    <1> DEFINE outs == RefreshedOutputs(a)
               log == RefreshedLog(a)
    <1>1. /\ DOMAIN outs = DOMAIN outputs
          /\ \A k \in DOMAIN outputs :
                /\ outs[k].acct = outputs[k].acct /\ outs[k].tx = outputs[k].tx
                /\ outs[k].status = IF k \notin Refreshable(a) THEN outputs[k].status
                        ELSE IF k \in utxo THEN MarkUnspent(outputs[k].status)
                                           ELSE MarkSpent(outputs[k].status)
          /\ \A b \in Accounts : DOMAIN log[b] = DOMAIN txlog[b]
          /\ \A b \in Accounts : \A i \in DOMAIN txlog[b] :
                /\ log[b][i].type = txlog[b][i].type
                /\ log[b][i].slate = txlog[b][i].slate
                /\ log[b][i].confirmed => txlog[b][i].confirmed \/ (b = a /\ Confirms(a, i))
        BY RefreshEffect
    <1> HIDE DEF outs, log
    <1>2. \A k \in DOMAIN outputs :
            /\ outputs[k].acct \in Accounts
            /\ outputs[k].tx \in DOMAIN txlog[outputs[k].acct]
        BY DEF ChainInv, Shapes, OutputData, AccountsInv
    <1>3. Named(outs, log)
        <2>1. \A k \in DOMAIN outputs :
                outs[k].status = "Unconfirmed" => outputs[k].status = "Unconfirmed"
            BY <1>1 DEF MarkUnspent, MarkSpent
        <2>2. \A k \in DOMAIN outputs :
                Entry(outs, log, k).slate = Entry(outputs, txlog, k).slate
            BY <1>1, <1>2 DEF Entry
        <2>3. QED
            BY <1>1, <2>1, <2>2 DEF RecordInv, Named
    <1>4. ASSUME NEW b \in Accounts, NEW i \in DOMAIN log[b],
                 log[b][i].confirmed, log[b][i].slate # NoSlate
          PROVE  \E t \in mined : t.slate = log[b][i].slate
        <2>1. i \in DOMAIN txlog[b] /\ log[b][i].slate = txlog[b][i].slate
            BY <1>1
        <2>2. CASE txlog[b][i].confirmed
            BY <1>4, <2>1, <2>2 DEF RecordInv, ConfirmedIn
        <2>3. CASE b = a /\ Confirms(a, i)
            <3>1. PICK k \in Refreshable(a) \cap utxo :
                    outputs[k].status = "Unconfirmed" /\ outputs[k].tx = i
                BY <2>3 DEF Confirms
            <3>2. Entry(outputs, txlog, k) = txlog[b][i]
                BY <2>3, <3>1 DEF Entry, Refreshable
            <3>3. QED
                BY <2>1, <3>1, <3>2, ConfirmingIsMined DEF RecordInv
        <2>4. QED
            BY <1>1, <1>4, <2>1, <2>2, <2>3
    <1>5. Tracked(outs, log)
        <2>1. \A s : SentIn(log, s) <=> SentIn(txlog, s)
            BY <1>1 DEF SentIn
        <2>2. \A s : CancelledIn(log, s) <=> CancelledIn(txlog, s)
            BY <1>1 DEF CancelledIn
        <2>3. QED
            BY <1>1, <2>1, <2>2 DEF RecordInv, Tracked
    <1>6. QED
        BY <1>3, <1>4, <1>5 DEF RecordInv, ConfirmedIn, outs, log

\* cancel_tx deletes the outputs that wait for the entry it cancels, and those
\* are of the slate of that entry.
LEMMA CancelKeepsRecords ==
    ASSUME ChainInv, NEW outs, NEW log, WellFormed(outs, log), RecordInv(outs, log),
           NEW i \in DOMAIN log[active]
    PROVE  RecordInv(CancelledOutputs(outs, i), CancelledLog(log, i))
    <1> DEFINE outs2 == CancelledOutputs(outs, i)
               log2 == CancelledLog(log, i)
    <1>1. active \in Accounts
        BY DEF ChainInv, Shapes
    <1>wf. /\ \A k \in DOMAIN outs : outs[k] \in OutputData
           /\ log \in [Accounts -> Seq(TxLogEntry)]
        BY DEF WellFormed, TypedDb
    <1>outs. /\ DOMAIN outs2 = DOMAIN outs \ Deleted(outs, i)
             /\ \A k \in DOMAIN outs2 :
                /\ outs2[k].acct = outs[k].acct
                /\ outs2[k].tx = outs[k].tx
                /\ outs2[k].status = IF k \in Involved(outs, i) /\ outs[k].status = "Locked"
                                     THEN "Unspent" ELSE outs[k].status
        BY <1>wf, CancelledOutputsAre
    <1>log. /\ \A b \in Accounts : DOMAIN log2[b] = DOMAIN log[b]
            /\ \A b \in Accounts : \A j \in DOMAIN log[b] :
                /\ log2[b][j].slate = log[b][j].slate
                /\ log2[b][j].confirmed = log[b][j].confirmed
                /\ b # active \/ j # i => log2[b][j] = log[b][j]
            /\ log2[active][i].type \in {"TxSentCancelled", "TxReceivedCancelled"}
        BY <1>1, <1>wf, CancelledLogIs
    <1> HIDE DEF outs2, log2
    <1>3. \A k \in DOMAIN outs :
            outs[k].acct \in Accounts /\ outs[k].tx \in DOMAIN log[outs[k].acct]
        BY DEF WellFormed, TypedDb, OutputData
    <1>4. Named(outs2, log2)
        <2>1. \A k \in DOMAIN outs2 :
                /\ k \in DOMAIN outs
                /\ outs2[k].status = "Unconfirmed" => outs[k].status = "Unconfirmed"
                /\ Entry(outs2, log2, k).slate = Entry(outs, log, k).slate
            BY <1>outs, <1>log, <1>3 DEF Entry
        <2>2. QED
            BY <2>1 DEF RecordInv, Named
    <1>5. ConfirmedIn(log2)
        BY <1>log DEF RecordInv, ConfirmedIn
    <1>6. \A s : CancelledIn(log, s) => CancelledIn(log2, s)
        BY <1>log DEF CancelledIn
    <1>7. \A s : SentIn(log2, s) => SentIn(log, s)
        BY <1>log DEF SentIn
    <1>8. ASSUME NEW s \in Slates, NEW ks \in SUBSET KeysOf(s), ks \subseteq DOMAIN outs
          PROVE  ks \subseteq DOMAIN outs2 \/ CancelledIn(log2, s)
        <2>1. SUFFICES ASSUME NEW k \in ks, k \in Deleted(outs, i)
                       PROVE  CancelledIn(log2, s)
            BY <1>outs, <1>8
        <2>2. /\ k \in DOMAIN outs /\ outs[k].status = "Unconfirmed"
              /\ outs[k].acct = active /\ outs[k].tx = i
            BY <2>1 DEF Deleted, Involved
        <2>3. log[active][i].slate = s
            BY <1>8, <2>1, <2>2 DEF RecordInv, Named, Entry
        <2>4. QED
            BY <1>1, <1>log, <2>3 DEF CancelledIn
    <1>9. Tracked(outs2, log2)
        <2>1. \A s \in Slates : replies[s] \subseteq KeysOf(s)
            BY DEF KeysOf
        <2>2. \A s \in OwnSlates : s \in Slates /\ slates[s].change \subseteq KeysOf(s)
            BY DEF KeysOf, Slates
        <2>3. QED
            BY <1>6, <1>7, <1>8, <2>1, <2>2 DEF RecordInv, Tracked
    <1>10. QED
        BY <1>4, <1>5, <1>9 DEF RecordInv, outs2, log2

\* What happens outside the database: a blank slate gets keys that no output
\* has, a send with an entry is signed, a transaction is posted or mined.
LEMMA WorldKeepsRecords ==
    ASSUME RecordInv(outputs', txlog'),
           \A s \in Slates : KeysOf(s)' \cap DOMAIN outputs' \subseteq KeysOf(s),
           \A s \in OwnSlates : Initiated(s) =>
                Initiated(s)' /\ slates'[s].change = slates[s].change,
           \A s \in OwnSlates : Signed(s)' => SentIn(txlog', s) \/ Signed(s),
           \A s \in OwnSlates : Signed(s) => Initiated(s),
           mined \subseteq mined', replies' = replies
    PROVE  RecordInv(outputs, txlog)'
    <1>1. Coins' = Coins
        BY DEF Coins
    <1>2. Named(outputs, txlog)'
        BY <1>1 DEF RecordInv, Named, Entry
    <1>3. ConfirmedIn(txlog)'
        BY DEF RecordInv, ConfirmedIn
    <1>4. /\ \A s : SentIn(txlog, s)' <=> SentIn(txlog', s)
          /\ \A s : CancelledIn(txlog, s)' <=> CancelledIn(txlog', s)
        BY DEF SentIn, CancelledIn
    <1>5. Tracked(outputs, txlog)'
        BY <1>4 DEF RecordInv, Tracked
    <1>6. QED
        BY <1>2, <1>3, <1>5 DEF RecordInv

LEMMA SignedIsInitiated ==
    ASSUME ChainInv, NEW s \in OwnSlates, Signed(s)
    PROVE  Initiated(s)
    BY DEF ChainInv, CarriedInv, Signed

LEMMA LockKeepsRecords ==
    ASSUME ChainInv, RecordInv(outputs, txlog), NEW s \in OwnSlates, TxLockOutputs(s)
    PROVE  RecordInv(outputs', txlog')
    <1> DEFINE a == slates[s].acct
    <1>pick. PICK id : EntryAdded(a, id, "TxSent", s) /\ LockedUnder(s, id)
        BY LockEffect
    <1>1. /\ a \in Accounts /\ Initiated(s)
          /\ id \notin DOMAIN txlog[a] /\ DOMAIN txlog'[a] = DOMAIN txlog[a] \cup {id}
          /\ txlog'[a][id].type = "TxSent" /\ txlog'[a][id].slate = s
          /\ ~txlog'[a][id].confirmed
          /\ \A i \in DOMAIN txlog[a] : txlog'[a][i] = txlog[a][i]
          /\ \A b \in Accounts \ {a} : txlog'[b] = txlog[b]
          /\ DOMAIN outputs' = DOMAIN outputs \cup slates[s].change
          /\ \A k \in slates[s].change : outputs'[k].acct = a /\ outputs'[k].tx = id
          /\ \A k \in slates[s].inputs \ slates[s].change : outputs'[k].status = "Locked"
          /\ \A k \in DOMAIN outputs \ (slates[s].change \cup slates[s].inputs) :
                outputs'[k] = outputs[k]
        BY <1>pick, LockEffect DEF EntryAdded, LockedUnder
    <1> HIDE DEF a
    <1>2. s \in Slates /\ slates[s].change \subseteq KeysOf(s)
        BY DEF Slates, KeysOf
    <1>3. \A k \in DOMAIN outputs :
            outputs[k].acct \in Accounts /\ outputs[k].tx \in DOMAIN txlog[outputs[k].acct]
        BY DEF ChainInv, Shapes, OutputData, AccountsInv
    <1>4. ASSUME NEW k \in DOMAIN outputs', outputs'[k].status = "Unconfirmed"
          PROVE  /\ k \notin Coins
                 /\ \A t \in Slates : k \in KeysOf(t) => Entry(outputs', txlog', k).slate = t
        <2>1. CASE k \in slates[s].change
            <3>1. k \notin Coins
                BY <1>2, <2>1 DEF ChainInv, SpendInv
            <3>2. \A t \in Slates : k \in KeysOf(t) => t = s
                BY <1>2, <2>1, KeysOfDisjoint DEF ChainInv
            <3>3. Entry(outputs', txlog', k).slate = s
                BY <1>1, <2>1 DEF Entry
            <3>4. QED
                BY <3>1, <3>2, <3>3
        <2>2. CASE k \notin slates[s].change
            <3>1. k \in DOMAIN outputs /\ outputs'[k] = outputs[k]
                BY <1>1, <1>4, <2>2
            <3>2. Entry(outputs', txlog', k) = Entry(outputs, txlog, k)
                BY <1>1, <1>3, <3>1 DEF Entry
            <3>3. QED
                BY <1>4, <3>1, <3>2 DEF RecordInv, Named
        <2>3. QED
            BY <2>1, <2>2
    <1>5. ConfirmedIn(txlog')
        BY <1>1 DEF RecordInv, ConfirmedIn
    <1>6. \A t : CancelledIn(txlog, t) => CancelledIn(txlog', t)
        BY <1>1 DEF CancelledIn
    <1>7. \A t : SentIn(txlog', t) => SentIn(txlog, t) \/ t = s
        BY <1>1 DEF SentIn
    <1>8. DOMAIN outputs \subseteq DOMAIN outputs' /\ slates[s].change \subseteq DOMAIN outputs'
        BY <1>1
    <1>9. Tracked(outputs', txlog')
        BY <1>1, <1>6, <1>7, <1>8 DEF RecordInv, Tracked
    <1>10. QED
        BY <1>4, <1>5, <1>9 DEF RecordInv, Named

LEMMA ReceiveKeepsRecords ==
    ASSUME ChainInv, RecordInv(outputs, txlog),
           NEW s \in Slates, NEW a \in Accounts, BuildRecipientOutput(s, a),
           \A t \in Slates : replies'[t] \subseteq replies[t] \cup NewKeys(1),
           \A t \in Slates \ {s} : replies'[t] = replies[t],
           UNCHANGED <<stored, slates, final, pool, mined>>
    PROVE  RecordInv(outputs, txlog)'
    <1>pick. PICK id : EntryAdded(a, id, "TxReceived", s) /\ ReceivedUnder(a, id)
        BY ReceiveEffect
    <1>1. /\ DOMAIN txlog'[a] = DOMAIN txlog[a] \cup {id}
          /\ txlog'[a][id].type = "TxReceived" /\ txlog'[a][id].slate = s
          /\ ~txlog'[a][id].confirmed
          /\ \A i \in DOMAIN txlog[a] : txlog'[a][i] = txlog[a][i]
          /\ \A b \in Accounts \ {a} : txlog'[b] = txlog[b]
          /\ DOMAIN outputs' = DOMAIN outputs \cup NewKeys(1)
          /\ NewKeys(1) \cap Derived = {}
          /\ \A k \in NewKeys(1) : outputs'[k].acct = a /\ outputs'[k].tx = id
          /\ \A k \in DOMAIN outputs : outputs'[k] = outputs[k]
        BY <1>pick, ReceiveEffect DEF EntryAdded, ReceivedUnder
    <1>2. /\ \A t \in Slates : KeysOf(t) \subseteq Derived
          /\ Coins \subseteq Derived /\ Coins' = Coins
        BY KeysOfDerived DEF ChainInv, SpendInv, Coins
    <1>3. /\ \A t \in Slates : KeysOf(t)' \subseteq KeysOf(t) \cup NewKeys(1)
          /\ \A t \in Slates \ {s} : KeysOf(t)' = KeysOf(t)
        BY DEF KeysOf
    <1>4. \A k \in DOMAIN outputs : /\ outputs[k].acct \in Accounts
                                    /\ outputs[k].tx \in DOMAIN txlog[outputs[k].acct]
                                    /\ k \in Derived
        BY DEF ChainInv, Shapes, OutputData, AccountsInv, KeysInv, NoKeyReuse
    <1>5. ASSUME NEW k \in DOMAIN outputs', outputs'[k].status = "Unconfirmed"
          PROVE  /\ k \notin Coins
                 /\ \A t \in Slates : k \in KeysOf(t)' => Entry(outputs', txlog', k).slate = t
        <2>1. CASE k \in NewKeys(1)
            <3>1. k \notin Derived
                BY <1>1, <2>1
            <3>2. \A t \in Slates : k \in KeysOf(t)' => t = s
                BY <1>2, <1>3, <3>1
            <3>3. Entry(outputs', txlog', k).slate = s
                BY <1>1, <2>1 DEF Entry
            <3>4. QED
                BY <1>2, <3>1, <3>2, <3>3
        <2>2. CASE k \notin NewKeys(1)
            <3>1. k \in DOMAIN outputs /\ outputs'[k] = outputs[k]
                BY <1>1, <2>2
            <3>2. Entry(outputs', txlog', k) = Entry(outputs, txlog, k)
                BY <1>1, <1>4, <3>1 DEF Entry
            <3>3. \A t \in Slates : k \in KeysOf(t)' => k \in KeysOf(t)
                BY <1>3, <2>2
            <3>4. QED
                BY <1>5, <3>1, <3>2, <3>3 DEF RecordInv, Named
        <2>3. QED
            BY <2>1, <2>2
    <1>6. Named(outputs, txlog)'
        BY <1>2, <1>5 DEF Named, Entry
    <1>7. ConfirmedIn(txlog)'
        BY <1>1 DEF RecordInv, ConfirmedIn
    <1>8. /\ \A t : CancelledIn(txlog, t) => CancelledIn(txlog, t)'
          /\ \A t : SentIn(txlog, t)' => SentIn(txlog, t)
        <2>1. \A b \in Accounts : DOMAIN txlog[b] \subseteq DOMAIN txlog'[b]
            BY <1>1
        <2>2. \A b \in Accounts : \A i \in DOMAIN txlog'[b] :
                txlog'[b][i].type # "TxReceived" =>
                    i \in DOMAIN txlog[b] /\ txlog'[b][i] = txlog[b][i]
            BY <1>1
        <2>3. \A b \in Accounts : \A i \in DOMAIN txlog[b] : txlog'[b][i] = txlog[b][i]
            BY <1>1
        <2>4. QED
            BY <2>1, <2>2, <2>3 DEF CancelledIn, SentIn
    <1>9. /\ \A t \in OwnSlates : Signed(t)' <=> Signed(t)
          /\ \A t \in OwnSlates : Initiated(t)' <=> Initiated(t)
        BY DEF Signed, Initiated
    <1>10. DOMAIN outputs \cup NewKeys(1) \subseteq DOMAIN outputs'
        BY <1>1
    <1>11. ASSUME NEW t \in Slates
           PROVE  replies'[t] \subseteq DOMAIN outputs' \/ CancelledIn(txlog, t)'
        BY <1>8, <1>10 DEF RecordInv, Tracked
    <1>12. ASSUME NEW t \in OwnSlates
           PROVE  /\ SentIn(txlog, t)' => Initiated(t)'
                  /\ SentIn(txlog, t)' \/ Signed(t)' =>
                        slates'[t].change \subseteq DOMAIN outputs' \/ CancelledIn(txlog, t)'
        BY <1>8, <1>9, <1>10 DEF RecordInv, Tracked
    <1>13. Tracked(outputs, txlog)'
        BY <1>11, <1>12 DEF Tracked
    <1>14. QED
        BY <1>6, <1>7, <1>13 DEF RecordInv

LEMMA RecordNext ==
    ChainInv /\ RecordInv(outputs, txlog) /\ [Next]_vars => RecordInv(outputs, txlog)'
    <1> SUFFICES ASSUME ChainInv, RecordInv(outputs, txlog), [Next]_vars
                 PROVE  RecordInv(outputs, txlog)'
        OBVIOUS
    <1>typ. /\ active \in Accounts /\ stored \in [OwnSlates -> StoredTx]
            /\ replies \in [Slates -> SUBSET Key]
        BY DEF ChainInv, Shapes
    <1>signed. \A s \in OwnSlates : Signed(s) => Initiated(s)
        BY SignedIsInitiated
    <1>1. ASSUME NEW s \in OwnSlates, NEW a \in Accounts, InitSendTx(s, a)
          PROVE  RecordInv(outputs, txlog)'
        <2>1. /\ ~Initiated(s)
              /\ \A t \in OwnSlates \ {s} : slates'[t] = slates[t]
              /\ slates'[s].change \cap Derived = {}
            BY <1>1, InitSendTxSlates DEF ChainInv
        <2>2. /\ outputs' = RefreshedOutputs(a) /\ txlog' = RefreshedLog(a)
              /\ UNCHANGED <<stored, replies, final, pool, mined>>
            BY <1>1 DEF InitSendTx, node
        <2>3. RecordInv(outputs', txlog')
            BY <2>2, RefreshKeepsRecords
        <2>4. DOMAIN outputs' \subseteq Derived
            BY <2>2, RefreshEffect DEF ChainInv, KeysInv, NoKeyReuse
        <2>5. \A t \in Slates : KeysOf(t)' \cap DOMAIN outputs' \subseteq KeysOf(t)
            BY <2>1, <2>2, <2>4 DEF KeysOf
        <2>6. \A t \in OwnSlates : Initiated(t) =>
                Initiated(t)' /\ slates'[t].change = slates[t].change
            BY <2>1 DEF Initiated
        <2>7. \A t \in OwnSlates : Signed(t)' <=> Signed(t)
            BY <2>2 DEF Signed
        <2>8. QED
            BY <1>signed, <2>2, <2>3, <2>5, <2>6, <2>7, WorldKeepsRecords
    <1>2. ASSUME RecordInv(outputs', txlog'), UNCHANGED <<slates, replies>>,
                 \A s \in OwnSlates : Signed(s)' => SentIn(txlog', s) \/ Signed(s),
                 mined \subseteq mined'
          PROVE  RecordInv(outputs, txlog)'
        <2>1. /\ \A t \in Slates : KeysOf(t)' = KeysOf(t)
              /\ \A t \in OwnSlates : Initiated(t)' <=> Initiated(t)
            BY <1>2 DEF KeysOf, Initiated
        <2>2. QED
            BY <1>2, <1>signed, <2>1, WorldKeepsRecords
    <1>3. ASSUME NEW a \in Accounts,
                 outputs' = RefreshedOutputs(a), txlog' = RefreshedLog(a),
                 UNCHANGED <<slates, replies>>, mined \subseteq mined',
                 \A s \in OwnSlates : Signed(s)' => Signed(s)
          PROVE  RecordInv(outputs, txlog)'
        BY <1>2, <1>3, RefreshKeepsRecords
    <1>4. ASSUME NEW s \in OwnSlates, TxLockOutputs(s)
          PROVE  RecordInv(outputs, txlog)'
        <2>1. /\ UNCHANGED <<slates, replies, final, pool, mined>>
              /\ \A t \in OwnSlates : stored'[t].form = "final" => stored[t].form = "final"
            BY <1>4, LockEffect
        <2>2. \A t \in OwnSlates : Signed(t)' => Signed(t)
            BY <2>1 DEF Signed
        <2>3. QED
            BY <1>2, <1>4, <2>1, <2>2, LockKeepsRecords
    <1>5. ASSUME UNCHANGED <<outputs, txlog, slates, replies>>, mined \subseteq mined',
                 \A s \in OwnSlates : Signed(s)' => SentIn(txlog, s) \/ Signed(s)
          PROVE  RecordInv(outputs, txlog)'
        BY <1>2, <1>5
    <1>6. ASSUME NEW s \in OwnSlates, TxLockOutputsCrash(s)
          PROVE  RecordInv(outputs, txlog)'
        <2>1. /\ stored' = [stored EXCEPT ![s] = Partial]
              /\ UNCHANGED <<outputs, txlog, slates, replies, final, pool, mined>>
            BY <1>6 DEF TxLockOutputsCrash, world, node
        <2>2. \A t \in OwnSlates : stored'[t].form = "final" => stored[t].form = "final"
            BY <1>typ, <2>1 DEF Partial
        <2>3. \A t \in OwnSlates : Signed(t)' => Signed(t)
            BY <2>1, <2>2 DEF Signed
        <2>4. QED
            BY <1>5, <2>1, <2>3
    <1>7. ASSUME NEW s \in OwnSlates, NEW r \in Answers(s),
                 FinalizeTx(s, r) \/ FinalizeTxCrash(s, r)
          PROVE  RecordInv(outputs, txlog)'
        <2> DEFINE new == [slate |-> s, reply |-> r]
        <2>1. /\ SentEntryExists(s)
              /\ stored' = [stored EXCEPT ![s] = [form |-> "final", reply |-> r]]
              /\ final' \subseteq final \cup {new}
              /\ UNCHANGED <<outputs, txlog, slates, replies, pool, mined>>
            BY <1>7 DEF FinalizeTx, FinalizeTxCrash, node, world
        <2>2. new.slate = s
            OBVIOUS
        <2> HIDE DEF new
        <2>3. \A t \in OwnSlates \ {s} : stored'[t] = stored[t]
            BY <1>typ, <2>1
        <2>4. SentIn(txlog, s)
            BY <2>1 DEF SentEntryExists, SentIn
        <2>5. \A t \in OwnSlates : Signed(t)' => Signed(t) \/ t = s
            BY <2>1, <2>2, <2>3 DEF Signed
        <2>6. QED
            BY <1>5, <2>1, <2>4, <2>5
    <1>8. ASSUME NEW s \in Slates, NEW a \in Accounts,
                 ReceiveTx(s, a) \/ ReceiveTxFails(s, a)
          PROVE  RecordInv(outputs, txlog)'
        <2>1. /\ BuildRecipientOutput(s, a)
              /\ UNCHANGED <<stored, slates, final, pool, mined>>
            BY <1>8 DEF ReceiveTx, ReceiveTxFails, world, node
        <2>2. replies' = [replies EXCEPT ![s] = @ \cup NewKeys(1)] \/ replies' = replies
            BY <1>8 DEF ReceiveTx, ReceiveTxFails, world
        <2>3. /\ \A t \in Slates : replies'[t] \subseteq replies[t] \cup NewKeys(1)
              /\ \A t \in Slates \ {s} : replies'[t] = replies[t]
            BY <1>typ, <2>2
        <2>4. QED
            BY <2>1, <2>3, ReceiveKeepsRecords
    <1>9. ASSUME NEW i \in DOMAIN txlog[active], CancelTx(i)
          PROVE  RecordInv(outputs, txlog)'
        <2> DEFINE outs == RefreshedOutputs(active)
                   log == RefreshedLog(active)
        <2>1. /\ outputs' = CancelledOutputs(outs, i) /\ txlog' = CancelledLog(log, i)
              /\ UNCHANGED <<stored, slates, replies, final, pool, mined>>
            BY <1>9, CancelIs
        <2>2. WellFormed(outs, log) /\ RecordInv(outs, log) /\ i \in DOMAIN log[active]
            BY <1>typ, RefreshEffect, RefreshKeepsRecords
        <2> HIDE DEF outs, log
        <2>3. RecordInv(outputs', txlog')
            BY <2>1, <2>2, CancelKeepsRecords
        <2>4. \A t \in OwnSlates : Signed(t)' <=> Signed(t)
            BY <2>1 DEF Signed
        <2>5. QED
            BY <1>2, <2>1, <2>3, <2>4
    <1>10. ASSUME NEW i \in DOMAIN txlog[active], RepostTx(i)
           PROVE  RecordInv(outputs, txlog)'
        <2>1. PICK s \in OwnSlates :
                /\ stored[s].form = "final"
                /\ pool' = pool \cup {[slate |-> s, reply |-> stored[s].reply]}
                /\ outputs' = RefreshedOutputs(active) /\ txlog' = RefreshedLog(active)
                /\ UNCHANGED <<stored, slates, replies, final, mined>>
            BY <1>10 DEF RepostTx, world
        <2>2. \A t \in OwnSlates : Signed(t)' => Signed(t)
            BY <2>1 DEF Signed
        <2>3. QED
            BY <1>3, <1>typ, <2>1, <2>2
    <1>11. ASSUME NEW t \in final, PostTx(t)
           PROVE  RecordInv(outputs, txlog)'
        <2>1. \A s \in OwnSlates : Signed(s)' => Signed(s)
            BY <1>11 DEF PostTx, db, world, Signed
        <2>2. QED
            BY <1>5, <1>11, <2>1 DEF PostTx, db, world
    <1>12. ASSUME NEW t, Mine(t), t \in pool \/ t.slate \notin OwnSlates
           PROVE  RecordInv(outputs, txlog)'
        <2>1. \A s \in OwnSlates : Signed(s)' => Signed(s)
            BY <1>12 DEF Mine, db, world, Signed
        <2>2. QED
            BY <1>5, <1>12, <2>1 DEF Mine, db, world
    <1>13. ASSUME NEW s \in ForeignSlates, NEW k \in replies[s], MineForeign(s, k)
           PROVE  RecordInv(outputs, txlog)'
        <2> DEFINE t == [slate |-> s, reply |-> {k}]
        <2>1. Mine(t) /\ t.slate = s
            BY <1>13 DEF MineForeign
        <2> HIDE DEF t
        <2>2. s \notin OwnSlates
            BY LedgerAssumption DEF LedgerAssumption
        <2>3. QED
            BY <1>12, <2>1, <2>2
    <1>14. QED
        <2>1. ASSUME NEW a \in Accounts, InitSendTxFails(a)
              PROVE  RecordInv(outputs, txlog)'
            <3>1. /\ outputs' = RefreshedOutputs(a) /\ txlog' = RefreshedLog(a)
                  /\ UNCHANGED <<stored, slates, replies, final, pool, mined>>
                BY <2>1 DEF InitSendTxFails, world, node
            <3>2. \A s \in OwnSlates : Signed(s)' => Signed(s)
                BY <3>1 DEF Signed
            <3>3. QED
                BY <1>3, <3>1, <3>2
        <2>2. CASE Refresh
            <3>1. /\ outputs' = RefreshedOutputs(active) /\ txlog' = RefreshedLog(active)
                  /\ UNCHANGED <<stored, slates, replies, final, pool, mined>>
                BY <2>2 DEF Refresh, world, node
            <3>2. \A s \in OwnSlates : Signed(s)' => Signed(s)
                BY <3>1 DEF Signed
            <3>3. QED
                BY <1>3, <1>typ, <3>1, <3>2
        <2>3. CASE UNCHANGED vars \/ \E a \in Accounts : SetActiveAccount(a)
            <3>1. UNCHANGED <<outputs, txlog, stored, slates, replies, final, pool, mined>>
                BY <2>3 DEF SetActiveAccount, vars, db, world, node
            <3>2. \A s \in OwnSlates : Signed(s)' => Signed(s)
                BY <3>1 DEF Signed
            <3>3. QED
                BY <1>5, <3>1, <3>2
        <2>4. QED
            BY <1>1, <1>4, <1>6, <1>7, <1>8, <1>9, <1>10, <1>11, <1>12, <1>13, <2>1, <2>2, <2>3
               DEF Next, Send, Receive, Settle, Environment

LEMMA RecordInvariant == Spec => []RecordInv(outputs, txlog)
    BY RecordInit, RecordNext, ChainInvariant, PTL DEF Spec

\* The refresh confirms an entry only when a transaction of its slate was mined:
\* no mix of accounts, failed sends, cancels, second locks or answers to its own
\* slates makes it confirm the wrong one.
THEOREM ConfirmedWasMined == Spec => []ConfirmedIsMined
    <1>1. RecordInv(outputs, txlog) => ConfirmedIsMined
        BY DEF RecordInv, ConfirmedIn, ConfirmedIsMined
    <1>2. QED
        BY <1>1, RecordInvariant, PTL

\* What a mined transaction pays to the wallet is never missing from its
\* database, unless the user cancelled that transaction.
THEOREM MinedOutputsAreTracked == Spec => []MinedIsTracked
    <1>1. ChainInv /\ RecordInv(outputs, txlog) => MinedIsTracked
        <2> SUFFICES ASSUME ChainInv, RecordInv(outputs, txlog),
                            NEW t \in mined, NEW k \in Created(t)
                     PROVE  k \in DOMAIN outputs \/ CancelledIn(txlog, t.slate)
            BY DEF MinedIsTracked, CancelledIn
        <2>1. t.slate \in Slates /\ t.reply \subseteq replies[t.slate]
            BY DEF ChainInv, Shapes, Transaction, CarriedInv
        <2>2. t.slate \in OwnSlates => Signed(t.slate)
            BY DEF Signed
        <2>3. QED
            BY <2>1, <2>2 DEF Created, RecordInv, Tracked
    <1>2. QED
        BY <1>1, ChainInvariant, RecordInvariant, PTL

-----------------------------------------------------------------------------
(* Spent outputs.  Without zero confirmations a send only selects outputs  *)
(* the node has shown to the wallet; the status may go from Spent back to  *)
(* Locked (a second lock), but what was seen stays seen.                   *)

Gone(k) == \E t \in mined : k \in Inputs(t)
Seen(k) == k \in utxo \/ Gone(k)

SeenInv(outs) ==
    /\ \A k \in DOMAIN outs : outs[k].status # "Unconfirmed" => Seen(k)
    /\ \A k \in DOMAIN outs : outs[k].status = "Spent" => Gone(k)
    /\ \A s \in OwnSlates : \A k \in slates[s].inputs : Seen(k)

LEMMA SeenInit == Init => SeenInv(outputs)
    BY DEF Init, SeenInv, Seen, Blank

LEMMA RefreshKeepsSeen ==
    ASSUME ChainInv, SeenInv(outputs), NEW a \in Accounts
    PROVE  SeenInv(RefreshedOutputs(a))
    <1> DEFINE outs == RefreshedOutputs(a)
    <1>1. /\ DOMAIN outs = DOMAIN outputs
          /\ \A k \in DOMAIN outputs :
                outs[k].status = IF k \notin Refreshable(a) THEN outputs[k].status
                        ELSE IF k \in utxo THEN MarkUnspent(outputs[k].status)
                                           ELSE MarkSpent(outputs[k].status)
        BY RefreshEffect
    <1>2. \A k \in Refreshable(a) : outputs[k].status # "Spent"
        BY DEF Refreshable
    <1> HIDE DEF outs
    <1>3. ASSUME NEW k \in DOMAIN outs
          PROVE  /\ outs[k].status # "Unconfirmed" => Seen(k)
                 /\ outs[k].status = "Spent" => Gone(k)
        <2>1. CASE k \notin Refreshable(a)
            BY <1>1, <2>1 DEF SeenInv
        <2>2. CASE k \in Refreshable(a) /\ k \in utxo
            BY <1>1, <1>2, <2>2 DEF MarkUnspent, Seen
        <2>3. CASE k \in Refreshable(a) /\ k \notin utxo
            BY <1>1, <1>2, <2>3 DEF MarkSpent, SeenInv, Seen
        <2>4. QED
            BY <2>1, <2>2, <2>3
    <1>4. QED
        BY <1>3 DEF SeenInv, outs

LEMMA CancelKeepsSeen ==
    ASSUME NEW outs, NEW log, WellFormed(outs, log), SeenInv(outs), NEW i
    PROVE  SeenInv(CancelledOutputs(outs, i))
    <1> DEFINE new == CancelledOutputs(outs, i)
    <1>1. \A k \in DOMAIN outs : outs[k] \in OutputData
        BY DEF WellFormed, TypedDb
    <1>2. /\ DOMAIN new = DOMAIN outs \ Deleted(outs, i)
          /\ \A k \in DOMAIN new :
                new[k].status = IF k \in Involved(outs, i) /\ outs[k].status = "Locked"
                                THEN "Unspent" ELSE outs[k].status
        BY <1>1, CancelledOutputsAre
    <1> HIDE DEF new
    <1>3. QED
        BY <1>2, SMTT(30) DEF SeenInv, new

\* Mining takes a key off the chain only by spending it.
LEMMA MineKeepsSeen ==
    ASSUME NEW t, Mine(t)
    PROVE  /\ \A k : Seen(k) => Seen(k)'
           /\ \A k : Gone(k) => Gone(k)'
    <1>1. /\ mined' = mined \cup {t}
          /\ utxo' = (utxo \ Inputs(t)) \cup Created(t)
          /\ \A u : Inputs(u)' = Inputs(u)
        BY DEF Mine, db, world, Inputs
    <1>2. QED
        BY <1>1 DEF Seen, Gone

LEMMA SeenNext ==
    ASSUME ZeroConf = FALSE
    PROVE  ChainInv /\ SeenInv(outputs) /\ [Next]_vars => SeenInv(outputs)'
    <1> SUFFICES ASSUME ChainInv, SeenInv(outputs), [Next]_vars
                 PROVE  SeenInv(outputs)'
        OBVIOUS
    <1>typ. active \in Accounts /\ \A k \in DOMAIN outputs : outputs[k].status \in Status
        BY DEF ChainInv, Shapes, OutputData
    <1>1. ASSUME NEW s \in OwnSlates, NEW a \in Accounts, InitSendTx(s, a)
          PROVE  SeenInv(outputs)'
        <2>1. /\ ~Initiated(s)
              /\ slates'[s].inputs \subseteq Eligible(outputs', a)
              /\ \A t \in OwnSlates \ {s} : slates'[t] = slates[t]
            BY <1>1, InitSendTxSlates DEF ChainInv
        <2>2. outputs' = RefreshedOutputs(a) /\ UNCHANGED <<mined, utxo>>
            BY <1>1 DEF InitSendTx, node
        <2>3. SeenInv(outputs')
            BY <2>2, RefreshKeepsSeen
        <2>4. \A t \in mined : t.slate # s
            BY <2>1 DEF ChainInv, CarriedInv
        <2>5. \A t \in mined : Inputs(t)' = Inputs(t)
            BY <2>1, <2>4 DEF Inputs
        <2>6. \A k : (Gone(k)' <=> Gone(k)) /\ (Seen(k)' <=> Seen(k))
            BY <2>2, <2>5 DEF Gone, Seen
        <2>7. \A k \in slates'[s].inputs : Seen(k)
            <3>1. \A k \in slates'[s].inputs :
                    k \in DOMAIN outputs' /\ outputs'[k].status = "Unspent"
                BY <2>1 DEF Eligible
            <3>2. QED
                BY <2>3, <3>1 DEF SeenInv
        <2>8. QED
            BY <2>1, <2>3, <2>6, <2>7 DEF SeenInv
    <1>2. ASSUME SeenInv(outputs'), UNCHANGED <<slates, mined, utxo>>
          PROVE  SeenInv(outputs)'
        <2>1. \A k : (Gone(k)' <=> Gone(k)) /\ (Seen(k)' <=> Seen(k))
            BY <1>2 DEF Gone, Seen, Inputs
        <2>2. QED
            BY <1>2, <2>1 DEF SeenInv
    <1>3. ASSUME NEW a \in Accounts, outputs' = RefreshedOutputs(a),
                 UNCHANGED <<slates, mined, utxo>>
          PROVE  SeenInv(outputs)'
        BY <1>2, <1>3, RefreshKeepsSeen
    <1>4. ASSUME NEW s \in OwnSlates, TxLockOutputs(s)
          PROVE  SeenInv(outputs)'
        <2>1. PICK id : LockedUnder(s, id)
            BY <1>4, LockEffect
        <2>2. UNCHANGED <<slates, mined, utxo>>
            BY <1>4, LockEffect
        <2>3. SeenInv(outputs')
            BY <2>1 DEF LockedUnder, SeenInv
        <2>4. QED
            BY <1>2, <2>2, <2>3
    <1>5. ASSUME NEW s \in Slates, NEW a \in Accounts,
                 ReceiveTx(s, a) \/ ReceiveTxFails(s, a)
          PROVE  SeenInv(outputs)'
        <2>1. BuildRecipientOutput(s, a) /\ UNCHANGED <<slates, mined, utxo>>
            BY <1>5 DEF ReceiveTx, ReceiveTxFails, world, node
        <2>2. PICK id : ReceivedUnder(a, id)
            BY <2>1, ReceiveEffect
        <2>3. SeenInv(outputs')
            BY <2>2 DEF ReceivedUnder, SeenInv
        <2>4. QED
            BY <1>2, <2>1, <2>3
    <1>6. ASSUME NEW i \in DOMAIN txlog[active], CancelTx(i)
          PROVE  SeenInv(outputs)'
        <2> DEFINE outs == RefreshedOutputs(active)
                   log == RefreshedLog(active)
        <2>1. outputs' = CancelledOutputs(outs, i) /\ UNCHANGED <<slates, mined, utxo>>
            BY <1>6, CancelIs
        <2>2. WellFormed(outs, log) /\ SeenInv(outs) /\ i \in DOMAIN log[active]
            BY <1>typ, RefreshEffect, RefreshKeepsSeen
        <2> HIDE DEF outs, log
        <2>3. SeenInv(outputs')
            BY <2>1, <2>2, CancelKeepsSeen
        <2>4. QED
            BY <1>2, <2>1, <2>3
    <1>7. ASSUME NEW t, Mine(t)
          PROVE  SeenInv(outputs)'
        BY <1>7, MineKeepsSeen DEF SeenInv, Mine, db, world
    <1>8. QED
        <2>1. ASSUME NEW a \in Accounts, InitSendTxFails(a)
              PROVE  SeenInv(outputs)'
            BY <1>3, <2>1 DEF InitSendTxFails, world, node
        <2>2. ASSUME NEW s \in OwnSlates,
                     TxLockOutputsCrash(s)
                     \/ \E r \in Answers(s) : FinalizeTx(s, r) \/ FinalizeTxCrash(s, r)
              PROVE  SeenInv(outputs)'
            BY <1>2, <2>2 DEF TxLockOutputsCrash, FinalizeTx, FinalizeTxCrash, world, node
        <2>3. ASSUME Refresh \/ \E i \in DOMAIN txlog[active] : RepostTx(i)
              PROVE  SeenInv(outputs)'
            BY <1>3, <1>typ, <2>3 DEF Refresh, RepostTx, world, node
        <2>4. ASSUME \/ \E t \in final \ pool : PostTx(t)
                     \/ \E a \in Accounts : SetActiveAccount(a)
                     \/ UNCHANGED vars
              PROVE  SeenInv(outputs)'
            BY <1>2, <2>4 DEF PostTx, SetActiveAccount, vars, db, world, node
        <2>5. QED
            BY <1>1, <1>4, <1>5, <1>6, <1>7, <2>1, <2>2, <2>3, <2>4
               DEF Next, Send, Receive, Settle, Environment, MineForeign

\* Without zero confirmations, an output is Spent only when a transaction that
\* spends it was mined.  With them it is not so: an output the node has never
\* seen can be locked, and the refresh then takes it for spent.
THEOREM SpentWasMined == ZeroConf = FALSE => (Spec => []SpentIsMined)
    <1> SUFFICES ASSUME ZeroConf = FALSE PROVE Spec => []SpentIsMined
        OBVIOUS
    <1>1. ChainInv /\ SeenInv(outputs) /\ [Next]_vars => SeenInv(outputs)'
        BY SeenNext
    <1>2. SeenInv(outputs) => SpentIsMined
        BY DEF SeenInv, SpentIsMined, Gone
    <1>3. QED
        BY <1>1, <1>2, SeenInit, ChainInvariant, PTL DEF Spec

-----------------------------------------------------------------------------
(* Pending outputs.  When a send is confirmed by its change, its inputs     *)
(* must turn Spent in the same refresh: a locked output is an input of its  *)
(* entry's slate, whose transaction was mined if its change is there.  And  *)
(* no second output may be left waiting for the entry: a send builds at     *)
(* most one change output (num_change_outputs = 1).                         *)

OneChange == \A s \in OwnSlates : \A j, k \in slates[s].change : j = k

Pending(outs, log, k) ==
    /\ outs[k].status \in {"Locked", "Unconfirmed"} =>
            /\ Entry(outs, log, k).type \in {"TxSent", "TxReceived"}
            /\ ~Entry(outs, log, k).confirmed
    /\ outs[k].status = "Locked" =>
            /\ Entry(outs, log, k).type = "TxSent"
            /\ Entry(outs, log, k).slate \in OwnSlates
            /\ k \in slates[Entry(outs, log, k).slate].inputs

PendingInv(outs, log) ==
    /\ \A k \in DOMAIN outs : Pending(outs, log, k)
    /\ \A j, k \in DOMAIN outs :
        /\ outs[j].status = "Unconfirmed" /\ outs[k].status = "Unconfirmed"
        /\ outs[j].acct = outs[k].acct /\ outs[j].tx = outs[k].tx
        => j = k

LEMMA PendingInit == Init => OneChange /\ PendingInv(outputs, txlog)
    BY DEF Init, OneChange, Blank, PendingInv, Pending

LEMMA RefreshKeepsPending ==
    ASSUME ChainInv, RecordInv(outputs, txlog), PendingInv(outputs, txlog),
           NEW a \in Accounts
    PROVE  PendingInv(RefreshedOutputs(a), RefreshedLog(a))
    <1> DEFINE outs == RefreshedOutputs(a)
               log == RefreshedLog(a)
    <1>1. /\ DOMAIN outs = DOMAIN outputs
          /\ \A k \in DOMAIN outputs :
                /\ outs[k].acct = outputs[k].acct /\ outs[k].tx = outputs[k].tx
                /\ outs[k].status = IF k \notin Refreshable(a) THEN outputs[k].status
                        ELSE IF k \in utxo THEN MarkUnspent(outputs[k].status)
                                           ELSE MarkSpent(outputs[k].status)
          /\ \A b \in Accounts : DOMAIN log[b] = DOMAIN txlog[b]
          /\ \A b \in Accounts : \A i \in DOMAIN txlog[b] :
                /\ log[b][i].type = txlog[b][i].type
                /\ log[b][i].slate = txlog[b][i].slate
                /\ log[b][i].confirmed => txlog[b][i].confirmed \/ (b = a /\ Confirms(a, i))
        BY RefreshEffect
    <1> HIDE DEF outs, log
    <1>2. \A k \in DOMAIN outputs :
            /\ outputs[k].acct \in Accounts
            /\ outputs[k].tx \in DOMAIN txlog[outputs[k].acct]
        BY DEF ChainInv, Shapes, OutputData, AccountsInv
    <1>3. ASSUME NEW k \in DOMAIN outputs
          PROVE  /\ outs[k].status \in {"Locked", "Unconfirmed"} =>
                        outputs[k].status = outs[k].status
                 /\ Entry(outs, log, k).type = Entry(outputs, txlog, k).type
                 /\ Entry(outs, log, k).slate = Entry(outputs, txlog, k).slate
        BY <1>1, <1>2 DEF Entry, MarkUnspent, MarkSpent
    <1>4. ASSUME NEW k \in DOMAIN outputs, outs[k].status \in {"Locked", "Unconfirmed"},
                 Entry(outs, log, k).confirmed
          PROVE  FALSE
        <2>1. /\ Pending(outputs, txlog, k)
              /\ outputs[k].status = outs[k].status
            BY <1>3, <1>4 DEF PendingInv
        <2>2. /\ ~Entry(outputs, txlog, k).confirmed
              /\ Entry(outputs, txlog, k).type \in {"TxSent", "TxReceived"}
            BY <1>4, <2>1 DEF Pending
        <2>3. outputs[k].acct = a /\ Confirms(a, outputs[k].tx)
            BY <1>1, <1>2, <1>4, <2>2 DEF Entry
        <2>4. PICK j \in Refreshable(a) \cap utxo :
                outputs[j].status = "Unconfirmed" /\ outputs[j].tx = outputs[k].tx
            BY <2>3 DEF Confirms
        <2>5. j \in DOMAIN outputs /\ outputs[j].acct = a
            BY DEF Refreshable
        <2>6. k \in Refreshable(a)
            BY <1>2, <1>4, <2>1, <2>2, <2>3 DEF Refreshable, Outstanding, Entry
        <2>7. CASE outputs[k].status = "Unconfirmed"
            <3>1. j = k
                BY <2>3, <2>4, <2>5, <2>7 DEF PendingInv
            <3>2. outs[k].status = "Unspent"
                BY <1>1, <2>6, <2>7, <3>1 DEF MarkUnspent
            <3>3. QED
                BY <1>4, <3>2
        <2>8. CASE outputs[k].status = "Locked"
            <3> DEFINE s == Entry(outputs, txlog, k).slate
            <3>1. s \in OwnSlates /\ k \in slates[s].inputs
                BY <2>1, <2>8 DEF Pending
            <3>2. Entry(outputs, txlog, j).slate = s
                BY <2>3, <2>4, <2>5 DEF Entry
            <3> HIDE DEF s
            <3>3. PICK t \in mined : t.slate = s
                BY <2>4, <3>2, ConfirmingIsMined DEF RecordInv
            <3>4. k \in Inputs(t)
                BY <3>1, <3>3 DEF Inputs
            <3>5. k \notin utxo
                BY <3>4 DEF ChainInv, SpendInv
            <3>6. outs[k].status = "Spent"
                BY <1>1, <2>6, <2>8, <3>5 DEF MarkSpent
            <3>7. QED
                BY <1>4, <3>6
        <2>9. QED
            BY <1>4, <2>1, <2>7, <2>8
    <1>5. \A k \in DOMAIN outs : Pending(outs, log, k)
        BY <1>1, <1>3, <1>4 DEF PendingInv, Pending
    <1>6. \A j, k \in DOMAIN outs :
            /\ outs[j].status = "Unconfirmed" /\ outs[k].status = "Unconfirmed"
            /\ outs[j].acct = outs[k].acct /\ outs[j].tx = outs[k].tx
            => j = k
        BY <1>1, <1>3 DEF PendingInv
    <1>7. QED
        BY <1>5, <1>6 DEF PendingInv, outs, log

\* cancel_tx leaves no output pending on the entry it cancels.
LEMMA CancelKeepsPending ==
    ASSUME ChainInv, NEW outs, NEW log, WellFormed(outs, log), PendingInv(outs, log),
           NEW i \in DOMAIN log[active]
    PROVE  PendingInv(CancelledOutputs(outs, i), CancelledLog(log, i))
    <1> DEFINE outs2 == CancelledOutputs(outs, i)
               log2 == CancelledLog(log, i)
    <1>1. active \in Accounts
        BY DEF ChainInv, Shapes
    <1>wf. /\ \A k \in DOMAIN outs : outs[k] \in OutputData
           /\ log \in [Accounts -> Seq(TxLogEntry)]
           /\ \A k \in DOMAIN outs : outs[k].tx \in DOMAIN log[outs[k].acct]
        BY DEF WellFormed, TypedDb
    <1>outs. /\ DOMAIN outs2 = DOMAIN outs \ Deleted(outs, i)
             /\ \A k \in DOMAIN outs2 :
                /\ outs2[k].acct = outs[k].acct
                /\ outs2[k].tx = outs[k].tx
                /\ outs2[k].status = IF k \in Involved(outs, i) /\ outs[k].status = "Locked"
                                     THEN "Unspent" ELSE outs[k].status
        BY <1>wf, CancelledOutputsAre
    <1>log. /\ \A b \in Accounts : DOMAIN log2[b] = DOMAIN log[b]
            /\ \A b \in Accounts : \A j \in DOMAIN log[b] :
                /\ log2[b][j].slate = log[b][j].slate
                /\ log2[b][j].confirmed = log[b][j].confirmed
                /\ b # active \/ j # i => log2[b][j] = log[b][j]
            /\ log2[active][i].type \in {"TxSentCancelled", "TxReceivedCancelled"}
        BY <1>1, <1>wf, CancelledLogIs
    <1> HIDE DEF outs2, log2
    <1>2. ASSUME NEW k \in DOMAIN outs2, outs2[k].status \in {"Locked", "Unconfirmed"}
          PROVE  /\ k \in DOMAIN outs /\ outs[k].status = outs2[k].status
                 /\ Entry(outs2, log2, k) = Entry(outs, log, k)
        <2>1. k \in DOMAIN outs /\ k \notin Deleted(outs, i)
            BY <1>outs
        <2>2. outs[k].status = outs2[k].status
            BY <1>2, <1>outs
        <2>3. k \notin Involved(outs, i)
            BY <1>2, <1>outs, <2>1, <2>2 DEF Deleted
        <2>4. outs[k].acct # active \/ outs[k].tx # i
            BY <1>2, <2>1, <2>2, <2>3 DEF Involved
        <2>5. outs[k].acct \in Accounts /\ outs[k].tx \in DOMAIN log[outs[k].acct]
            BY <1>wf, <2>1 DEF OutputData
        <2>6. QED
            BY <1>outs, <1>log, <2>1, <2>2, <2>4, <2>5 DEF Entry
    <1>3. \A k \in DOMAIN outs2 : Pending(outs2, log2, k)
        BY <1>2 DEF PendingInv, Pending
    <1>4. \A j, k \in DOMAIN outs2 :
            /\ outs2[j].status = "Unconfirmed" /\ outs2[k].status = "Unconfirmed"
            /\ outs2[j].acct = outs2[k].acct /\ outs2[j].tx = outs2[k].tx
            => j = k
        BY <1>2, <1>outs DEF PendingInv
    <1>5. QED
        BY <1>3, <1>4 DEF PendingInv, outs2, log2

\* An entry that is added takes no output with it but the new and locked ones.
LEMMA AddedKeepsPending ==
    ASSUME ChainInv, PendingInv(outputs, txlog),
           NEW a \in Accounts, NEW id, NEW type, NEW s, EntryAdded(a, id, type, s),
           NEW fresh, \A j, k \in fresh : j = k,
           \A k \in DOMAIN outputs' :
                \/ k \in DOMAIN outputs /\ k \notin fresh /\ outputs'[k] = outputs[k]
                \/ /\ outputs'[k].acct = a /\ outputs'[k].tx = id
                   /\ \/ /\ k \in fresh /\ outputs'[k].status = "Unconfirmed"
                         /\ type \in {"TxSent", "TxReceived"}
                      \/ /\ outputs'[k].status = "Locked" /\ type = "TxSent"
                         /\ s \in OwnSlates /\ k \in slates[s].inputs
    PROVE  PendingInv(outputs', txlog')
    <1>1. /\ id \notin DOMAIN txlog[a] /\ DOMAIN txlog'[a] = DOMAIN txlog[a] \cup {id}
          /\ txlog'[a][id].type = type /\ txlog'[a][id].slate = s
          /\ ~txlog'[a][id].confirmed
          /\ \A i \in DOMAIN txlog[a] : txlog'[a][i] = txlog[a][i]
          /\ \A b \in Accounts \ {a} : txlog'[b] = txlog[b]
        BY DEF EntryAdded
    <1>2. \A k \in DOMAIN outputs :
            /\ outputs[k].acct \in Accounts
            /\ outputs[k].tx \in DOMAIN txlog[outputs[k].acct]
        BY DEF ChainInv, Shapes, OutputData, AccountsInv
    <1>3. ASSUME NEW k \in DOMAIN outputs, outputs'[k] = outputs[k]
          PROVE  /\ Entry(outputs', txlog', k) = Entry(outputs, txlog, k)
                 /\ outputs'[k].acct # a \/ outputs'[k].tx # id
        BY <1>1, <1>2, <1>3 DEF Entry
    <1>4. ASSUME NEW k \in DOMAIN outputs'
          PROVE  Pending(outputs', txlog', k)
        <2>1. CASE k \in DOMAIN outputs /\ outputs'[k] = outputs[k]
            BY <1>3, <2>1 DEF PendingInv, Pending
        <2>2. CASE outputs'[k].acct = a /\ outputs'[k].tx = id
            <3>1. Entry(outputs', txlog', k) = txlog'[a][id]
                BY <2>2 DEF Entry
            <3>2. QED
                BY <1>1, <1>3, <2>2, <3>1 DEF Pending
        <2>3. QED
            BY <2>1, <2>2
    <1>5. ASSUME NEW j \in DOMAIN outputs', NEW k \in DOMAIN outputs',
                 outputs'[j].status = "Unconfirmed", outputs'[k].status = "Unconfirmed",
                 outputs'[j].acct = outputs'[k].acct, outputs'[j].tx = outputs'[k].tx
          PROVE  j = k
        <2>1. CASE outputs'[j].acct = a /\ outputs'[j].tx = id
            <3>1. j \in fresh /\ k \in fresh
                BY <1>3, <1>5, <2>1
            <3>2. QED
                BY <3>1
        <2>2. CASE ~(outputs'[j].acct = a /\ outputs'[j].tx = id)
            <3>1. /\ j \in DOMAIN outputs /\ outputs'[j] = outputs[j]
                  /\ k \in DOMAIN outputs /\ outputs'[k] = outputs[k]
                BY <1>5, <2>2
            <3>2. QED
                BY <1>5, <3>1 DEF PendingInv
        <2>3. QED
            BY <2>1, <2>2
    <1>6. QED
        BY <1>4, <1>5 DEF PendingInv

LEMMA OneChangeNext ==
    ASSUME ChangeCounts \subseteq {0, 1}
    PROVE  ChainInv /\ OneChange /\ [Next]_vars => OneChange'
    <1> SUFFICES ASSUME ChainInv, OneChange, [Next]_vars
                 PROVE  OneChange'
        OBVIOUS
    <1>1. ASSUME NEW s \in OwnSlates, NEW a \in Accounts, InitSendTx(s, a)
          PROVE  OneChange'
        <2>1. PICK ins \in (SUBSET Eligible(outputs', a)) \ {{}}, n \in ChangeCounts :
                slates' = [slates EXCEPT ![s] =
                                [acct |-> a, inputs |-> ins, change |-> NewKeys(n)]]
            BY <1>1 DEF InitSendTx
        <2>2. ASSUME NEW j \in NewKeys(n), NEW k \in NewKeys(n)
              PROVE  j = k
            <3> DEFINE c == childIdx[active]
            <3>1. c \in Nat /\ n \in {0, 1}
                BY DEF ChainInv, Shapes
            <3>2. \A x, y \in c .. c + n - 1 : x = y
                BY <3>1
            <3>3. NewKeys(n) = {active} \X (c .. c + n - 1)
                BY DEF NewKeys
            <3> HIDE DEF c
            <3>4. QED
                BY <3>2, <3>3
        <2>3. /\ slates'[s].change = NewKeys(n)
              /\ \A t \in OwnSlates \ {s} : slates'[t] = slates[t]
            BY <2>1 DEF ChainInv, Shapes
        <2>4. QED
            BY <2>2, <2>3 DEF OneChange
    <1>2. CASE UNCHANGED slates
        BY <1>2 DEF OneChange
    <1>3. QED
        BY <1>1, <1>2 DEF Next, Send, Receive, Settle, Environment, InitSendTxFails,
            TxLockOutputs, TxLockOutputsCrash, FinalizeTx, FinalizeTxCrash, ReceiveTx,
            ReceiveTxFails, Refresh, CancelTx, RepostTx, PostTx, Mine, MineForeign,
            SetActiveAccount, vars, db, world

LEMMA PendingNext ==
    ChainInv /\ RecordInv(outputs, txlog) /\ OneChange /\ PendingInv(outputs, txlog)
        /\ [Next]_vars => PendingInv(outputs, txlog)'
    <1> SUFFICES ASSUME ChainInv, RecordInv(outputs, txlog), OneChange,
                        PendingInv(outputs, txlog), [Next]_vars
                 PROVE  PendingInv(outputs, txlog)'
        OBVIOUS
    <1>typ. active \in Accounts
        BY DEF ChainInv, Shapes
    <1>1. ASSUME PendingInv(outputs', txlog'), NEW s \in OwnSlates,
                 \A t \in OwnSlates \ {s} : slates'[t] = slates[t],
                 slates[s].inputs \subseteq slates'[s].inputs
          PROVE  PendingInv(outputs, txlog)'
        <2>1. \A k \in DOMAIN outputs' : Pending(outputs, txlog, k)'
            BY <1>1 DEF PendingInv, Pending, Entry
        <2>2. QED
            BY <1>1, <2>1 DEF PendingInv
    <1>2. ASSUME PendingInv(outputs', txlog'), UNCHANGED slates
          PROVE  PendingInv(outputs, txlog)'
        BY <1>2 DEF PendingInv, Pending, Entry
    <1>3. ASSUME NEW s \in OwnSlates, NEW a \in Accounts, InitSendTx(s, a)
          PROVE  PendingInv(outputs, txlog)'
        <2>1. ~Initiated(s) /\ \A t \in OwnSlates \ {s} : slates'[t] = slates[t]
            BY <1>3, InitSendTxSlates DEF ChainInv
        <2>2. slates[s].inputs \subseteq slates'[s].inputs
            BY <2>1 DEF Initiated
        <2>3. PendingInv(outputs', txlog')
            BY <1>3, RefreshKeepsPending DEF InitSendTx
        <2>4. QED
            BY <1>1, <2>1, <2>2, <2>3
    <1>4. ASSUME NEW a \in Accounts,
                 outputs' = RefreshedOutputs(a), txlog' = RefreshedLog(a), UNCHANGED slates
          PROVE  PendingInv(outputs, txlog)'
        BY <1>2, <1>4, RefreshKeepsPending
    <1>5. ASSUME NEW s \in OwnSlates, TxLockOutputs(s)
          PROVE  PendingInv(outputs, txlog)'
        <2> DEFINE a == slates[s].acct
                   change == slates[s].change
        <2>1. a \in Accounts /\ UNCHANGED slates
            BY <1>5, LockEffect
        <2>2. PICK id : EntryAdded(a, id, "TxSent", s) /\ LockedUnder(s, id)
            BY <1>5, LockEffect
        <2>3. \A j, k \in change : j = k
            BY DEF OneChange
        <2>4. ASSUME NEW k \in DOMAIN outputs'
              PROVE  \/ k \in DOMAIN outputs /\ k \notin change /\ outputs'[k] = outputs[k]
                     \/ /\ outputs'[k].acct = a /\ outputs'[k].tx = id
                        /\ \/ k \in change /\ outputs'[k].status = "Unconfirmed"
                           \/ outputs'[k].status = "Locked" /\ k \in slates[s].inputs
            BY <2>2 DEF LockedUnder
        <2> HIDE DEF a, change
        <2>5. PendingInv(outputs', txlog')
            BY <2>1, <2>2, <2>3, <2>4, AddedKeepsPending
        <2>6. QED
            BY <1>2, <2>1, <2>5
    <1>6. ASSUME NEW s \in Slates, NEW a \in Accounts,
                 ReceiveTx(s, a) \/ ReceiveTxFails(s, a)
          PROVE  PendingInv(outputs, txlog)'
        <2> DEFINE fresh == NewKeys(1)
        <2>1. BuildRecipientOutput(s, a) /\ UNCHANGED slates
            BY <1>6 DEF ReceiveTx, ReceiveTxFails, world
        <2>2. PICK id : EntryAdded(a, id, "TxReceived", s) /\ ReceivedUnder(a, id)
            BY <2>1, ReceiveEffect
        <2>3. \A j, k \in fresh : j = k
            BY <2>2 DEF ReceivedUnder
        <2>4. fresh \cap DOMAIN outputs = {}
            BY <2>1, ReceiveEffect DEF ChainInv, KeysInv, NoKeyReuse
        <2>5. ASSUME NEW k \in DOMAIN outputs'
              PROVE  \/ k \in DOMAIN outputs /\ k \notin fresh /\ outputs'[k] = outputs[k]
                     \/ /\ outputs'[k].acct = a /\ outputs'[k].tx = id
                        /\ k \in fresh /\ outputs'[k].status = "Unconfirmed"
            BY <2>2, <2>4 DEF ReceivedUnder
        <2> HIDE DEF fresh
        <2>6. PendingInv(outputs', txlog')
            BY <2>2, <2>3, <2>5, AddedKeepsPending
        <2>7. QED
            BY <1>2, <2>1, <2>6
    <1>7. ASSUME NEW i \in DOMAIN txlog[active], CancelTx(i)
          PROVE  PendingInv(outputs, txlog)'
        <2> DEFINE outs == RefreshedOutputs(active)
                   log == RefreshedLog(active)
        <2>1. /\ outputs' = CancelledOutputs(outs, i) /\ txlog' = CancelledLog(log, i)
              /\ UNCHANGED slates
            BY <1>7, CancelIs
        <2>2. WellFormed(outs, log) /\ PendingInv(outs, log) /\ i \in DOMAIN log[active]
            BY <1>typ, RefreshEffect, RefreshKeepsPending
        <2> HIDE DEF outs, log
        <2>3. PendingInv(outputs', txlog')
            BY <2>1, <2>2, CancelKeepsPending
        <2>4. QED
            BY <1>2, <2>1, <2>3
    <1>8. ASSUME UNCHANGED <<outputs, txlog, slates>>
          PROVE  PendingInv(outputs, txlog)'
        BY <1>2, <1>8
    <1>9. QED
        <2>1. ASSUME NEW s \in OwnSlates,
                     TxLockOutputsCrash(s)
                     \/ \E r \in Answers(s) : FinalizeTx(s, r) \/ FinalizeTxCrash(s, r)
              PROVE  PendingInv(outputs, txlog)'
            BY <1>8, <2>1 DEF TxLockOutputsCrash, FinalizeTx, FinalizeTxCrash, world
        <2>2. ASSUME \/ \E a \in Accounts : InitSendTxFails(a)
                     \/ Refresh
                     \/ \E i \in DOMAIN txlog[active] : RepostTx(i)
              PROVE  PendingInv(outputs, txlog)'
            BY <1>4, <1>typ, <2>2 DEF InitSendTxFails, Refresh, RepostTx, world
        <2>3. ASSUME NEW t, PostTx(t) \/ Mine(t)
              PROVE  PendingInv(outputs, txlog)'
            BY <1>8, <2>3 DEF PostTx, Mine, db, world
        <2>4. CASE UNCHANGED vars \/ \E a \in Accounts : SetActiveAccount(a)
            BY <1>8, <2>4 DEF SetActiveAccount, vars, db, world
        <2>5. QED
            BY <1>3, <1>5, <1>6, <1>7, <2>1, <2>2, <2>3, <2>4
               DEF Next, Send, Receive, Settle, Environment, MineForeign

\* If sends build at most one change output, funds are pending only under an
\* entry the user can still see confirmed or cancel, over all accounts and with
\* or without zero confirmations.  With two change outputs it is not so.
THEOREM PendingIsOpen ==
    ChangeCounts \subseteq {0, 1} => (Spec => []PendingHasOpenEntry)
    <1> SUFFICES ASSUME ChangeCounts \subseteq {0, 1} PROVE Spec => []PendingHasOpenEntry
        OBVIOUS
    <1>1. ChainInv /\ OneChange /\ [Next]_vars => OneChange'
        BY OneChangeNext
    <1>2. PendingInv(outputs, txlog) => PendingHasOpenEntry
        BY DEF PendingInv, Pending, Entry, PendingHasOpenEntry
    <1>3. QED
        BY <1>1, <1>2, PendingInit, PendingNext, ChainInvariant, RecordInvariant, PTL DEF Spec
=============================================================================
