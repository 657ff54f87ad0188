---------------------------- MODULE WalletLedger ----------------------------
(***************************************************************************)
(* One wallet's database under the Owner and Foreign APIs: the outputs it  *)
(* tracks, the transaction log, the private contexts of the sends it has   *)
(* started, the derivation index of each account and the stored            *)
(* transaction files, beside the node's view of the chain.                 *)
(*                                                                         *)
(* Every API call runs while it holds the container mutex, so calls do not *)
(* interleave; what can happen between two of its commits is a crash.  A   *)
(* call is therefore one action for its success, and one more action for   *)
(* each prefix of its commits that leaves something behind when the call   *)
(* fails or the process dies ("...Fails", "...Crash").                     *)
(*                                                                         *)
(* Abstractions.  A key stands for its commitment (values and fees are     *)
(* those of CoinSelection), so the coins of a send are any nonempty set of *)
(* eligible outputs.  The node is up to date (heights are left out) and    *)
(* nobody mines into this wallet: its first coins were restored from the   *)
(* chain.  The excess of a log entry is display data and left out, the     *)
(* check that looks the entry up is kept.                                  *)
(***************************************************************************)
EXTENDS Naturals, Sequences, FiniteSets

CONSTANTS
    Accounts,       \* BIP32 parent paths, the values of parent_key_id
    Default,        \* the account a fresh process has active
    OwnSlates,      \* ids of the slates this wallet initiates
    ForeignSlates,  \* ids of the slates other wallets initiate
    CoinCount,      \* confirmed coins the wallet starts with
    ChangeCounts,   \* numbers of change outputs a send may build
    ZeroConf,       \* may a send ask for minimum_confirmations = 0?
    MaxEntries,     \* bound: log entries per account
    MaxKeys         \* bound: keys derived per account

ASSUME LedgerAssumption ==
    /\ Default \in Accounts
    /\ OwnSlates \cap ForeignSlates = {}
    /\ CoinCount \in Nat
    /\ ChangeCounts \subseteq Nat
    /\ ZeroConf \in BOOLEAN
    /\ MaxEntries \in Nat
    /\ MaxKeys \in Nat

VARIABLES
    outputs,    \* OUTPUT records by key
    txlog,      \* TX_LOG_ENTRY records; an entry's id is its position
    childIdx,   \* DERIV index of each account: the next child to derive
    contexts,   \* the slates with a saved private context
    stored,     \* saved_txs/<slate>.grintx
    active,     \* parent_key_id of the backend
    slates,     \* the slates handed to the outside world
    replies,    \* keys this wallet signed into a slate it received
    final,      \* complete transactions in the hands of a caller
    pool, mined, utxo    \* the node: accepted, mined, unspent keys

db == <<outputs, txlog, childIdx, contexts, stored>>
world == <<slates, replies, final>>
node == <<pool, mined, utxo>>
vars == <<db, active, world, node>>

-----------------------------------------------------------------------------
Slates == OwnSlates \cup ForeignSlates
Key == Accounts \X Nat
Status == {"Unconfirmed", "Unspent", "Locked", "Spent"}
TxType == {"TxSent", "TxReceived", "TxSentCancelled", "TxReceivedCancelled"}
NoSlate == "none"

OutputData == [acct : Accounts, status : Status, tx : Nat]
TxLogEntry == [type : TxType, slate : Slates \cup {NoSlate}, confirmed : BOOLEAN]
SendSlate == [acct : Accounts, inputs : SUBSET Key, change : SUBSET Key]
Transaction == [slate : Slates, reply : SUBSET Key]
StoredTx == [form : {"none", "partial", "final"}, reply : SUBSET Key]

Coins == {Default} \X (0 .. CoinCount - 1)
Blank == [acct |-> Default, inputs |-> {}, change |-> {}]
NotStored == [form |-> "none", reply |-> {}]
Partial == [form |-> "partial", reply |-> {}]
Initiated(s) == slates[s].inputs # {}

\* What a transaction spends and creates, of the keys of this wallet.
Inputs(t) == IF t.slate \in OwnSlates THEN slates[t.slate].inputs ELSE {}
Created(t) ==
    t.reply \cup (IF t.slate \in OwnSlates THEN slates[t.slate].change ELSE {})

Init ==
    /\ outputs = [k \in Coins |-> [acct |-> Default, status |-> "Unspent", tx |-> 1]]
    /\ txlog = [a \in Accounts |->
                  IF a = Default
                  THEN <<[type |-> "TxReceived", slate |-> NoSlate, confirmed |-> TRUE]>>
                  ELSE <<>>]
    /\ childIdx = [a \in Accounts |-> IF a = Default THEN CoinCount ELSE 0]
    /\ contexts = {}
    /\ stored = [s \in OwnSlates |-> NotStored]
    /\ active = Default
    /\ slates = [s \in OwnSlates |-> Blank]
    /\ replies = [s \in Slates |-> {}]
    /\ final = {} /\ pool = {} /\ mined = {}
    /\ utxo = Coins

-----------------------------------------------------------------------------
(* updater.rs: bring one account up to date with the node.                 *)

Outstanding(a, i) ==
    /\ i \in DOMAIN txlog[a]
    /\ ~txlog[a][i].confirmed
    /\ txlog[a][i].type \in {"TxSent", "TxReceived"}

Refreshable(a) ==
    {k \in DOMAIN outputs : /\ outputs[k].acct = a
                            /\ outputs[k].status # "Spent"
                            /\ Outstanding(a, outputs[k].tx)}

\* Mutant: an output that is not on the chain yet is taken for spent.
MarkSpentEarly(status) == "Spent"
MarkSpent(status) == IF status \in {"Unspent", "Locked"} THEN "Spent" ELSE status
MarkUnspent(status) == IF status = "Unconfirmed" THEN "Unspent" ELSE status

RefreshedOutputs(a) ==
    [k \in DOMAIN outputs |->
        IF k \notin Refreshable(a) THEN outputs[k]
        ELSE [outputs[k] EXCEPT !.status = IF k \in utxo THEN MarkUnspent(@)
                                                         ELSE MarkSpent(@)]]

\* Mutants: an input that is still unspent confirms the send it is locked by;
\* the entry is looked up by its id alone, whatever the account.
ConfirmsByAnyOutput(a, i) ==
    \E k \in Refreshable(a) \cap utxo : outputs[k].tx = i
ConfirmsAnyAccount(a, i) ==
    \E k \in DOMAIN outputs \cap utxo :
        outputs[k].status = "Unconfirmed" /\ outputs[k].tx = i

\* An output found on the chain for the first time confirms its log entry.
Confirms(a, i) ==
    \E k \in Refreshable(a) \cap utxo :
        outputs[k].status = "Unconfirmed" /\ outputs[k].tx = i

RefreshedLog(a) ==
    [txlog EXCEPT ![a] = [i \in DOMAIN txlog[a] |->
        [txlog[a][i] EXCEPT !.confirmed = @ \/ Confirms(a, i)]]]

\* retrieve_outputs, retrieve_txs, retrieve_summary_info: all refresh first.
Refresh ==
    /\ outputs' = RefreshedOutputs(active)
    /\ txlog' = RefreshedLog(active)
    /\ UNCHANGED <<childIdx, contexts, stored, active, world, node>>

-----------------------------------------------------------------------------
(* Sending.                                                                *)

NewKeys(n) == {active} \X (childIdx[active] .. childIdx[active] + n - 1)

\* Mutant: the index is not saved.
DeriveKeysUnsaved(n) ==
    /\ childIdx[active] + n <= MaxKeys
    /\ UNCHANGED childIdx

\* next_child, n times, always under the active account.
DeriveKeys(n) ==
    /\ childIdx[active] + n <= MaxKeys
    /\ childIdx' = [childIdx EXCEPT ![active] = @ + n]

Eligible(outs, a) ==
    {k \in DOMAIN outs : /\ outs[k].acct = a
                         /\ \/ outs[k].status = "Unspent"
                            \/ ZeroConf /\ outs[k].status = "Unconfirmed"}

\* Owner::init_send_tx up to the slate: refresh, select, derive the change,
\* save the context.  The selected outputs are not locked here.
InitSendTx(s, a) ==
    /\ ~Initiated(s)
    /\ outputs' = RefreshedOutputs(a)
    /\ txlog' = RefreshedLog(a)
    /\ \E ins \in (SUBSET Eligible(outputs', a)) \ {{}}, n \in ChangeCounts :
        /\ DeriveKeys(n)
        /\ slates' = [slates EXCEPT ![s] =
                        [acct |-> a, inputs |-> ins, change |-> NewKeys(n)]]
    /\ contexts' = contexts \cup {s}
    /\ UNCHANGED <<stored, active, replies, final, node>>

\* The refresh and the derived keys are committed on their own: an error or a
\* crash before the context is saved leaves them.
InitSendTxFails(a) ==
    /\ outputs' = RefreshedOutputs(a)
    /\ txlog' = RefreshedLog(a)
    /\ \E n \in ChangeCounts \cup {0} : DeriveKeys(n)
    /\ UNCHANGED <<contexts, stored, active, world, node>>

\* Mutant: the entry goes to the active account.
AddToActiveLog(a, type, s) ==
    txlog' = [txlog EXCEPT ![active] = Append(@,
                [type |-> type, slate |-> s, confirmed |-> FALSE])]

\* next_tx_log_id and save_tx_log_entry, in one batch.
AddToLog(a, type, s) ==
    /\ Len(txlog[a]) < MaxEntries
    /\ txlog' = [txlog EXCEPT ![a] = Append(@,
                    [type |-> type, slate |-> s, confirmed |-> FALSE])]

\* tx_lock_outputs.  It reads the inputs from the context and overwrites their
\* status whatever it is; a missing input is an unwrap() on an error.
TxLockOutputs(s) ==
    LET a == slates[s].acct
        id == Len(txlog[a]) + 1
    IN  /\ s \in contexts
        /\ slates[s].inputs \subseteq DOMAIN outputs
        /\ outputs' = [k \in DOMAIN outputs \cup slates[s].change |->
                        IF k \in slates[s].change
                        THEN [acct |-> a, status |-> "Unconfirmed", tx |-> id]
                        ELSE IF k \in slates[s].inputs
                        THEN [outputs[k] EXCEPT !.status = "Locked", !.tx = id]
                        ELSE outputs[k]]
        /\ AddToLog(a, "TxSent", s)
        /\ stored' = [stored EXCEPT ![s] = Partial]
        /\ UNCHANGED <<childIdx, contexts, active, world, node>>

\* The transaction file is written before the batch commits.
TxLockOutputsCrash(s) ==
    /\ s \in contexts
    /\ slates[s].inputs \subseteq DOMAIN outputs
    /\ stored' = [stored EXCEPT ![s] = Partial]
    /\ UNCHANGED <<outputs, txlog, childIdx, contexts, active, world, node>>

\* Mutant: a send may be finalized before its outputs are locked.
SentEntryUnchecked(s) == TRUE

\* The look-up of update_stored_excess and update_stored_tx.
SentEntryExists(s) ==
    \E a \in Accounts : \E i \in DOMAIN txlog[a] :
        txlog[a][i].type = "TxSent" /\ txlog[a][i].slate = s

\* The answers that can come back for a slate: one this wallet gave itself,
\* or one by another wallet.
Answers(s) == {{}} \cup {{k} : k \in replies[s]}

\* Mutant: the context is kept.
FinalizeTxKeepingContext(s, r) ==
    /\ s \in contexts
    /\ SentEntryExists(s)
    /\ stored' = [stored EXCEPT ![s] = [form |-> "final", reply |-> r]]
    /\ final' = final \cup {[slate |-> s, reply |-> r]}
    /\ UNCHANGED <<outputs, txlog, childIdx, contexts, active, slates, replies, node>>

\* finalize_tx: sign, check the log entry, store the transaction, delete the
\* context, hand the transaction to the caller.
FinalizeTx(s, r) ==
    /\ s \in contexts
    /\ SentEntryExists(s)
    /\ stored' = [stored EXCEPT ![s] = [form |-> "final", reply |-> r]]
    /\ contexts' = contexts \ {s}
    /\ final' = final \cup {[slate |-> s, reply |-> r]}
    /\ UNCHANGED <<outputs, txlog, childIdx, active, slates, replies, node>>

\* The file is written, the context still there and the caller has nothing.
FinalizeTxCrash(s, r) ==
    /\ s \in contexts
    /\ SentEntryExists(s)
    /\ stored' = [stored EXCEPT ![s] = [form |-> "final", reply |-> r]]
    /\ UNCHANGED <<outputs, txlog, childIdx, contexts, active, world, node>>

\* Mutants: a confirmed entry can be cancelled; the outputs are looked up by the
\* log id alone; locked outputs stay locked.
CancellableAnyTime(e) == e.type \in {"TxSent", "TxReceived"}
InvolvedAnyAccount(outs, i) ==
    {k \in DOMAIN outs : outs[k].tx = i /\ outs[k].status # "Spent"}
UnlockNothing(o) == o

Cancellable(e) == e.type \in {"TxSent", "TxReceived"} /\ ~e.confirmed

Involved(outs, i) ==
    {k \in DOMAIN outs : /\ outs[k].acct = active
                         /\ outs[k].tx = i
                         /\ outs[k].status # "Spent"}

Unlock(o) == IF o.status = "Locked" THEN [o EXCEPT !.status = "Unspent"] ELSE o

\* cancel_tx: refresh the active account, then undo one of its open entries.
CancelTx(i) ==
    LET outs == RefreshedOutputs(active)
        log == RefreshedLog(active)
        deleted == {k \in Involved(outs, i) : outs[k].status = "Unconfirmed"}
    IN  /\ Cancellable(log[active][i])
        /\ outputs' = [k \in DOMAIN outs \ deleted |->
                        IF k \in Involved(outs, i) THEN Unlock(outs[k]) ELSE outs[k]]
        /\ txlog' = [log EXCEPT ![active][i].type =
                        IF @ = "TxSent" THEN "TxSentCancelled" ELSE "TxReceivedCancelled"]
        /\ UNCHANGED <<childIdx, contexts, stored, active, world, node>>

-----------------------------------------------------------------------------
(* Receiving.                                                              *)

AlreadyReceived(s, a) ==
    \E i \in DOMAIN txlog[a] :
        txlog[a][i].type = "TxReceived" /\ txlog[a][i].slate = s

\* The output and the log entry are committed before the slate is signed.  The
\* key comes from the active account, whatever the destination account is.
BuildRecipientOutput(s, a) ==
    LET id == Len(txlog[a]) + 1
    IN  /\ s \in OwnSlates => Initiated(s)
        /\ ~AlreadyReceived(s, a)
        /\ DeriveKeys(1)
        /\ outputs' = [k \in DOMAIN outputs \cup NewKeys(1) |->
                        IF k \in NewKeys(1)
                        THEN [acct |-> a, status |-> "Unconfirmed", tx |-> id]
                        ELSE outputs[k]]
        /\ AddToLog(a, "TxReceived", s)

ReceiveTx(s, a) ==
    /\ BuildRecipientOutput(s, a)
    /\ replies' = [replies EXCEPT ![s] = @ \cup NewKeys(1)]
    /\ UNCHANGED <<contexts, stored, active, slates, final, node>>

\* The fee or a signature is refused, or the process dies before the answer.
ReceiveTxFails(s, a) ==
    /\ BuildRecipientOutput(s, a)
    /\ UNCHANGED <<contexts, stored, active, world, node>>

-----------------------------------------------------------------------------
(* Posting, the node, and the rest of the process.                         *)

\* The node takes a transaction whose inputs it knows to be unspent.
Accepts(t) == Inputs(t) \subseteq utxo

PostTx(t) ==
    /\ Accepts(t)
    /\ pool' = pool \cup {t}
    /\ UNCHANGED <<db, active, world, mined, utxo>>

\* repost_tx: refresh, then post the stored transaction of an unconfirmed
\* entry, cancelled or not.  A half-built one is refused by the node.
RepostTx(i) ==
    LET log == RefreshedLog(active)
        s == log[active][i].slate
    IN  /\ ~log[active][i].confirmed
        /\ s \in OwnSlates
        /\ stored[s].form = "final"
        /\ outputs' = RefreshedOutputs(active)
        /\ txlog' = log
        /\ LET t == [slate |-> s, reply |-> stored[s].reply]
           IN  Accepts(t) /\ pool' = pool \cup {t}
        /\ UNCHANGED <<childIdx, contexts, stored, active, world, mined, utxo>>

Mine(t) ==
    /\ Accepts(t)
    /\ mined' = mined \cup {t}
    /\ utxo' = (utxo \ Inputs(t)) \cup Created(t)
    /\ UNCHANGED <<db, active, world, pool>>

\* The sender of a foreign slate completes one of our answers, once.
MineForeign(s, k) ==
    /\ \A t \in mined : t.slate # s
    /\ Mine([slate |-> s, reply |-> {k}])

SetActiveAccount(a) ==
    /\ active' = a
    /\ UNCHANGED <<db, world, node>>

-----------------------------------------------------------------------------
Send ==
    \/ \E s \in OwnSlates, a \in Accounts : InitSendTx(s, a)
    \/ \E a \in Accounts : InitSendTxFails(a)
    \/ \E s \in OwnSlates : TxLockOutputs(s) \/ TxLockOutputsCrash(s)
    \/ \E s \in OwnSlates : \E r \in Answers(s) : FinalizeTx(s, r) \/ FinalizeTxCrash(s, r)

Receive == \E s \in Slates, a \in Accounts : ReceiveTx(s, a) \/ ReceiveTxFails(s, a)

Settle ==
    \/ Refresh
    \/ \E i \in DOMAIN txlog[active] : CancelTx(i) \/ RepostTx(i)
    \/ \E t \in final \ pool : PostTx(t)

Environment ==
    \/ \E t \in pool : Mine(t)
    \/ \E s \in ForeignSlates : \E k \in replies[s] : MineForeign(s, k)
    \/ \E a \in Accounts : SetActiveAccount(a)

Next == Send \/ Receive \/ Settle \/ Environment

Spec == Init /\ [][Next]_vars
-----------------------------------------------------------------------------
(* Properties.                                                             *)

\* The shapes of the records.
Shapes ==
    /\ outputs \in [DOMAIN outputs -> OutputData] /\ DOMAIN outputs \subseteq Key
    /\ txlog \in [Accounts -> Seq(TxLogEntry)]
    /\ childIdx \in [Accounts -> Nat]
    /\ contexts \subseteq OwnSlates
    /\ stored \in [OwnSlates -> StoredTx]
    /\ active \in Accounts
    /\ slates \in [OwnSlates -> SendSlate]
    /\ replies \in [Slates -> SUBSET Key]
    /\ final \cup pool \cup mined \subseteq Transaction
    /\ utxo \subseteq Key

\* The records have their shapes, and every output names a log entry of its own
\* account (OutputData.root_key_id and tx_log_entry), on which cancel_tx, the
\* refresh and retrieve_txs rely when they look one up by the other.
TypeOK ==
    /\ Shapes
    /\ \A k \in DOMAIN outputs : outputs[k].tx \in DOMAIN txlog[outputs[k].acct]

\* The keys the indices of the accounts have moved past.
Derived == UNION {{a} \X (0 .. childIdx[a] - 1) : a \in Accounts}

\* "The key of the fresh output" is fresh: no key is ever derived for two
\* purposes, whatever calls fail or crash on the way, so no two outputs of the
\* wallet can have one commitment.  A key in use lies below its account's index.
NoKeyReuse ==
    /\ DOMAIN outputs \cup utxo \subseteq Derived
    /\ \A s \in OwnSlates :
        /\ slates[s].change \subseteq Derived
        /\ \A t \in OwnSlates \ {s} : slates[s].change \cap slates[t].change = {}
        /\ \A t \in Slates : slates[s].change \cap replies[t] = {}
    /\ \A s \in Slates :
        /\ replies[s] \subseteq Derived
        /\ \A t \in Slates \ {s} : replies[s] \cap replies[t] = {}

\* Funds are pending only on behalf of a transaction the user can still see
\* confirmed or cancel: a locked output belongs to a send that is neither
\* cancelled nor confirmed, an unconfirmed one to such a send or receive.
\* ("either all outputs involved in a tx should be confirmed, or none")
PendingHasOpenEntry ==
    \A k \in DOMAIN outputs :
        LET e == txlog[outputs[k].acct][outputs[k].tx]
        IN  /\ outputs[k].status = "Locked" => e.type = "TxSent"
            /\ outputs[k].status \in {"Locked", "Unconfirmed"} =>
                    e.type \in {"TxSent", "TxReceived"} /\ ~e.confirmed

\* A log entry is marked confirmed only when its transaction is on the chain.
ConfirmedIsMined ==
    \A a \in Accounts : \A i \in DOMAIN txlog[a] :
        LET e == txlog[a][i]
        IN  e.confirmed /\ e.slate # NoSlate => \E t \in mined : t.slate = e.slate

\* Once finalize_tx has handed a transaction out, its context is gone (the send
\* cannot be signed a second time) and the stored file is that transaction, so
\* repost_tx can send it again whatever else is called meanwhile.
FinalizedIsKept ==
    \A t \in final :
        /\ t.slate \notin contexts
        /\ stored[t.slate] = [form |-> "final", reply |-> t.reply]

\* An output of this wallet that a mined transaction put on the chain is in the
\* database, unless the user cancelled that transaction.
MinedIsTracked ==
    \A t \in mined : \A k \in Created(t) \cap utxo :
        \/ k \in DOMAIN outputs
        \/ \E a \in Accounts : \E i \in DOMAIN txlog[a] :
            /\ txlog[a][i].slate = t.slate
            /\ txlog[a][i].type \in {"TxSentCancelled", "TxReceivedCancelled"}

\* "Locked (when it's been used to generate a transaction but we don't have
\* confirmation that the transaction was broadcasted or mined)": an output is
\* Spent only when a mined transaction spends it.
SpentIsMined ==
    \A k \in DOMAIN outputs :
        outputs[k].status = "Spent" => \E t \in mined : k \in Inputs(t)

\* The log only grows, an entry keeps its slate, and its fate is decided once:
\* open, then confirmed or cancelled for good.
LogStep ==
    \A a \in Accounts :
        /\ Len(txlog[a]) <= Len(txlog'[a])
        /\ \A i \in DOMAIN txlog[a] :
            LET e == txlog[a][i]
                f == txlog'[a][i]
            IN  /\ f.slate = e.slate
                /\ e # f => Outstanding(a, i)
                /\ e.type # f.type => ~f.confirmed
EntryLifecycle == [][LogStep]_vars

\* "The outputs (UTXOs) used become locked and cannot be used until the
\* transaction is finalized": no two sends that are still open use one output.
ExclusiveInputs ==
    \A s, t \in OwnSlates :
        /\ s # t
        /\ \A u \in {s, t} : \E i \in DOMAIN txlog[slates[u].acct] :
            Outstanding(slates[u].acct, i) /\ txlog[slates[u].acct][i].slate = u
        => slates[s].inputs \cap slates[t].inputs = {}
=============================================================================
