# wallet713 in TLA+

wallet713 is a Grin wallet: a command line, an owner and a foreign HTTP API, and two
message listeners (Grinbox, Keybase) over one LMDB database and one external Grin node.
This directory models the parts of it where order, failure and concurrency matter, checks
them with TLC and proves their safety properties with TLAPS. `PROJECT.json` lists the
components, runs, source lines behind each definition, mutants, findings, hazards and
theorems; this page says how they fit together.

    tlc -config ledger.cfg MCWalletLedger        # any run: tlc -config <run>.cfg <MC module>
    tlapm WalletLedgerProofs.tla                 # any proof: tlapm <module>Proofs.tla (minutes each)

## 1. Inventory

| Component | State | Operations | Hard part | What makes it correct | Model |
|---|---|---|---|---|---|
| Owner API `wallet/api/owner.rs` | none of its own; holds the container mutex per call | send, lock, finalize, post, repost, cancel, retrieve, listeners, accounts, seed, restore | calls come in any order; a call is several batches, a send several calls | the records stay in agreement whatever is called | WalletLedger, SlateExchange, Recovery, Session, Listeners |
| Foreign API `wallet/api/foreign.rs` | none | receive_tx, build_coinbase | fails after it has committed | a received slate is recorded once per account | WalletLedger, ChainRefresh |
| Building `internal/tx.rs`, `selection.rs` | slate, context | select, lock, sign, finalize, cancel | nothing is locked between selection and lock | fee, change and inputs add up; pending funds have an owner | CoinSelection, WalletLedger, SlateExchange |
| Updater `internal/updater.rs` | output statuses, log, last height | refresh, cancel, coinbase, clean, balance | node lags, reorganises; per account state | confirmed means mined; coinbase is entered once and kept | WalletLedger, ChainRefresh |
| Backend `backend/lmdb_backend.rs` | LMDB tables, `saved_txs/` files, child index, active account | batches, next_child, contexts, connect, clear | crash between a file and its commit | keys never repeat; stored transaction is the final one | WalletLedger, Session, Recovery |
| Restore `internal/restore.rs` | whole database | restore, check_repair | dozens of batches, a crash between any two | the rebuilt database is what the scan found, indices above used keys | Recovery |
| Accounts `internal/keys.rs` | label -> path | create, switch, relabel on restore | active account differs from the account of a call | ids and keys are per account | WalletLedger, Recovery |
| Container and listeners `wallet/container.rs`, `api/listener.rs` | one mutex, map interface -> thread | start, stop, join | join while holding the mutex | a stopped listener is stopped; a slate gets its turn | Listeners |
| Brokers `broker/*.rs` | connection, stop flag, batch | connect loop, poll loop, on_slate | lost stop, reconnect, panics | a recorded request is answered | Listeners, SlateExchange |
| Slate `types/slate`, adapters `adapter/` | slate in transit | two rounds of signing, http/grinbox/keybase/file | answer arrives before the lock; async send is not posted | the payment happens once or not at all | SlateExchange implements Payment |
| Seed `wallet/seed.rs`, start-up in `cli.rs` | seed file, password, connection | set, decrypt, recover | crash while the file is written; failure half way through `seed recover` | seed, password and database belong together | Session, Recovery |
| RPC, router, contacts, proofs, config, encodings, display | | | plumbing and I/O | | not modelled |

Components interact in three ways. All wallet calls, from the command line, HTTP workers and
listener threads, are serialised by the container mutex (`Container::new`,
`open_and_close`). Slates travel between wallets as messages that may be delayed, repeated or
lost. The node is asked for outputs and given transactions; its answer is a snapshot.

Properties worth having, per component: keys never reused, log entries decided once, pending
funds always cancellable, confirmed iff mined, outputs of mined transactions tracked (ledger);
selection pays, balances, terminates, refuses only when it must (selection); stopped listeners
are quiet, calls do not overlap, stops return (listeners); a payment is recorded before it is
signed, signed once, and paid once (exchange); seed, password and database fit, and a rebuilt
wallet is the chain's (recovery); selected coinbase is mature, entered coinbase is kept (chain). The
hazards behind them are in `PROJECT.json`, each at the line where it bites.

## 2. Modules

### WalletLedger
The database of one wallet, under the two APIs, next to the node's chain.

| Variable | Code |
|---|---|
| `outputs` | OUTPUT table (`OutputData`: account, status, log entry id) |
| `txlog` | TX_LOG_ENTRY table per account; an entry's id is its position |
| `childIdx` | DERIV table, the next child of each account |
| `contexts` | slates that have a saved private context |
| `stored` | `saved_txs/<slate>.grintx`: none, half built, or final |
| `active` | `parent_key_id` of the backend |
| `slates`, `replies`, `final` | what left the wallet: slates, keys signed into received slates, finalized transactions |
| `pool`, `mined`, `utxo` | the node |

One API call is one action, because it runs under the container mutex. Where the call consists of
several commits, `...Fails` and `...Crash` actions stop it after each prefix that leaves something
behind: keys derived without a context, a file without its batch, a final file without the context
removed, a received output without an answer. Both `InitSendTx` and `CancelTx` contain the refresh
the code begins with, on the account the code refreshes. Values and fees are CoinSelection's: here a
key stands for its commitment, and any nonempty set of eligible outputs can be selected. Left out:
heights and confirmations, coinbase, invoices, several unconfirmed entries for one output record
(the code cannot create them), the excess as data (the look-up it causes is kept).

### CoinSelection
`select_coins_and_fee` (first attempt without change, the retry loop) and `inputs_and_change`, one
call per behaviour, over sorted coin values, with Grin's weight as the fee. Panics
(`windows(0)`, division by the number of change outputs, modulo by a part of zero) are outcomes.

### Listeners
The container mutex, the map of listeners and one record per thread. `pc` follows the loops of
`GrinboxBroker::subscribe` (connect, online, returned, backoff) and `KeybaseSubscriber::start`
(begin, poll, fetch, next, sleep); `handling`, `inside`, `replying` are `Controller::on_slate`:
waiting for the mutex, in the wallet, sending the answer. A call ends in one of three ways: recorded
(`ReceiveSlate`, an answer follows), recorded and failed after the commit (`ReceiveFails`), or without a
record (`HandleSlate`: a finalize, or an earlier error). A request without inputs (`NoInputs`) is echoed
without a call and without the mutex (`EchoSlate`). `running` is `inner.is_some()` for
grinbox and the negated stop signal for keybase, set and cleared where the code does it, which is
what makes a stop get lost. HTTP listeners are left out: their stop waits for nothing and their
workers are among the "other" holders of the mutex. A step
replaces the whole record of its thread (`Become`).

### Payment and SlateExchange
`Payment` is what a transfer promises, whatever carries the slates: recorded by the receiver before
the sender signs, signed for one coin and for good, not signed after it was taken back, and no coin
pays twice. `SlateExchange` is the code: Alice's `Owner::init_send_tx` as the sequence of calls it
is (`calls[s].pc`: ready, waiting for the http answer, sent, locked, finalized, done), each call
taking the container mutex by itself, so that the answer to her listener, a cancel, another send or
a crash comes between any two; the network as a set of messages, which stay there once sent by
listener or file and so are delivered any number of times, in any order, or never; and Bob's
receiving by http, listener and file. `net` forgets an http message once it is answered.
`Promise == INSTANCE Payment WITH ...` is the refinement mapping: `recorded` are the slates Bob has a
log entry of, `withdrawn` those Alice cancelled unsigned, `coin` the input of the stored final
transaction, `paid` what the chain has; `PaymentKept` is its specification, a property of the run.

A slate is its id, its coin, Bob's outputs in it and its participants. A partial signature is the
set of signers whose nonces and excesses were summed when it was made, which is exactly what makes it
verify or not later; `Balanced` is the comparison of excesses in `finalize_transaction`. Only one
wallet of each kind: sends to oneself are WalletLedger's.

### Session and Recovery
`Session` has the seed file (absent, half written, or sealed with a password), the password the
backend remembers, whether the database is open, and the place of the command line: `real_start`,
`init_wallet`, `recover_wallet`, whose five calls can each fail or be the last before a crash.
`Recovery` extends it with the database, and with restore and check as the code runs them: `Scan`
computes the list of batches (`Plan`, in the order of the code; accounts come out of a hash map in any
order), and `CancelEntry`, `UnspendOutput`, `RestoreOutput`, `DeleteOutput`, `SetAcctPath`, `SaveEntry`,
`SaveChildIndex` commit one each. `Crash`, `JobFails` and `RecoverGivesUp` drop the rest of the list.
`torn` remembers that this has happened since the last `clear`; properties of a finished recovery
are about wallets that are not torn, because the code leaves a torn one as it is. Between the
recoveries the wallet receives, locks, refreshes, makes and switches accounts, and the chain moves.

An output is named by its key and its how-many-eth use, so that a key used twice gives two outputs,
one record of which the database may hold (`Overwritten`). The chain's moves are placed before refreshes and
scans only: nothing else reads it, so moves at other times give the same states of the database.

### ChainRefresh
The node's blocks, two accounts with their outputs, logs and last confirmed heights, a miner with its
coinbase template, and refreshes in two steps, `AskHeight` and `Apply`, with blocks and forks between
them. `Apply` is `refresh_output_state`: the outputs fetched, `apply_api_outputs` in one batch (or not, if
`NodeIsBehind`), and `clean_old_unconfirmed` over all accounts. `EligibleToSpend` and
`CurrentlySpendable` are the two functions of the code that decide about a coin, over the same record.
A send is three steps, as in the code: `BeginSend` takes the height for the slate (`new_tx_slate`), the
refresh of its account follows (`AskHeight`, `Apply`) and ends in the selection by the slate's height
(`SelectCoin`), and `LockCoin` is a later call that looks at neither height nor status. The chain moves
between any of them. The send holds the mutex from the first to the selection (`Free`), so no other call of
the wallet comes between. `losses` in a context is history: it tells whether a block was lost since the
height was taken. The code's 1440 and 50 blocks are the constants `Maturity` and
`Stale`.

`MC...` modules only give values to constants. `...Proofs` modules extend the module they are about;
`LedgerChainProofs` continues `WalletLedgerProofs`, and `SequenceFacts` has the lemmas about sequences
and sets that several of them use.

## 3. Runs

| Run | Question | Bounds, and why they are enough |
|---|---|---|
| ledger | Do outputs, log, contexts, files and chain agree under any order of calls with crashes? | two sends over two coins on one account, two log entries beside that of the restored coins, two derived keys beside the coins': two sends can share, exclude or chain on a coin, be locked twice, cancelled and re-locked, sent to oneself |
| ledger_accounts | Do two accounts get mixed up? | one send and one foreign slate, either in either account, at most two entries per account (so that their ids are equal), the first of the default account being that of its restored coin, three keys each |
| selection | Does the selection pay, balance, end, refuse only when it must? | up to four coins of values on both sides of the fees, amounts 1..14, limits and change counts 0..3 with 0 and 1 the edge cases; the loop turns twice |
| listeners | Are stops, restarts, reconnects and deliveries safe, and does a slate get its turn? | two threads: a restart of one interface, or both interfaces at once; two grinbox slates, one of them without inputs, and two keybase messages, one of which does not parse |
| exchange | Is a payment made once or not at all, by whatever way and in whatever order the slates travel? | two sends that compete for one coin, the first with each kind of arguments (http with and without finalize, listener, file, estimate over listener and http), two recorded receipts per slate: an answer can be late, repeated, for a cancelled receipt, and be handled by command, listener and file |
| recovery | Do seed, password and database fit, and is a rebuilt wallet what the scan found? | two seeds, one with one or two outputs on the chain in accounts of their own, two passwords, two seed files written, two restores or checks, two further outputs, two keys per account, three accounts: a check after a use after a check, a recovery of a used wallet, a label written over (the user's own is `account_2`, one that a restore or a check gives as well) |
| chain | Do heights, coinbase and maturity survive forks and lagging nodes? | three blocks, maturity and staleness of one block, one loss of a block, two accounts with one key and one plain entry each, one send: a coinbase can be found, forked away, found again, mature, be selected, mature or not at the lock, be spent, and be asked for again under another account |

`Symmetry` is used on slates in ledger, passwords in recovery and accounts in chain: no property names
one and none of these runs has a liveness property. Bounds are named constants (`MaxJobs`, `MaxMade`,
`MaxLosses`, ...) that occur in guards only.
Deadlock checking is off where the system may stop: bounded ledgers run out of keys, a selection
call returns, nobody has to use a listener, two sends come to an end.

Runs that are expected to fail, one property each, quoted from the repository (details in
`PROJECT.json` "findings"):

* ledger_double_lock: two sends that are prepared before either is locked lock one output
  (usage.md: "become locked and cannot be used until the transaction is finalized").
* listeners_stop: a stop may never return (owner.rs: "Stop all running listeners"). The call holds
  the mutex the thread waits for, or its signal is lost. `StopReturnsUnlessStuck`, checked in
  listeners, says that these two are the only reasons.
* exchange_async: a listener send that was to be posted is finalized and never posted (args.rs on
  `post_tx`). `SyncIsPosted`, checked in exchange, says that the http send is.
* recovery_index: a check sets the index of an account below a key that is in use (keys.rs: "Get next
  available key"); the next receipt uses that key again and overwrites the record.
* chain_behind: the guard against a node that is behind reads the height of the wrong account
  (updater.rs: "don't apply these changes as the chain is syncing, incorrect or forking").

Known divergences that the models show but no run is kept for:

* a send without change is never confirmed: only an output confirms an entry (updater.rs:298-301);
* with minimum_confirmations 0 a locked output that is not mined becomes Spent (output_status.rs:18-32);
* with two change outputs, a slate that is locked again after it was mined can leave a spent change
  Unconfirmed under a confirmed entry (selection.rs:90-163; section 4, `PendingIsOpen`);
* parts of a change that are smaller than their number do not add up to it: the remainder is taken modulo
  the part (selection.rs:430). What is lost is in no output and not in the fee, which the kernel fixes, so
  that the transaction does not balance; `BuiltBalances` says that it happens in no other case;
* the retry of the selection ignores max_outputs (selection.rs:303; args.rs calls the limit soft);
* keybase messages fetched with one whose answer fails are dropped (keybase.rs:111-125);
* `check -d` deletes an unconfirmed output of another account, or one mined since the refresh, although
  the scan has found it and the message says "not in UTXO set" (restore.rs:380-396). `CheckIsComplete`
  says that nothing else that was found is lost: only what was unconfirmed at the scan;
* a check writes over labels: `account_<i>` is counted from one in each, in the order of a hash map
  (restore.rs:399-408), so a later check can move a label to another account, the user's own `account_2`
  among them. The path it named is then without a label, and `new_acct_path` (keys.rs:70-86), which
  looks for the highest path that has one, may give it out again although it has outputs;
* an immature coinbase can be locked: a send selects by the height of its slate, and if blocks are lost before
  `tx_lock_outputs`, which looks at nothing (tx.rs:436-449), the coin may be in a later block than when it was
  selected. `SelectedIsMature` says that nothing but a lost block brings this about;
* a coinbase that was mined but not yet entered by a refresh of its own account is dropped by the cleaning
  that follows a refresh of another one (updater.rs:355-380; `EnteredCoinbaseIsKept` is about entered ones);
* a request whose `receive_tx` fails after its commit (tx.rs:257-277) stays recorded without an answer, and is
  refused when it comes again;
* a restore that was cut short cannot be completed: `restore` refuses a wallet with outputs, and a check
  repairs only what is missing: the entries of the outputs already there stay unsaved, and where all
  of an account were there its child index stays 0 (restore.rs:424-428).

Fairness. CoinSelection: weak fairness of Next, one thread runs the call. Listeners: weak fairness
of a thread's own steps (the OS schedules it), of the end of another wallet call, and of a stop
call's steps once their guards hold; a queued close ends its connection; strong fairness of
acquiring the mutex (parking_lot hands it over to waiters eventually). Not fair: starting,
stopping, delivering, losing a connection. SlateExchange (`FairSpec`): weak fairness of each send's
command, which is one thread that goes on or fails, of Alice's listener and of the receiver. Not
fair: starting, cancelling, reposting, mining, crashing. WalletLedger, Recovery and
ChainRefresh have no liveness property: nothing makes a user finish a send or a miner mine.

## 4. Proofs

Every safety invariant and action property the runs check is proved for all values of the
constants that satisfy the assumption of its module, and so is the refinement of Payment. Each
proof has an inductive invariant (`IInv`, `ChainInv`, ...) that contains or implies the property.
Lemmas for the actions show that it is kept, mostly by way of one that says what the action does to
the records (`...Is`), so that the definitions of the model are opened once.

`WalletLedgerProofs`, under `LedgerAssumption`:

* `TypeCorrect` ([]TypeOK). Shapes of the records first (inductive by itself), then `AccountsInv`:
  the account of a key's output never changes and every output names an entry of that account. The
  strengthening is needed because `tx_lock_outputs` writes the id of the slate's account into the
  inputs without looking at their account.
* `KeysAreFresh` ([]NoKeyReuse). `KeysInv`: each key in an output, a slate, a reply, a transaction
  or the chain lies below its account's child index, and two slates share none.
* `EntriesDecidedOnce` (EntryLifecycle), an action property, from the shapes.
* `FinalizedStays` ([]FinalizedIsKept). `FinalInv`: a context and a final transaction exist only for
  a slate that was initiated, and a slate is initiated once.

`LedgerChainProofs` goes on with the ledger against the chain. `ChainInv` adds what a transaction
carries (`CarriedInv`) and that a key which was spent never is on the chain again (`SpendInv`);
`RecordInv` says which entry an output may name, and that an own transaction's change is recorded.

* `ConfirmedWasMined` ([]ConfirmedIsMined) and `MinedOutputsAreTracked` ([]MinedIsTracked).
* `SpentWasMined`: ZeroConf = FALSE => []SpentIsMined, by `SeenInv` (a record that left Unconfirmed
  was on the chain). The hypothesis is needed: with `minimum_confirmations` 0 a locked output that was
  never mined becomes Spent (see the known divergences).
* `PendingIsOpen`: ChangeCounts \subseteq {0, 1} => []PendingHasOpenEntry. `PendingInv` needs that no two
  unconfirmed outputs share an entry. One change output is the default of the code (args.rs:92), but a user
  may ask for more, and then the property fails. TLC finds, with ChangeCounts = {2}: a send with
  changes c1, c2 is finalized and the process dies before the context is deleted; it is reposted, mined
  and refreshed; a second send spends c1; the first slate is locked again, which makes c1 and c2
  Unconfirmed under a new entry; the second send is mined; the refresh finds c2, confirms the new
  entry, and c1, which is spent, stays Unconfirmed under a confirmed entry for good.

`ListenersProofs` proves `ListenersTyped`, `StoppedListenersAreQuiet`, `CallsDoNotOverlap`,
`RecordedRequestsAreAnswered` and `GrinboxListenersSurvive` for any number of threads and slates
under `ListenersAssumption`: typing; `Agreement` of mutex, map, and stop call; `Flow`, which code a
thread is in; `SenderKept`, that a connected grinbox thread has its sender until it is stopped.

`SlateExchangeProofs`, under `ExchangeAssumption`. The invariant follows a slate: calls hold a slate of
their own id and are in the log from the lock on (`CallsInv`), only what is no estimate has a context,
an entry or a lock (`SentInv`), all copies of a slate that travel carry its coin (`NetInv`), a final
transaction is in both logs (`FinalInv`), and the node has final ones only (`NodeInv`).

* `ExchangeTyped`, `FinalizedIsInBothLogs`, `EstimatesSendNothing`, `ReceiptsAreOpenOnce`.
* `ExchangeImplementsPayment` (Spec => PaymentKept). `MappedInit` for the initial states; then a lemma
  for each kind of step that moves the mapped variables (a receipt, a final signature, a withdrawal, a
  payment) shows the step of Payment, and all others stutter. Payment's guards come from FinalInv (recorded
  before signed) and from the lock of the coin.

`ChainRefreshProofs`, under `RefreshAssumption`. `KeysInv`: the key a miner works on is on no block;
`LinkInv`: the entry an output names is about it; `HeightsInv`: the lock height in a coinbase record is that
of the block it is in, although the block may be another one than when the record was made.

* `RefreshTyped`, `CoinbaseIsEnteredOnce`, `ConfirmedEntryWasMined`, `EnteredIsKept`,
  `SpendableMayBeSelected`, and `SelectedCoinbaseIsMature`. For the last,
  `SendsInv`: if no block was lost since a send took its height, the chain is at least that high, and the lock
  height in the record of the coin it selected is not above the top; `HeightsInv` ties that to the coin's block.

`CoinSelectionProofs`, under the assumption of CoinSelection. The model adds with the fold
`MapThenFoldSet` of the community modules; `Adds` and `TotalUnfolds` unfold the fold, `TotalIsSum`
shows that it gives partial sums, and the sum of a reversed list, of equal parts, and of a prefix
follow. `SelectCoinsIs` says what `select_coins` returns, `SplitOfChange` what the division of the
change loses. The invariant (`LoopInv`, `InputsInv`) is that of the retry loop.

* `SelectionCovers`, `BuiltIsBalanced`, `FeeIsEnough`, `RefusedForCause`.

`RecoveryProofs`, under `SessionAssumption` and `RecoveryAssumption`, which lets an earlier wallet
have left any finite set of outputs on the chain. First the plan: `EachOfPlan`, `FinishAccountIs`
and `FinishAccountsIs` show what the flattened lists of batches contain, `NthIsUnique` that no label is planned
for two accounts, `NextChildIsAbove` that the next child is above the children found, and `PlanIs` puts
these together. Then the invariant: `SessionInv` (what each place of the command line means for file, password
and database), `SeedInv` (whose outputs these are), `PlanInv` (accounts are finished after all outputs,
labels agree), and `RestoreInv` and `CheckInv`: what is not done yet is planned, and a check plans to
delete only what was unconfirmed at its scan. The order of the plan
matters: `SaveEntry` writes over an id that exists only because all outputs of the account were
restored before (`HeadIsOrdered`, `EntryIsSaved`).

* `RecoveryTyped`, `SessionOpens`, `DatabaseIsOfSeed`, `EntriesAreSaved`, `RestoreCompletes`, `CheckCompletes`.

`SequenceFacts` has what these need of sequences and sets: induction over the naturals in the form of sets
(`NatSetInduction`: the library's theorem takes an operator, which the provers cannot instantiate, a set
they can), least and greatest elements, `ToSet` of concatenations and tails, and `FlattenSeqIs`, the
elements of a flattened sequence, from the recursive function that `FlattenSeq` chooses.

Only model-checked: all liveness (`Terminates`, `LockServed`, `StopReturnsUnlessStuck`, `SyncIsPosted`),
for which the prover would need ENABLED; and the five properties that are expected to fail.

## 5. Plan

Modelled: WalletLedger, CoinSelection, Listeners, SlateExchange over Payment, Session and Recovery,
ChainRefresh. Proved: all their safety properties. What is left, should the code change or the
models grow:

1. Safety lemmas behind the liveness properties, which TLC alone shows: that each turn of the retry loop
   of the selection takes more coins (`Terminates`), and that who waits for the container mutex is not
   its holder unless it is the stop call (`StopReturnsUnlessStuck`).
2. What a torn recovery still guarantees: RestoreInv over the prefix of the plan that was committed.
3. PendingHasOpenEntry for several change outputs, for sends whose context is gone.

## 6. Not modelled

Cryptography (signatures, range proofs, seed encryption), taken as perfect; transaction proofs, a pure
check; formats, encodings and the conversion of slate versions, a copy field by field between equal
formats; contacts and addresses, a store nothing else reads but the look-up of a destination; RPC
routing and authentication, each request of which is one API call of the models; configuration,
display and the parsing of commands; failing writes of LMDB itself. Each is stateless, or a store
without interaction.
