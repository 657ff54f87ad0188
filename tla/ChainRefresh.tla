---------------------------- MODULE ChainRefresh ----------------------------
(***************************************************************************)
(* Heights: a wallet that follows a node whose chain grows, forks and      *)
(* falls behind, and that gives a miner its coinbase outputs.  A refresh   *)
(* asks the node twice, for its height and for the outputs, and the chain  *)
(* may move in between.                                                    *)
(*                                                                         *)
(* A send takes the height for its slate, refreshes, selects by that       *)
(* height, and locks in a later call: the chain moves between all of them. *)
(*                                                                         *)
(* Abstractions.  All coins have one value.  A send is of one coin,        *)
(* without change; slates and cancelling are WalletLedger's.  The          *)
(* miner works on its last template, and sends the key of it with the next *)
(* request until a block with it is found, as grin's miners do.            *)
(***************************************************************************)
EXTENDS Naturals, Sequences, FiniteSets, SequencesExt

CONSTANTS
    Accounts,
    Maturity,   \* blocks before a coinbase may be spent (1440)
    Stale,      \* blocks after which an unconfirmed coinbase is dropped (50)
    MaxReorg,   \* blocks the node's chain may lose at once
    MaxHeight,  \* bound: blocks
    MaxLosses,  \* bound: times the chain gets shorter
    MaxKeys,    \* bound: keys derived per account
    MaxEntries, \* bound: log entries per account that are not coinbase
    MaxSends,   \* bound: private contexts
    NoKey

VARIABLES
    chain,      \* the node's blocks
    losses,     \* times the chain got shorter so far
    ever,       \* outputs that have been on the node's chain at some time
    outs,       \* OUTPUT records, by key
    log,        \* TX_LOG_ENTRY records of each account
    idx,        \* DERIV index
    lastHeight, \* CONFIRMED_HEIGHT of each account
    active,     \* parent_key_id of the backend
    refresh,    \* the refresh under way
    send,       \* the init_send_tx under way
    contexts,   \* the coins of the private contexts saved
    work,       \* the coinbase key and the height the miner works on
    signed,     \* keys signed into slates received
    spending    \* coins of sends that are out

wallet == <<outs, log, idx, lastHeight, active>>
world == <<work, signed, spending>>
sends == <<send, contexts>>
vars == <<chain, losses, ever, wallet, refresh, sends, world>>

-----------------------------------------------------------------------------
Key == Accounts \X (0 .. MaxKeys - 1)

ASSUME RefreshAssumption ==
    /\ Accounts # {} /\ NoKey \notin Key
    /\ Maturity \in Nat /\ Stale \in Nat \ {0}
    /\ MaxReorg \in 0 .. Stale
    /\ MaxHeight \in Nat /\ MaxLosses \in Nat /\ MaxKeys \in Nat \ {0} /\ MaxEntries \in Nat
    /\ MaxSends \in Nat

Height == 0 .. MaxHeight
Status == {"Unconfirmed", "Unspent", "Locked", "Spent"}
OutputData == [root : Accounts, status : Status, height : 0 .. MaxHeight + 1,
               lock : Nat, coinbase : BOOLEAN, entry : Nat]
TxLogEntry == [type : {"TxSent", "TxReceived", "ConfirmedCoinbase"},
               confirmed : BOOLEAN, key : Key]
Block == [new : SUBSET Key, spent : SUBSET Key]
NoWork == [key |-> NoKey, height |-> 0]
NoRefresh == [acct |-> NoKey, height |-> 0, all |-> FALSE, asked |-> FALSE]
\* "losses" is history: how often the chain had got shorter when the slate of
\* the send took its height.
Send == [acct : Accounts, height : Height, losses : 0 .. MaxLosses]
NoSend == [acct |-> NoKey, height |-> 0, losses |-> 0]
Context == [acct : Accounts, key : Key, losses : 0 .. MaxLosses]

Top == Len(chain)
Born(k) == CHOOSE h \in DOMAIN chain : k \in chain[h].new
OnChain == UNION {chain[h].new : h \in DOMAIN chain}
Utxo == OnChain \ UNION {chain[h].spent : h \in DOMAIN chain}

Init ==
    /\ chain = <<>> /\ losses = 0 /\ ever = {}
    /\ outs = <<>> /\ log = [a \in Accounts |-> <<>>] /\ idx = [a \in Accounts |-> 0]
    /\ lastHeight = [a \in Accounts |-> 0] /\ active \in Accounts
    /\ refresh = NoRefresh /\ send = NoSend /\ contexts = {}
    /\ work = NoWork /\ signed = {} /\ spending = {}

-----------------------------------------------------------------------------
(* The node and the miner.                                                 *)

AtMostOne(S) == {{}} \cup {{x} : x \in S}

\* A block with at most one coinbase, receipt and spend of this wallet.
MineBlock ==
    /\ Top < MaxHeight
    /\ \E cb \in {{}} \cup {{w.key} : w \in {work} \ {NoWork}},
          new \in AtMostOne(signed \ OnChain),
          spent \in AtMostOne(spending \cap Utxo) :
        /\ cb # {} => work.height = Top + 1
        /\ chain' = Append(chain, [new |-> cb \cup new, spent |-> spent])
        /\ ever' = ever \cup cb \cup new
        /\ work' = IF cb = {} THEN work ELSE NoWork
    /\ UNCHANGED <<losses, wallet, refresh, sends, signed, spending>>

\* The node follows another branch, of which it has seen less, or is replaced by
\* one that is behind.
LoseBlocks(n) ==
    /\ n <= Top
    /\ losses < MaxLosses /\ losses' = losses + 1
    /\ chain' = SubSeq(chain, 1, Top - n)
    /\ UNCHANGED <<ever, wallet, refresh, sends, world>>

-----------------------------------------------------------------------------
(* Calls that make and use outputs.                                        *)

Free == ~refresh.asked /\ send = NoSend

\* Mutant: a coinbase can be spent from its own height on.
LockAtHeight(h) == h
LockHeight(h) == h + Maturity

Put(k, r) == outs' = [q \in DOMAIN outs \cup {k} |-> IF q = k THEN r ELSE outs[q]]

\* The key the miner sends is used again if there is a record of it, whatever
\* the record says; else the active account gives its next one.
CoinbaseKey == IF work.key \in DOMAIN outs THEN work.key ELSE <<active, idx[active]>>

\* build_coinbase, receive_coinbase: the record is written over, under the
\* account that is active now, and without log entry.
BuildCoinbase ==
    LET k == CoinbaseKey
        h == Top + 1
    IN  /\ Free
        /\ k \in Key /\ h <= MaxHeight
        /\ idx' = IF work.key \in DOMAIN outs THEN idx ELSE [idx EXCEPT ![active] = @ + 1]
        /\ Put(k, [root |-> active, status |-> "Unconfirmed", height |-> h,
                   lock |-> LockHeight(h), coinbase |-> TRUE, entry |-> 0])
        /\ work' = [key |-> k, height |-> h]
        /\ UNCHANGED <<chain, losses, ever, log, lastHeight, active, refresh, sends,
                       signed, spending>>

PlainEntries(a) == {i \in DOMAIN log[a] : log[a][i].type # "ConfirmedCoinbase"}

AddToLog(a, type, k) ==
    /\ Cardinality(PlainEntries(a)) < MaxEntries
    /\ log' = [log EXCEPT ![a] =
                  Append(@, [type |-> type, confirmed |-> FALSE, key |-> k])]

ReceiveTx ==
    LET k == <<active, idx[active]>>
    IN  /\ Free
        /\ k \in Key
        /\ AddToLog(active, "TxReceived", k)
        /\ idx' = [idx EXCEPT ![active] = @ + 1]
        /\ Put(k, [root |-> active, status |-> "Unconfirmed", height |-> Top,
                   lock |-> 0, coinbase |-> FALSE, entry |-> Len(log[active]) + 1])
        /\ signed' = signed \cup {k}
        /\ UNCHANGED <<chain, losses, ever, lastHeight, active, refresh, sends,
                       work, spending>>

NumConfirmations(r, now) ==
    IF r.height > now \/ r.status = "Unconfirmed" \/ r.height = 0 THEN 0
    ELSE 1 + (now - r.height)

EligibleToSpend(r, now, min) ==
    /\ r.status \in {"Unspent", "Unconfirmed"}
    /\ ~(r.status = "Unconfirmed" /\ r.coinbase)
    /\ r.lock <= now
    /\ \/ r.status = "Unspent" /\ NumConfirmations(r, now) >= min
       \/ r.status = "Unconfirmed" /\ min = 0

\* new_tx_slate: a send, from any account, takes the height the node has now.
BeginSend(a) ==
    /\ Free
    /\ Cardinality(contexts) < MaxSends
    /\ send' = [acct |-> a, height |-> Top, losses |-> losses]
    /\ UNCHANGED <<chain, losses, ever, wallet, refresh, contexts, world>>

\* tx_lock_outputs, a call of its own: neither the height nor what has become of
\* the coin is looked at again.
LockCoin(c) ==
    /\ Free
    /\ c.key \in DOMAIN outs
    /\ AddToLog(c.acct, "TxSent", c.key)
    /\ outs' = [outs EXCEPT ![c.key].status = "Locked",
                            ![c.key].entry = Len(log[c.acct]) + 1]
    /\ spending' = spending \cup {c.key}
    /\ UNCHANGED <<chain, losses, ever, idx, lastHeight, active, refresh, sends,
                   work, signed>>

SetActiveAccount(a) ==
    /\ Free
    /\ active' = a
    /\ UNCHANGED <<chain, losses, ever, outs, log, idx, lastHeight, refresh, sends, world>>

-----------------------------------------------------------------------------
(* A refresh of one account.                                               *)

\* retrieve_* refresh the active account, an estimate or a send its source account
\* before it selects, and a check all outputs of the active one.  The height is
\* asked for first.
AskHeight(a, all) ==
    /\ ~refresh.asked
    /\ \/ send = NoSend
       \/ send.acct = a /\ ~all
    /\ all => a = active
    /\ refresh' = [acct |-> a, height |-> Top, all |-> all, asked |-> TRUE]
    /\ UNCHANGED <<chain, losses, ever, wallet, sends, world>>

Outstanding(a, i) ==
    i \in DOMAIN log[a] /\ ~log[a][i].confirmed /\ log[a][i].type \in {"TxSent", "TxReceived"}

\* map_wallet_outputs: spent outputs are never looked at again, and those of a
\* confirmed entry only by a check.
WalletOutputs(a, all) ==
    {k \in DOMAIN outs : /\ outs[k].root = a /\ outs[k].status # "Spent"
                         /\ all \/ outs[k].entry = 0 \/ Outstanding(a, outs[k].entry)}

\* Mutant: the status of a coinbase that is found does not matter.
NewCoinbaseOfAnyStatus(S) == {k \in S \cap Utxo : outs[k].coinbase}
NewCoinbase(S) ==
    {k \in S \cap Utxo : outs[k].coinbase /\ outs[k].status = "Unconfirmed"}

\* Mutant: any answer of the node about an output confirms its entry.
ConfirmedByAnswer(S) ==
    {outs[k].entry : k \in {q \in S : ~outs[q].coinbase /\ outs[q].status = "Unconfirmed"}}
Confirmed(S) ==
    {outs[k].entry : k \in {q \in S \cap Utxo :
                              ~outs[q].coinbase /\ outs[q].status = "Unconfirmed"}}

NewStatus(k) ==
    CASE k \in Utxo /\ outs[k].status = "Unconfirmed" -> "Unspent"
      [] k \notin Utxo /\ outs[k].status \in {"Unspent", "Locked"} -> "Spent"
      [] OTHER -> outs[k].status

\* Mutant: the id is taken after the counter has moved on.
NextIdTakenLate(a, i) == Len(log[a]) + i + 1
\* The i-th of several ids that are taken one after the other.
NextId(a, i) == Len(log[a]) + i

\* apply_api_outputs, in one batch: a coinbase seen for the first time gets its
\* log entry now.
Applied(a, all) ==
    LET S == WalletOutputs(a, all)
        new == SetToSeq(NewCoinbase(S))
        first == Len(log[a])
        Entry(k) == IF k \in NewCoinbase(S)
                    THEN NextId(a, CHOOSE i \in DOMAIN new : new[i] = k)
                    ELSE outs[k].entry
    IN  [outs |-> [k \in DOMAIN outs |->
                    IF k \notin S THEN outs[k]
                    ELSE [outs[k] EXCEPT
                            !.status = NewStatus(k),
                            !.height = IF k \in Utxo THEN Born(k) ELSE @,
                            !.entry = Entry(k)]],
         log |-> [i \in 1 .. first |->
                    IF i \in Confirmed(S) THEN [log[a][i] EXCEPT !.confirmed = TRUE]
                                          ELSE log[a][i]]
                 \o [i \in DOMAIN new |-> [type |-> "ConfirmedCoinbase",
                                           confirmed |-> TRUE, key |-> new[i]]]]

\* Mutant: old coinbase outputs are dropped whatever their status.
OldCoinbase(records, now) ==
    {k \in DOMAIN records : /\ records[k].coinbase
                            /\ records[k].height > 0
                            /\ now >= Stale /\ records[k].height < now - Stale}

\* clean_old_unconfirmed, of all accounts.
OldUnconfirmed(records, now) ==
    {k \in DOMAIN records : /\ records[k].status = "Unconfirmed" /\ records[k].coinbase
                            /\ records[k].height > 0
                            /\ now >= Stale /\ records[k].height < now - Stale}

Without(records, S) == [k \in DOMAIN records \ S |-> records[k]]

\* The height last confirmed is the active account's, whichever is refreshed.
NodeIsBehind == refresh.height < lastHeight[active]

Selectable(records) ==
    {k \in DOMAIN records :
        records[k].root = send.acct /\ EligibleToSpend(records[k], send.height, 1)}

\* select_coins, by the height of the slate, over the records the refresh has
\* left.  The coin goes into the context; its record stays what it is.
SelectCoin(records) ==
    \E k \in Selectable(records) :
        contexts' = contexts \cup {[acct |-> send.acct, key |-> k, losses |-> send.losses]}

\* The outputs are fetched and applied.  A node that is behind changes nothing,
\* but the cleaning goes on.  A send then selects, unless its coins do not
\* suffice: it reads the database only, so no move of the chain comes between.
Apply ==
    LET a == refresh.acct
        now == refresh.height
        new == Applied(a, refresh.all)
    IN  /\ refresh.asked
        /\ IF NodeIsBehind
           THEN /\ outs' = Without(outs, OldUnconfirmed(outs, now))
                /\ UNCHANGED <<log, lastHeight>>
           ELSE /\ outs' = Without(new.outs, OldUnconfirmed(new.outs, now))
                /\ log' = [log EXCEPT ![a] = new.log]
                /\ lastHeight' = [lastHeight EXCEPT ![active] = now]
        /\ refresh' = NoRefresh
        /\ send' = NoSend
        /\ contexts' = contexts \/ (send # NoSend /\ SelectCoin(outs'))
        /\ UNCHANGED <<chain, losses, ever, idx, active, world>>

\* The node does not answer, or the process ends (with another account active
\* after a restart: SetActiveAccount); a send is given up with its refresh.
RefreshFails ==
    /\ refresh.asked
    /\ refresh' = NoRefresh /\ send' = NoSend
    /\ UNCHANGED <<chain, losses, ever, wallet, contexts, world>>

Next ==
    \/ MineBlock
    \/ \E n \in 1 .. MaxReorg : LoseBlocks(n)
    \/ BuildCoinbase
    \/ ReceiveTx
    \/ \E c \in contexts : LockCoin(c)
    \/ \E a \in Accounts : SetActiveAccount(a) \/ BeginSend(a)
    \/ \E a \in Accounts, all \in BOOLEAN : AskHeight(a, all)
    \/ Apply
    \/ RefreshFails

Spec == Init /\ [][Next]_vars

-----------------------------------------------------------------------------
\* Mutant: immature coinbase counts as spendable.
CurrentlySpendableAtOnce(r, now, min) ==
    r.status = "Unspent" /\ NumConfirmations(r, now) >= min

\* retrieve_info: what amount_currently_spendable adds up.
CurrentlySpendable(r, now, min) ==
    /\ r.status = "Unspent"
    /\ ~(r.coinbase /\ r.lock > now)
    /\ NumConfirmations(r, now) >= min

-----------------------------------------------------------------------------
\* The records keep their shapes; an output that names an entry of its account
\* names one that is there.
TypeOK ==
    /\ chain \in Seq(Block) /\ Top \in Height /\ losses \in 0 .. MaxLosses
    /\ DOMAIN outs \subseteq Key /\ ever \subseteq Key
    /\ \A k \in DOMAIN outs : /\ outs[k] \in OutputData
                              /\ outs[k].entry \in 0 .. Len(log[outs[k].root])
    /\ \A a \in Accounts : log[a] \in Seq(TxLogEntry)
    /\ idx \in [Accounts -> 0 .. MaxKeys]
    /\ lastHeight \in [Accounts -> Height]
    /\ active \in Accounts /\ work \in [key : Key, height : 1 .. MaxHeight] \cup {NoWork}
    /\ send \in Send \cup {NoSend} /\ contexts \subseteq Context

\* A coinbase output is entered into the log once, however often the miner asks
\* again, the account is switched or the chain loses and finds its block.
CoinbaseEnteredOnce ==
    \A a, b \in Accounts : \A i \in DOMAIN log[a], j \in DOMAIN log[b] :
        /\ log[a][i].type = "ConfirmedCoinbase" /\ log[b][j].type = "ConfirmedCoinbase"
        /\ log[a][i].key = log[b][j].key
        => a = b /\ i = j

\* An entry is confirmed only for an output that has been on the chain: no answer
\* of a node that lags, forks or is behind confirms what was never mined.
ConfirmedWasMined ==
    \A a \in Accounts : \A i \in DOMAIN log[a] :
        log[a][i].confirmed => log[a][i].key \in ever

\* What is counted as spendable is what a send may select: the two functions
\* look at different fields and must not disagree about any output.
SpendableIsEligible ==
    \A k \in DOMAIN outs, now \in Height, min \in 1 .. 2 :
        CurrentlySpendable(outs[k], now, min)
            <=> outs[k].status = "Unspent" /\ EligibleToSpend(outs[k], now, min)

\* A coinbase that a refresh has entered keeps its record, in the account whose
\* log it is in: the cleaning that follows every refresh, of whatever account and
\* however far behind the node is, drops those only that no refresh has seen, and
\* no template of the miner writes over it.
EnteredCoinbaseIsKept ==
    \A a \in Accounts : \A i \in DOMAIN log[a] :
        log[a][i].type = "ConfirmedCoinbase" =>
            /\ log[a][i].key \in DOMAIN outs
            /\ outs[log[a][i].key].root = a
            /\ outs[log[a][i].key].status # "Unconfirmed"

\* As long as no block is lost from when a send took its height, the coinbase it
\* selected is mature, whenever it may be locked: blocks found during the
\* refresh, an old record or a second account do not bring an immature one in.
\* After a loss it may be immature, and the lock does not look again.
SelectedIsMature ==
    \A c \in contexts :
        /\ c.losses = losses
        /\ c.key \in Utxo /\ outs[c.key].coinbase
        => Top >= Born(c.key) + Maturity

\* "If the server height is less than our confirmed height, don't apply these
\* changes" (updater.rs): an answer older than one an account was brought up to
\* date with is refused.
OldChainIsRefused ==
    refresh.asked /\ refresh.height < lastHeight[refresh.acct] => NodeIsBehind
=============================================================================
