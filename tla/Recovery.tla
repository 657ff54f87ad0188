------------------------------ MODULE Recovery ------------------------------
(***************************************************************************)
(* Rebuilding a wallet from the chain: `restore` into an empty database,   *)
(* `check` of one that is in use, and `seed recover`, which replaces seed  *)
(* and database and then restores.  Both scan the node for the outputs of  *)
(* the seed, plan a list of database batches, and commit them one by one;  *)
(* a crash leaves any prefix.  The wallet is used between the calls, and   *)
(* the chain moves at any time.                                            *)
(*                                                                         *)
(* Abstractions.  An output is named by its key and by the how-many-eth    *)
(* use of that key it is, so using a key twice gives two outputs.  Sending *)
(* is the locking of one coin, the rest of it is WalletLedger's; coinbase  *)
(* outputs are ChainRefresh's.                                             *)
(***************************************************************************)
EXTENDS Session, Sequences, FiniteSets, SequencesExt

CONSTANTS
    MaxPath,    \* bound: highest account path
    MaxKeys,    \* bound: keys derived per account
    MaxUses,    \* bound: outputs made with one key
    MaxMade,    \* bound: outputs made
    MaxJobs,    \* bound: restores and checks begun
    MaxEntries, \* bound: log entries per account
    Histories,  \* what earlier wallets of the seeds may have left on the chain
    UserLabels  \* labels the user gives to accounts, account_<i> among them or not

VARIABLES
    outs,       \* OUTPUT records, by output
    log,        \* TX_LOG_ENTRY records of each account
    idx,        \* DERIV index of each account
    labels,     \* ACCOUNT_PATH_MAPPING: path by label
    active,     \* parent_key_id of the backend
    job,        \* the restore or check under way
    todo,       \* the batches it still has to commit
    jobs,       \* restores and checks begun so far
    made, utxo, \* outputs made so far, and those on the chain
    torn        \* has a recovery been cut short since the last clear?

db == <<outs, log, idx, labels>>
chain == <<made, utxo>>
vars == <<session, db, active, job, todo, jobs, chain, torn>>

-----------------------------------------------------------------------------
Paths == 0 .. MaxPath
Output == [seed : Seeds, path : Paths, n : 0 .. MaxKeys - 1, use : 1 .. MaxUses]

ASSUME RecoveryAssumption ==
    /\ MaxPath \in Nat /\ MaxKeys \in Nat \ {0}
    /\ MaxUses \in Nat \ {0} /\ MaxEntries \in Nat /\ MaxMade \in Nat /\ MaxJobs \in Nat
    /\ Histories \subseteq SUBSET Output /\ \A h \in Histories : IsFiniteSet(h)
    /\ UserLabels \subseteq {"user", "account"} \X Nat

Status == {"Unconfirmed", "Unspent", "Locked", "Spent"}
TxType == {"reserved", "TxSent", "TxReceived", "TxSentCancelled", "TxReceivedCancelled"}
OutputData == [root : Paths, status : Status, entry : Nat, scanned : BOOLEAN]
TxLogEntry == [type : TxType, confirmed : BOOLEAN]
RestoredLabel(i) == <<"account", i>>
DefaultLabel == <<"default", 0>>
Labels == {DefaultLabel} \cup UserLabels \cup {RestoredLabel(i) : i \in 1 .. MaxPath}

\* "found" is what the scan found of the seed's outputs, "unconfirmed" what the
\* wallet had unconfirmed then, and "stats" the log id that a restore has taken
\* for each account (0 if none).
Job == [kind : {"none", "check", "restore"}, delete : BOOLEAN, found : SUBSET Output,
        unconfirmed : SUBSET Output, stats : [Paths -> Nat] \cup {<<>>}]
Idle == [kind |-> "none", delete |-> FALSE, found |-> {}, unconfirmed |-> {},
         stats |-> <<>>]
Batch ==
    [op : {"scan"}]
    \cup [op : {"cancel", "unspend", "delete", "restore"}, out : Output]
    \cup [op : {"label"}, path : Paths \ {0}, label : {RestoredLabel(i) : i \in 1 .. MaxPath}]
    \cup [op : {"entry"}, path : Paths]
    \cup [op : {"index"}, path : Paths, next : 0 .. MaxKeys]
NoLog == [a \in Paths |-> <<>>]
Unused == [a \in Paths |-> 0]
DefaultLabels == [l \in {DefaultLabel} |-> 0]

Init ==
    /\ SessionInit
    /\ outs = <<>> /\ log = NoLog /\ idx = Unused /\ labels = DefaultLabels
    /\ active = 0
    /\ job = Idle /\ todo = <<>> /\ jobs = 0
    /\ made \in Histories /\ utxo = made
    /\ torn = FALSE

ScanFirst == <<[op |-> "scan"]>>
MaxOf(S) == IF S = {} THEN 0 ELSE CHOOSE x \in S : \A y \in S : y <= x
\* A record is written under its key, over the one that is there.
Put(f, x, v) == [y \in DOMAIN f \cup {x} |-> IF y = x THEN v ELSE f[y]]
MyOutputs == {o \in utxo : o.seed = seedFile.seed}
Free == CanOpen /\ job.kind = "none"

-----------------------------------------------------------------------------
(* The chain, and the use of the wallet between two recoveries.            *)

\* The chain is read by refreshes and scans only, so its moves can be taken to
\* happen just before one of these, between the calls or while one waits to scan.
ChainMoves == Free \/ todo = ScanFirst

OutputMined(o) ==
    /\ ChainMoves
    /\ o \in made \ utxo
    /\ utxo' = utxo \cup {o}
    /\ UNCHANGED <<session, db, active, job, todo, jobs, made, torn>>

\* Spent, by this wallet or by another one of the same seed, or forked away.
OutputLeaves(o) ==
    /\ ChainMoves
    /\ o \in utxo
    /\ utxo' = utxo \ {o}
    /\ UNCHANGED <<session, db, active, job, todo, jobs, made, torn>>

Uses(path, n) ==
    Cardinality({o \in made : o.seed = seedFile.seed /\ o.path = path /\ o.n = n})

\* An OUTPUT record is stored under its key, and under its position in the
\* output set as well if it was found there.
Overwritten(path, n) ==
    {o \in DOMAIN outs : o.path = path /\ o.n = n /\ ~outs[o].scanned}

\* receive_tx: the key is the active account's, the record the destination's.
Receive(p) ==
    LET n == idx[active]
        o == [seed |-> seedFile.seed, path |-> active, n |-> n,
              use |-> Uses(active, n) + 1]
        id == Len(log[p]) + 1
    IN  /\ Free
        /\ \E l \in DOMAIN labels : labels[l] = p
        /\ n < MaxKeys /\ o.use <= MaxUses /\ id <= MaxEntries
        /\ Cardinality(made) < MaxMade
        /\ outs' = [q \in (DOMAIN outs \ Overwritten(active, n)) \cup {o} |->
                      IF q = o
                      THEN [root |-> p, status |-> "Unconfirmed", entry |-> id,
                            scanned |-> FALSE]
                      ELSE outs[q]]
        /\ log' = [log EXCEPT ![p] =
                      Append(@, [type |-> "TxReceived", confirmed |-> FALSE])]
        /\ idx' = [idx EXCEPT ![active] = @ + 1]
        /\ made' = made \cup {o}
        /\ UNCHANGED <<session, labels, active, job, todo, jobs, utxo, torn>>

LockCoin(o) ==
    LET a == outs[o].root
        id == Len(log[a]) + 1
    IN  /\ Free
        /\ a = active /\ outs[o].status = "Unspent"
        /\ id <= MaxEntries
        /\ outs' = [outs EXCEPT ![o].status = "Locked", ![o].entry = id]
        /\ log' = [log EXCEPT ![a] =
                      Append(@, [type |-> "TxSent", confirmed |-> FALSE])]
        /\ UNCHANGED <<session, idx, labels, active, job, todo, jobs, chain, torn>>

NewStatus(o) ==
    CASE o \in utxo /\ outs[o].status = "Unconfirmed" -> "Unspent"
      [] o \notin utxo /\ outs[o].status \in {"Unspent", "Locked"} -> "Spent"
      [] OTHER -> outs[o].status

\* refresh_outputs: all outputs of the account that are not spent, or those of
\* open entries only.
RefreshOutputs(a, all) ==
    LET open == {i \in DOMAIN log[a] : /\ ~log[a][i].confirmed
                                       /\ log[a][i].type \in {"TxSent", "TxReceived"}}
        fresh == {o \in DOMAIN outs : /\ outs[o].root = a
                                      /\ all \/ outs[o].entry \in open}
        confirmed == {outs[o].entry :
                        o \in {q \in fresh \cap utxo : outs[q].status = "Unconfirmed"}}
    IN  /\ outs' = [o \in DOMAIN outs |->
                      IF o \in fresh THEN [outs[o] EXCEPT !.status = NewStatus(o)]
                                     ELSE outs[o]]
        /\ log' = [log EXCEPT ![a] = [i \in DOMAIN @ |->
                      IF i \in confirmed THEN [@[i] EXCEPT !.confirmed = TRUE] ELSE @[i]]]

Refresh ==
    /\ Free
    /\ RefreshOutputs(active, FALSE)
    /\ UNCHANGED <<session, idx, labels, active, job, todo, jobs, chain, torn>>

HighestPath == MaxOf({labels[l] : l \in DOMAIN labels})

\* new_acct_path
CreateAccount(l) ==
    /\ Free
    /\ l \notin DOMAIN labels
    /\ HighestPath < MaxPath
    /\ labels' = Put(labels, l, HighestPath + 1)
    /\ UNCHANGED <<session, outs, log, idx, active, job, todo, jobs, chain, torn>>

SetActiveAccount(l) ==
    /\ Free
    /\ l \in DOMAIN labels
    /\ active' = labels[l]
    /\ UNCHANGED <<session, db, job, todo, jobs, chain, torn>>

-----------------------------------------------------------------------------
(* What a scan finds, and the batches it leads to.                         *)

\* Mutant: outputs are matched by their keys.
MissingByKey(found) ==
    {o \in found : \A q \in DOMAIN outs : q.path # o.path \/ q.n # o.n}

Missing(found) == found \ DOMAIN outs
Marked(found, status) == {o \in found \cap DOMAIN outs : outs[o].status = status}
Unconfirmed == {o \in DOMAIN outs : outs[o].status = "Unconfirmed"}

CancelAndUnspend(o) == <<[op |-> "cancel", out |-> o], [op |-> "unspend", out |-> o]>>
CancelAndDelete(o) == <<[op |-> "cancel", out |-> o], [op |-> "delete", out |-> o]>>
RestoreMissing(o) == <<[op |-> "restore", out |-> o]>>
Each(S, Batches(_)) ==
    LET q == SetToSeq(S) IN FlattenSeq([i \in DOMAIN q |-> Batches(q[i])])

\* Mutant: the highest child found is taken for the next one.
LastChild(found, p) == MaxOf({o.n : o \in {q \in Missing(found) : q.path = p}})
NextChild(found, p) == MaxOf({o.n : o \in {q \in Missing(found) : q.path = p}}) + 1

\* Mutant: the labels are counted from zero.
NthFromZero(paths, i) == Cardinality({j \in 1 .. i - 1 : paths[j] # 0})
Nth(paths, i) == Cardinality({j \in 1 .. i : paths[j] # 0})

\* The i-th account found: labelled unless it is the default one, its common log
\* entry saved by a restore, and its index set.
FinishAccount(found, paths, i) ==
    LET p == paths[i]
        label == <<[op |-> "label", path |-> p, label |-> RestoredLabel(Nth(paths, i))]>>
        entry == <<[op |-> "entry", path |-> p]>>
    IN  (IF p # 0 THEN label ELSE <<>>)
        \o (IF job.kind = "restore" THEN entry ELSE <<>>)
        \o <<[op |-> "index", path |-> p, next |-> NextChild(found, p)]>>

FinishAccounts(found, paths) ==
    FlattenSeq([i \in DOMAIN paths |-> FinishAccount(found, paths, i)])

Plan(found, paths) ==
    Each(Marked(found, "Spent"), CancelAndUnspend)
    \o Each(Missing(found), RestoreMissing)
    \o (IF job.delete
        THEN Each(Marked(found, "Locked"), CancelAndUnspend)
             \o Each(Unconfirmed, CancelAndDelete)
        ELSE <<>>)
    \o FinishAccounts(found, paths)

\* The accounts found are kept in a hash map: they come in any order.
Scan ==
    /\ job.kind # "none" /\ todo = ScanFirst
    /\ job' = [job EXCEPT !.found = MyOutputs, !.unconfirmed = Unconfirmed]
    /\ \E paths \in SetToSeqs({o.path : o \in Missing(MyOutputs)}) :
          todo' = Plan(MyOutputs, paths)
    /\ UNCHANGED <<session, db, active, jobs, chain, torn>>

Begin(kind, delete) ==
    /\ job' = [kind |-> kind, delete |-> delete, found |-> {}, unconfirmed |-> {},
               stats |-> Unused]
    /\ todo' = ScanFirst
    /\ jobs < MaxJobs /\ jobs' = jobs + 1

\* Owner::check_repair: all outputs of the active account are brought up to date
\* with the node, then the chain is scanned for all accounts.
CheckRepair(delete) ==
    /\ Free
    /\ RefreshOutputs(active, TRUE)
    /\ Begin("check", delete)
    /\ UNCHANGED <<session, idx, labels, active, chain, torn>>

\* Refused for a wallet that has outputs, and the command is over.
RestoreRefused ==
    /\ outs # <<>>
    /\ cli' = Ready
    /\ UNCHANGED <<seedFile, password, connected, written, job, todo, jobs>>

Restore ==
    /\ \/ Free
       \/ cli.at = "restore" /\ job.kind = "none" /\ connected /\ Decrypts(password)
    /\ \/ outs = <<>> /\ Begin("restore", FALSE) /\ UNCHANGED session
       \/ RestoreRefused
    /\ UNCHANGED <<db, active, chain, torn>>

-----------------------------------------------------------------------------
(* The batches, in the order of the plan.                                  *)

HeadIs(op) == job.kind # "none" /\ todo # <<>> /\ Head(todo).op = op
Committed == todo' = Tail(todo) /\ UNCHANGED <<session, active, jobs, chain, torn>>

\* cancel_tx_log_entry looks the entry up in the account of the output's key.
CancelEntry ==
    LET o == Head(todo).out
        i == outs[o].entry
    IN  /\ HeadIs("cancel")
        /\ log' = IF i \notin DOMAIN log[o.path] THEN log
                  ELSE [log EXCEPT ![o.path][i].type =
                          CASE @ = "TxSent" -> "TxSentCancelled"
                            [] @ = "TxReceived" -> "TxReceivedCancelled"
                            [] OTHER -> @]
        /\ Committed
        /\ UNCHANGED <<outs, idx, labels, job>>

UnspendOutput ==
    /\ HeadIs("unspend")
    /\ outs' = [outs EXCEPT ![Head(todo).out].status = "Unspent"]
    /\ Committed
    /\ UNCHANGED <<log, idx, labels, job>>

DeleteOutput ==
    /\ HeadIs("delete")
    /\ outs' = [o \in DOMAIN outs \ {Head(todo).out} |-> outs[o]]
    /\ Committed
    /\ UNCHANGED <<log, idx, labels, job>>

RestoreOutput(o, id) ==
    outs' = Put(outs, o, [root |-> o.path, status |-> "Unspent", entry |-> id,
                          scanned |-> TRUE])

\* A check gives each output a log entry of its own.
RestoreForCheck ==
    LET o == Head(todo).out
    IN  /\ HeadIs("restore") /\ job.kind = "check"
        /\ log' = [log EXCEPT ![o.path] =
                      Append(@, [type |-> "TxReceived", confirmed |-> TRUE])]
        /\ RestoreOutput(o, Len(log[o.path]) + 1)
        /\ Committed
        /\ UNCHANGED <<idx, labels, job>>

\* Mutant: an id is taken for every output.
IsFirstAlways(p) == TRUE
IsFirstOf(p) == job.stats[p] = 0

\* A restore takes one log id for all outputs of an account; the entry itself is
\* saved when all outputs are.
RestoreForRestore ==
    LET o == Head(todo).out
        p == o.path
        id == IF IsFirstOf(p) THEN Len(log[p]) + 1 ELSE job.stats[p]
    IN  /\ HeadIs("restore") /\ job.kind = "restore"
        /\ log' = IF IsFirstOf(p)
                  THEN [log EXCEPT ![p] = Append(@, [type |-> "reserved", confirmed |-> FALSE])]
                  ELSE log
        /\ job' = [job EXCEPT !.stats[p] = id]
        /\ RestoreOutput(o, id)
        /\ Committed
        /\ UNCHANGED <<idx, labels>>

\* set_acct_path: whatever the label named before.
SetAcctPath ==
    /\ HeadIs("label")
    /\ labels' = Put(labels, Head(todo).label, Head(todo).path)
    /\ Committed
    /\ UNCHANGED <<outs, log, idx, job>>

SaveEntry ==
    LET p == Head(todo).path
    IN  /\ HeadIs("entry")
        /\ log' = [log EXCEPT ![p][job.stats[p]] = [type |-> "TxReceived", confirmed |-> TRUE]]
        /\ Committed
        /\ UNCHANGED <<outs, idx, labels, job>>

SaveChildIndex ==
    /\ HeadIs("index")
    /\ idx' = [idx EXCEPT ![Head(todo).path] = Head(todo).next]
    /\ Committed
    /\ UNCHANGED <<outs, log, labels, job>>

Finish ==
    /\ job.kind # "none" /\ todo = <<>>
    /\ job' = Idle
    /\ cli' = Ready
    /\ UNCHANGED <<seedFile, password, connected, written, db, active, todo, jobs, chain, torn>>

-----------------------------------------------------------------------------
(* The session, and what ends a recovery early.                            *)

Recovering == job.kind # "none" \/ cli.at \in {"write", "connect", "clear", "restore"}

\* Mutant: the transaction files are moved away, the database is not.
ClearFilesOnly ==
    /\ cli.at = "clear"
    /\ cli' = [cli EXCEPT !.at = "restore"]
    /\ torn' = FALSE
    /\ UNCHANGED <<seedFile, password, connected, written, db, active, job, todo, jobs, chain>>

\* clear: disconnect, move the directories to backups/, connect to a new one.
\* The active account stays what it was.
Clear ==
    /\ cli.at = "clear"
    /\ outs' = <<>> /\ log' = NoLog /\ idx' = Unused /\ labels' = DefaultLabels
    /\ cli' = [cli EXCEPT !.at = "restore"]
    /\ torn' = FALSE
    /\ UNCHANGED <<seedFile, password, connected, written, active, job, todo, jobs, chain>>

\* A new seed is drawn at random: nobody has used it.
Unseen(s) == \A o \in made : o.seed # s

SessionStep ==
    /\ \/ \E p \in Passwords : Start(p) \/ StartRefused(p) \/ (PhraseRefused(p) /\ job.kind = "none")
       \/ \E s \in Seeds, p \in Passwords :
            \/ (Unseen(s) /\ InitWallet(s, p))
            \/ RecoverAtStart(s, p)
            \/ (SeedRecover(s, p) /\ job.kind = "none")
       \/ WriteSeed
       \/ Connect
    /\ UNCHANGED <<db, active, job, todo, jobs, chain, torn>>

RecoverGivesUp ==
    /\ GiveUp
    /\ job' = Idle /\ todo' = <<>>
    /\ torn' = TRUE
    /\ UNCHANGED <<db, active, jobs, chain>>

\* A batch or the node fails in a call that is not part of `seed recover`.
JobFails ==
    /\ job.kind # "none" /\ cli.at = "ready"
    /\ job' = Idle /\ todo' = <<>>
    /\ torn' = TRUE
    /\ UNCHANGED <<session, db, active, jobs, chain>>

Crash ==
    /\ cli.at # "off"
    /\ SessionLost
    /\ active' = 0
    /\ job' = Idle /\ todo' = <<>>
    /\ torn' = (torn \/ Recovering)
    /\ UNCHANGED <<db, jobs, chain>>

UseStep ==
    \/ \E p \in Paths : Receive(p)
    \/ \E o \in DOMAIN outs : LockCoin(o)
    \/ Refresh
    \/ \E l \in UserLabels : CreateAccount(l)
    \/ \E l \in DOMAIN labels : SetActiveAccount(l)

JobStep ==
    \/ \E delete \in BOOLEAN : CheckRepair(delete)
    \/ Restore
    \/ Scan
    \/ CancelEntry \/ UnspendOutput \/ DeleteOutput
    \/ RestoreForCheck \/ RestoreForRestore
    \/ SetAcctPath \/ SaveEntry \/ SaveChildIndex
    \/ Finish

Next ==
    \/ \E o \in made : OutputMined(o) \/ OutputLeaves(o)
    \/ UseStep \/ JobStep
    \/ SessionStep \/ Clear
    \/ RecoverGivesUp \/ JobFails \/ Crash

Spec == Init /\ [][Next]_vars

-----------------------------------------------------------------------------
\* The records, the plan and the ids a restore has taken keep their shapes.
TypeOK ==
    /\ SessionTypeOK
    /\ DOMAIN outs \subseteq made /\ made \subseteq Output /\ utxo \subseteq made
    /\ \A o \in DOMAIN outs : outs[o] \in OutputData
    /\ \A a \in Paths : log[a] \in Seq(TxLogEntry)
    /\ idx \in [Paths -> 0 .. MaxKeys]
    /\ DOMAIN labels \subseteq Labels /\ \A l \in DOMAIN labels : labels[l] \in Paths
    /\ active \in Paths
    /\ job \in Job /\ job.found \subseteq made
    /\ todo \in Seq(Batch)
    /\ jobs \in 0 .. MaxJobs
    /\ torn \in BOOLEAN

\* A session that is connected at the prompt can open the wallet: neither a new
\* password nor a half-written seed file gets under an open database.
SessionCanOpen == connected /\ cli.at = "ready" => Decrypts(password)

\* Unless a recovery was cut short, the open database holds outputs of the seed
\* in the seed file only.
DbIsOfSeed ==
    CanOpen /\ ~torn => \A o \in DOMAIN outs : o.seed = seedFile.seed

EntrySaved(o) ==
    LET r == outs[o] IN r.entry \in DOMAIN log[r.root] /\ log[r.root][r.entry].type # "reserved"

\* Outputs and log agree again when a recovery is over: each output names an
\* entry that is saved in its account.
EntriesResolve ==
    job.kind # "restore" /\ ~torn => \A o \in DOMAIN outs : EntrySaved(o)

\* At its end a restore has, for each output of the seed the scan found and no
\* other: the output, unspent and with a confirmed entry, a next child above it,
\* and a label for its account.
RestoreIsComplete ==
    job.kind = "restore" /\ todo = <<>> =>
        /\ DOMAIN outs = job.found
        /\ \A o \in job.found :
            /\ outs[o].status = "Unspent" /\ EntrySaved(o)
            /\ log[o.path][outs[o].entry].confirmed
            /\ o.n < idx[o.path]
            /\ \E l \in DOMAIN labels : labels[l] = o.path

\* At its end a check has found everything on the chain a place among the
\* wallet's outputs that are not spent, but for what delete_unconfirmed drops:
\* the outputs that were unconfirmed at the scan, whether the scan found them or
\* not.  With it nothing is left unconfirmed, and nothing on the chain locked.
CheckIsComplete ==
    job.kind = "check" /\ todo = <<>> =>
        /\ \A o \in job.found :
            o \in DOMAIN outs \/ (job.delete /\ o \in job.unconfirmed)
        /\ \A o \in job.found \cap DOMAIN outs :
            /\ outs[o].status # "Spent"
            /\ job.delete => outs[o].status = "Unspent"
        /\ job.delete => Unconfirmed = {}

\* "Get next available key in the wallet" (keys.rs): the next key of an account
\* is above the keys of all outputs the wallet holds.
NextKeyIsAvailable ==
    Free /\ ~torn => \A o \in DOMAIN outs : o.n < idx[o.path]
=============================================================================
