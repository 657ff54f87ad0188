--------------------------- MODULE SlateExchange ---------------------------
(***************************************************************************)
(* A slate on its way between two wallets: Alice, who runs                 *)
(* Owner::init_send_tx and a listener, and Bob, who receives over his      *)
(* foreign API, his listener or a file.  The steps of one send take the    *)
(* container mutex one by one, so the answer, a cancel, another send or a  *)
(* crash can come between any two of them.                                 *)
(*                                                                         *)
(* Abstractions.  A send spends one coin; amounts, fees and change are     *)
(* CoinSelection's, the rest of the database is WalletLedger's.  Keys,     *)
(* nonces and offsets are the signer's name; a partial signature is the    *)
(* set of signers whose nonces and excesses were added up when it was      *)
(* made, and verifies if these are the signers of the slate.  Messages     *)
(* are not forged.  VersionedSlate converts between equal formats (V2 is   *)
(* the only one).                                                          *)
(***************************************************************************)
EXTENDS Naturals, Sequences, FiniteSets

CONSTANTS
    Slates,     \* ids of the slates Alice starts
    Coins,      \* confirmed coins of Alice
    NoCoin, NoSlate,
    Orders,     \* the InitTxArgs each slate may be started with
    MaxReplies  \* bound: times Bob records one slate

Methods == {"http", "async", "file"}
Order == [method : Methods, finalize : BOOLEAN, post : BOOLEAN, estimate : BOOLEAN]

ASSUME ExchangeAssumption ==
    /\ NoCoin \notin Coins
    /\ NoSlate \notin Slates
    /\ Orders \in [Slates -> (SUBSET Order) \ {{}}]
    /\ MaxReplies \in Nat

VARIABLES
    calls,      \* Alice's init_send_tx calls, by the id of their slate
    contexts,   \* the slates with a saved private context
    sent,       \* Alice's TxSent entry of a slate
    lockedBy,   \* the slate whose entry holds a coin that is not Unspent
    stored,     \* Alice's saved_txs/<slate>.grintx
    received,   \* Bob's TxReceived entries of a slate, in order
    net,        \* slates under way
    pool, mined \* the node

alice == <<calls, contexts, sent, lockedBy, stored>>
node == <<pool, mined>>
vars == <<alice, received, net, node>>

-----------------------------------------------------------------------------
(* slate.rs                                                                *)

Alice == <<"alice", 0>>
Bob(k) == <<"bob", k>>
Signers == {Alice} \cup {Bob(k) : k \in 1 .. MaxReplies}

Participant == [who : Signers, sig : SUBSET Signers]
Slate == [id : Slates, coin : Coins \cup {NoCoin}, replies : SUBSET (1 .. MaxReplies),
          parts : Seq(Participant)]
NumParticipants == 2

Blank(s) == [id |-> s, coin |-> NoCoin, replies |-> {}, parts |-> <<>>]

FillRound1(sl, who) ==
    [sl EXCEPT !.parts = Append(@, [who |-> who, sig |-> {}])]

SignersOf(sl) == {sl.parts[i].who : i \in DOMAIN sl.parts}

\* verify_part_sigs: those that are there were made for the signers there are.
VerifyPartSigs(sl) ==
    \A i \in DOMAIN sl.parts : sl.parts[i].sig \in {{}, SignersOf(sl)}

\* participant_data[participant_id] is a panic when there is no such entry.
CanFillRound2(sl, id) == VerifyPartSigs(sl) /\ id + 1 \in DOMAIN sl.parts
FillRound2(sl, id) == [sl EXCEPT !.parts[id + 1].sig = SignersOf(sl)]

\* The kernel's excess is that of the inputs and outputs: every signer stands
\* for what it put in.
Balanced(sl) ==
    SignersOf(sl) = {Bob(k) : k \in sl.replies} \cup (IF sl.coin = NoCoin THEN {} ELSE {Alice})

\* finalize_signature and finalize_transaction; the amount needs a receiver.
CanFinalize(sl) ==
    /\ \A i \in DOMAIN sl.parts : sl.parts[i].sig # {}
    /\ VerifyPartSigs(sl)
    /\ Balanced(sl)
    /\ sl.coin # NoCoin /\ sl.replies # {}

-----------------------------------------------------------------------------
Tx == [id : Slates, coin : Coins \cup {NoCoin}, replies : SUBSET (1 .. MaxReplies),
       final : BOOLEAN]
NotStored == [id |-> NoSlate, coin |-> NoCoin, replies |-> {}, final |-> FALSE]
TxOf(sl, final) == [id |-> sl.id, coin |-> sl.coin, replies |-> sl.replies, final |-> final]
Final(s) == stored[s].final

Steps == {"idle", "ready", "waiting", "sent", "locked", "finalized", "done", "failed", "dead"}
Idle(s) == [pc |-> "idle", order |-> CHOOSE o \in Orders[s] : TRUE, slate |-> Blank(s)]
To(s, pc) == calls' = [calls EXCEPT ![s].pc = pc]
Holding(s, pc, sl) == calls' = [calls EXCEPT ![s].pc = pc, ![s].slate = sl]
At(s, pc) == calls[s].pc = pc
Asked(s) == calls[s].order

Message(to, via, sl) == [to |-> to, via |-> via, slate |-> sl]

Init ==
    /\ calls = [s \in Slates |-> Idle(s)]
    /\ contexts = {}
    /\ sent = [s \in Slates |-> "none"]
    /\ lockedBy = [c \in Coins |-> NoSlate]
    /\ stored = [s \in Slates |-> NotStored]
    /\ received = [s \in Slates |-> <<>>]
    /\ net = {}
    /\ pool = {} /\ mined = {}

-----------------------------------------------------------------------------
(* Owner::init_send_tx.                                                    *)

\* Round 1: an Unspent coin goes into the slate and the context is saved.
InitSendTx(s, o, c) ==
    /\ At(s, "idle") /\ ~o.estimate
    /\ lockedBy[c] = NoSlate
    /\ calls' = [calls EXCEPT ![s] =
                    [pc |-> "ready", order |-> o,
                     slate |-> FillRound1([Blank(s) EXCEPT !.coin = c], Alice)]]
    /\ contexts' = contexts \cup {s}
    /\ UNCHANGED <<sent, lockedBy, stored, received, net, node>>

\* estimate_only: the slate carries totals, no input and no participant, and is
\* sent all the same if there are send_args.
InitEstimate(s, o) ==
    /\ At(s, "idle") /\ o.estimate
    /\ calls' = [calls EXCEPT ![s] = [pc |-> "ready", order |-> o, slate |-> Blank(s)]]
    /\ UNCHANGED <<contexts, sent, lockedBy, stored, received, net, node>>

\* HTTPAdapter::send_tx_sync posts the slate and waits; GrinboxAdapter and
\* KeybaseAdapter publish it through the listener; the command line writes a file.
Send(s) ==
    LET via == Asked(s).method
    IN  /\ At(s, "ready")
        /\ net' = net \cup {Message("bob", via, calls[s].slate)}
        /\ To(s, IF via = "http" THEN "waiting" ELSE "sent")
        /\ UNCHANGED <<contexts, sent, lockedBy, stored, received, node>>

\* No listener, no such host, a version that does not fit, a file that cannot
\* be created; or no answer.
SendFails(s) ==
    /\ At(s, "ready") \/ At(s, "waiting")
    /\ To(s, "failed")
    /\ UNCHANGED <<contexts, sent, lockedBy, stored, received, net, node>>

HttpAnswer(s, m) ==
    /\ At(s, "waiting")
    /\ m.to = "alice" /\ m.via = "http" /\ m.slate.id = s
    /\ Holding(s, "sent", m.slate)
    /\ net' = net \ {m}
    /\ UNCHANGED <<contexts, sent, lockedBy, stored, received, node>>

\* Mutant: the context is not asked for.
MayLockAny(s) == TRUE
\* get_private_context
MayLock(s) == s \in contexts

\* What init_send_tx does after the lock: only a synchronous method goes on.
AfterLock(s) == IF Asked(s).method = "http" THEN "locked" ELSE "done"

\* tx_lock_outputs, whatever the coin's status is by now.
TxLockOutputs(s) ==
    LET sl == calls[s].slate
    IN  /\ At(s, "sent") /\ MayLock(s)
        /\ lockedBy' = [c \in Coins |-> IF c = sl.coin THEN s ELSE lockedBy[c]]
        /\ sent' = [sent EXCEPT ![s] = "open"]
        /\ stored' = [stored EXCEPT ![s] = TxOf(sl, FALSE)]
        /\ To(s, AfterLock(s))
        /\ UNCHANGED <<contexts, received, net, node>>

LockFails(s) ==
    /\ At(s, "sent") /\ ~MayLock(s)
    /\ To(s, "failed")
    /\ UNCHANGED <<contexts, sent, lockedBy, stored, received, net, node>>

\* Mutants: the look-up of the log entry is forgotten, or takes a cancelled one.
SentEntryUnchecked(s) == TRUE
SentEntryOfAnyType(s) == sent[s] # "none"

\* update_stored_excess and update_stored_tx look up a TxSent entry.
SentEntryExists(s) == sent[s] = "open"

\* tx::finalize_tx up to the stored transaction.
Finalizes(sl) ==
    LET signed == FillRound2(sl, 0)
    IN  /\ sl.id \in contexts
        /\ CanFillRound2(sl, 0) /\ CanFinalize(signed)
        /\ SentEntryExists(sl.id)
        /\ stored' = [stored EXCEPT ![sl.id] = TxOf(signed, TRUE)]
        /\ UNCHANGED <<sent, lockedBy, received, node>>

FinalizeTx(sl) == Finalizes(sl) /\ contexts' = contexts \ {sl.id}

Refused(sl) ==
    \/ sl.id \notin contexts
    \/ ~CanFillRound2(sl, 0)
    \/ ~CanFinalize(FillRound2(sl, 0))
    \/ ~SentEntryExists(sl.id)

\* The synchronous send finalizes the answer it holds, if it is asked to.
FinalizeAnswer(s) ==
    /\ At(s, "locked") /\ Asked(s).finalize
    /\ FinalizeTx(calls[s].slate)
    /\ To(s, "finalized")
    /\ UNCHANGED net

FinalizeRefused(s) ==
    /\ At(s, "locked") /\ Asked(s).finalize
    /\ Refused(calls[s].slate)
    /\ To(s, "failed")
    /\ UNCHANGED <<contexts, sent, lockedBy, stored, received, net, node>>

SkipFinalize(s) ==
    /\ At(s, "locked") /\ ~Asked(s).finalize
    /\ To(s, "finalized")
    /\ UNCHANGED <<contexts, sent, lockedBy, stored, received, net, node>>

\* A transaction that validates, of a coin that is not spent.
Accepts(t) == t.final /\ \A u \in mined : u.coin # t.coin

\* Mutant: a finalized transaction is not posted.
PostsNothing(s) == FALSE
\* post_tx is called when it is asked for, finalized or not.
Posts(s) == Asked(s).post

\* The command line posts what it finalized from a file in any case.
WantsPost(s) == Posts(s) \/ Asked(s).method = "file"

PostTx(s) ==
    /\ At(s, "finalized") /\ WantsPost(s)
    /\ Accepts(stored[s])
    /\ pool' = pool \cup {stored[s]}
    /\ To(s, "done")
    /\ UNCHANGED <<contexts, sent, lockedBy, stored, received, net, mined>>

\* The node is down, or refuses a transaction that is half built or spends a
\* spent coin.
PostFails(s) ==
    /\ At(s, "finalized") /\ WantsPost(s)
    /\ To(s, "failed")
    /\ UNCHANGED <<contexts, sent, lockedBy, stored, received, net, node>>

Return(s) ==
    /\ At(s, "finalized") /\ ~WantsPost(s)
    /\ To(s, "done")
    /\ UNCHANGED <<contexts, sent, lockedBy, stored, received, net, node>>

-----------------------------------------------------------------------------
(* Alice's listener, her other commands, and her crashes.                  *)

IsRequest(sl) == NumParticipants > Len(sl.parts)

\* process_incoming_slate: a slate with all participants is finalized; its
\* result is not handed to anybody.
Incoming(m) == m \in net /\ m.to = "alice" /\ m.via = "async"

ListenerFinalizes(m) ==
    /\ Incoming(m) /\ ~IsRequest(m.slate)
    /\ FinalizeTx(m.slate)
    /\ UNCHANGED <<calls, net>>

\* A slate without inputs is sent back as it is.
ListenerEchoes(m) ==
    /\ Incoming(m) /\ IsRequest(m.slate) /\ m.slate.coin = NoCoin
    /\ net' = net \cup {Message("bob", "async", m.slate)}
    /\ UNCHANGED <<alice, received, node>>

\* "finalize -i file" on any slate file: the answer or, by mistake, the request.
FinalizeFile(m) ==
    LET s == m.slate.id
    IN  /\ m \in net /\ m.via = "file" /\ At(s, "done")
        /\ FinalizeTx(m.slate)
        /\ To(s, "finalized")
        /\ UNCHANGED net

\* The file is written and the process dies before the context is deleted.
FinalizeCrash(sl) ==
    /\ Finalizes(sl)
    /\ calls' = [s \in Slates |->
                   IF calls[s].pc \in {"idle", "done", "failed"} THEN calls[s]
                   ELSE [calls[s] EXCEPT !.pc = "dead"]]
    /\ UNCHANGED <<contexts, net>>

Crash ==
    /\ \E s \in Slates : calls[s].pc \notin {"idle", "done", "failed", "dead"}
    /\ calls' = [s \in Slates |->
                   IF calls[s].pc \in {"idle", "done", "failed"} THEN calls[s]
                   ELSE [calls[s] EXCEPT !.pc = "dead"]]
    /\ UNCHANGED <<contexts, sent, lockedBy, stored, received, net, node>>

\* cancel_tx of a send that no refresh has confirmed.
CancelSend(s) ==
    /\ sent[s] = "open"
    /\ \A t \in mined : t.id # s
    /\ sent' = [sent EXCEPT ![s] = "cancelled"]
    /\ lockedBy' = [c \in Coins |-> IF lockedBy[c] = s THEN NoSlate ELSE lockedBy[c]]
    /\ UNCHANGED <<calls, contexts, stored, received, net, node>>

RepostTx(s) ==
    /\ sent[s] # "none" /\ Final(s)
    /\ Accepts(stored[s])
    /\ pool' = pool \cup {stored[s]}
    /\ UNCHANGED <<alice, received, net, mined>>

-----------------------------------------------------------------------------
(* Bob.                                                                    *)

\* Mutant: the key of the last output is used again.
WithLastOutput(sl) ==
    LET k == Len(received[sl.id])
    IN  FillRound1([sl EXCEPT !.replies = @ \cup {k}], Bob(k))

WithOutput(sl) ==
    LET k == Len(received[sl.id]) + 1
    IN  FillRound1([sl EXCEPT !.replies = @ \cup {k}], Bob(k))

\* Mutant: a slate is received again and again.
NeverReceived(s) == FALSE
AlreadyReceived(s) == \E k \in DOMAIN received[s] : received[s][k] = "open"

\* build_recipient_output commits a fresh output and the log entry first.
RecordOutput(s) ==
    /\ ~AlreadyReceived(s)
    /\ Len(received[s]) < MaxReplies
    /\ received' = [received EXCEPT ![s] = Append(@, "open")]

\* An HTTP request is answered on its connection and gone; what went through
\* grinbox, keybase or a file can be handled again.
Taken(m) == IF m.via = "http" THEN {m} ELSE {}

\* The listener asks for a request with inputs; the foreign API and the command
\* line hand over whatever they get.
BobHandles(m) ==
    /\ m.to = "bob" \/ m.via = "file"
    /\ m.via = "async" => IsRequest(m.slate) /\ m.slate.coin # NoCoin

ReceiveTx(m) ==
    LET sl == WithOutput(m.slate)
    IN  /\ BobHandles(m)
        /\ RecordOutput(sl.id)
        /\ CanFillRound2(sl, 1)
        /\ net' = (net \ Taken(m)) \cup {Message("alice", m.via, FillRound2(sl, 1))}
        /\ UNCHANGED <<alice, node>>

\* The second round fails, Bob's process dies, or the answer cannot be sent.
ReceiveTxFails(m) ==
    /\ BobHandles(m)
    /\ RecordOutput(m.slate.id)
    /\ net' = net \ Taken(m)
    /\ UNCHANGED <<alice, node>>

BobEchoes(m) ==
    /\ m \in net /\ m.to = "bob" /\ m.via = "async"
    /\ IsRequest(m.slate) /\ m.slate.coin = NoCoin
    /\ net' = net \cup {Message("alice", "async", m.slate)}
    /\ UNCHANGED <<alice, received, node>>

CancelReceive(s, k) ==
    /\ received[s][k] = "open"
    /\ \A t \in mined : t.id = s => k \notin t.replies
    /\ received' = [received EXCEPT ![s][k] = "cancelled"]
    /\ UNCHANGED <<alice, net, node>>

Mine(t) ==
    /\ Accepts(t)
    /\ mined' = mined \cup {t}
    /\ UNCHANGED <<alice, received, net, pool>>

-----------------------------------------------------------------------------
Command(s) ==
    \/ Send(s) \/ SendFails(s)
    \/ \E m \in net : HttpAnswer(s, m)
    \/ TxLockOutputs(s) \/ LockFails(s)
    \/ FinalizeAnswer(s) \/ FinalizeRefused(s) \/ SkipFinalize(s)
    \/ PostTx(s) \/ PostFails(s) \/ Return(s)

Start(s) == \E o \in Orders[s] : InitEstimate(s, o) \/ \E c \in Coins : InitSendTx(s, o, c)

Listener == \E m \in net : ListenerFinalizes(m) \/ ListenerEchoes(m)

Receiver == \E m \in net : ReceiveTx(m) \/ ReceiveTxFails(m) \/ BobEchoes(m)

User ==
    \/ \E m \in net : FinalizeFile(m)
    \/ \E s \in Slates : CancelSend(s) \/ RepostTx(s)
    \/ \E s \in Slates : \E k \in DOMAIN received[s] : CancelReceive(s, k)

Failure ==
    \/ Crash
    \/ \E s \in Slates : At(s, "locked") /\ FinalizeCrash(calls[s].slate)
    \/ \E m \in net : Incoming(m) /\ ~IsRequest(m.slate) /\ FinalizeCrash(m.slate)

Next ==
    \/ \E s \in Slates : Start(s) \/ Command(s)
    \/ Listener \/ Receiver \/ User \/ Failure
    \/ \E t \in pool : Mine(t)

Spec == Init /\ [][Next]_vars

\* Threads run: a command goes on, a listener handles what has arrived, the
\* other wallet answers.  Nobody has to start, cancel, repost or mine.
FairSpec ==
    /\ Spec
    /\ \A s \in Slates : WF_vars(Command(s))
    /\ WF_vars(Listener)
    /\ WF_vars(Receiver)
-----------------------------------------------------------------------------
(* Properties.                                                             *)

TypeOK ==
    /\ calls \in [Slates -> [pc : Steps, order : Order, slate : Slate]]
    /\ contexts \subseteq Slates
    /\ sent \in [Slates -> {"none", "open", "cancelled"}]
    /\ lockedBy \in [Coins -> Slates \cup {NoSlate}]
    /\ stored \in [Slates -> Tx \cup {NotStored}]
    /\ received \in [Slates -> Seq({"open", "cancelled"})]
    /\ net \subseteq [to : {"alice", "bob"}, via : Methods, slate : Slate]
    /\ pool \cup mined \subseteq Tx

\* The code's two wallets together keep the promise of Payment: Bob has written
\* a payment down before Alice signs it, a signature is for one coin and for
\* good, a send that was cancelled unsigned is never signed whatever answers are
\* still under way, and no coin pays twice.
Promise == INSTANCE Payment WITH
    Payments <- Slates,
    recorded <- {s \in Slates : received[s] # <<>>},
    withdrawn <- {s \in Slates : sent[s] = "cancelled" /\ ~Final(s)},
    coin <- [s \in Slates |-> IF Final(s) THEN stored[s].coin ELSE NoCoin],
    paid <- {t.id : t \in mined}
PaymentKept == Promise!Spec

\* A final transaction is known to both wallets: Alice's log has its send, even
\* if the answer overtook tx_lock_outputs, and it pays exactly one output, which
\* Bob has recorded.  A slate never gets a third signer.
FinalIsRecorded ==
    \A s \in Slates :
        Final(s) => /\ sent[s] # "none"
                    /\ \E k \in DOMAIN received[s] : stored[s].replies = {k}

\* "just return an estimate ... without actually locking outputs or creating the
\* transaction": though an estimate with send_args travels to the other wallet
\* and may be recorded there, it never becomes a send, a lock or a payment.
EstimateIsNoSend ==
    \A s \in Slates :
        calls[s].order.estimate /\ ~At(s, "idle") =>
            /\ s \notin contexts
            /\ sent[s] = "none" /\ ~Final(s)
            /\ \A c \in Coins : lockedBy[c] # s

\* "Don't do this multiple times": a request that is delivered again, resent or
\* fed in as a file leaves Bob with at most one pending output for it.
OneOpenReceipt ==
    \A s \in Slates : \A j, k \in DOMAIN received[s] :
        received[s][j] = "open" /\ received[s][k] = "open" => j = k

PostAsked(s, method) ==
    Asked(s).method = method /\ Asked(s).finalize /\ Asked(s).post /\ Final(s)
Settled(s) ==
    \/ stored[s] \in pool
    \/ calls[s].pc \in {"failed", "dead"}
    \/ sent[s] = "cancelled"

\* "Whether to post the transaction if the send and finalize were successful":
\* a synchronous send that was finalized is posted, or its caller is told.
SyncIsPosted == \A s \in Slates : PostAsked(s, "http") ~> Settled(s)

\* The same for a method whose answer comes through the listener.
AsyncIsPosted == \A s \in Slates : PostAsked(s, "async") ~> Settled(s)
=============================================================================
