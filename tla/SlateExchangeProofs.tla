------------------------ MODULE SlateExchangeProofs ------------------------
(***************************************************************************)
(* What holds of SlateExchange for every value of its constants, and that  *)
(* it implements Payment.                                                  *)
(***************************************************************************)
EXTENDS SlateExchange, SequenceTheorems, TLAPS

-----------------------------------------------------------------------------
(* The inductive invariant.                                                *)

\* A slate takes three forms on its way: an estimate carries nothing, an offer a
\* coin and its owner, an answer one output of Bob and his signature.  Answers to
\* answers and answers to estimates do not exist: Bob's second round refuses them.
IsEstimate(sl) == sl.coin = NoCoin /\ sl.replies = {} /\ Len(sl.parts) = 0

IsOffer(sl) ==
    /\ sl.coin \in Coins /\ sl.replies = {}
    /\ Len(sl.parts) = 1 /\ sl.parts[1].who = Alice

IsAnswer(sl, k) ==
    /\ sl.coin \in Coins /\ sl.replies = {k}
    /\ Len(sl.parts) = 2 /\ sl.parts[1].who = Alice
    /\ sl.parts[2] = [who |-> Bob(k), sig |-> {Alice, Bob(k)}]

\* rec is received: an answer is about an output that Bob has recorded.
Known(sl, rec) ==
    /\ sl \in Slate
    /\ \/ IsEstimate(sl)
       \/ IsOffer(sl)
       \/ \E k \in DOMAIN rec[sl.id] : IsAnswer(sl, k)

Early == {"idle", "ready", "waiting", "sent"}

\* A call holds a slate of its own id, and is not in the log before the lock.
CallsInv ==
    \A s \in Slates :
        /\ calls[s].slate.id = s /\ Known(calls[s].slate, received)
        /\ calls[s].pc \in Early => sent[s] = "none"

\* Only a send that is no estimate gets a context or a log entry, and only one
\* in the log a lock.
SentInv ==
    /\ \A s \in Slates :
        s \in contexts \/ sent[s] # "none" => ~At(s, "idle") /\ ~Asked(s).estimate
    /\ \A c \in Coins : lockedBy[c] # NoSlate => sent[lockedBy[c]] # "none"

\* A final transaction is in both logs and spends the coin of its slate.
FinalInv ==
    \A s \in Slates : Final(s) =>
        /\ stored[s].id = s
        /\ stored[s].coin \in Coins /\ stored[s].coin = calls[s].slate.coin
        /\ sent[s] # "none"
        /\ \E k \in DOMAIN received[s] : stored[s].replies = {k}

\* All slates of an id under way carry one coin, that of the call they are from.
NetInv ==
    \A m \in net :
        /\ Known(m.slate, received)
        /\ ~At(m.slate.id, "idle")
        /\ m.slate.coin = calls[m.slate.id].slate.coin

\* The node has transactions that were finalized only.
NodeInv ==
    \A t \in pool \cup mined :
        /\ Final(t.id) /\ t.coin = stored[t.id].coin

ReceivedInv ==
    /\ OneOpenReceipt
    /\ \A s \in Slates : Len(received[s]) <= MaxReplies

IInv ==
    /\ TypeOK
    /\ CallsInv /\ SentInv /\ FinalInv /\ NetInv /\ NodeInv /\ ReceivedInv

-----------------------------------------------------------------------------
(* Lemmas about slates.                                                    *)

LEMMA NamesDiffer ==
    /\ \A k : Alice # Bob(k)
    /\ \A j, k : Bob(j) = Bob(k) => j = k
    BY DEF Alice, Bob

\* The typing of a slate, field by field.
LEMMA SlateFields ==
    ASSUME NEW sl \in Slate
    PROVE  /\ sl.id \in Slates /\ sl.coin \in Coins \cup {NoCoin}
           /\ sl.replies \in SUBSET (1 .. MaxReplies)
           /\ sl.parts \in Seq(Participant)
           /\ Len(sl.parts) \in Nat /\ DOMAIN sl.parts = 1 .. Len(sl.parts)
    BY LenProperties DEF Slate

\* The log of Bob only grows, so what an answer is about stays recorded.
LEMMA KnownStays ==
    ASSUME NEW sl, NEW rec, NEW new, Known(sl, rec),
           \A s \in Slates : DOMAIN rec[s] \subseteq DOMAIN new[s]
    PROVE  Known(sl, new)
    BY SlateFields DEF Known

LEMMA BlankIsKnown ==
    ASSUME NEW s \in Slates, NEW rec
    PROVE  Known(Blank(s), rec) /\ Blank(s).id = s /\ Blank(s).coin = NoCoin
    <1>1. << >> \in Seq(Participant) /\ Len(<< >>) = 0
        OBVIOUS
    <1>2. QED
        BY <1>1 DEF Blank, Known, Slate, IsEstimate

\* Round 1 appends the signer, unsigned.
LEMMA Round1Appends ==
    ASSUME NEW sl \in Slate, NEW who \in Signers
    PROVE  LET new == FillRound1(sl, who)
           IN  /\ new \in Slate
               /\ new.id = sl.id /\ new.coin = sl.coin /\ new.replies = sl.replies
               /\ Len(new.parts) = Len(sl.parts) + 1
               /\ \A i \in 1 .. Len(sl.parts) : new.parts[i] = sl.parts[i]
               /\ new.parts[Len(sl.parts) + 1] = [who |-> who, sig |-> {}]
    <1> DEFINE p == [who |-> who, sig |-> {}]
               ps == Append(sl.parts, p)
    <1>1. p \in Participant /\ sl.parts \in Seq(Participant)
        BY DEF Participant, Slate
    <1> HIDE DEF p
    <1>2. /\ ps \in Seq(Participant)
          /\ Len(ps) = Len(sl.parts) + 1
          /\ \A i \in 1 .. Len(sl.parts) : ps[i] = sl.parts[i]
          /\ ps[Len(sl.parts) + 1] = p
        BY <1>1, AppendProperties
    <1> HIDE DEF ps
    <1> DEFINE new == [sl EXCEPT !.parts = ps]
    <1>3. /\ new \in Slate
          /\ new.id = sl.id /\ new.coin = sl.coin /\ new.replies = sl.replies
          /\ new.parts = ps
        BY <1>2 DEF Slate
    <1>4. FillRound1(sl, who) = new
        BY DEF FillRound1, ps, p
    <1> HIDE DEF new
    <1>5. QED
        BY <1>2, <1>3, <1>4 DEF p

\* An offer is a fresh slate with a coin, after its sender's round 1.
LEMMA OfferIsKnown ==
    ASSUME NEW s \in Slates, NEW c \in Coins, NEW rec
    PROVE  LET sl == FillRound1([Blank(s) EXCEPT !.coin = c], Alice)
           IN  Known(sl, rec) /\ sl.id = s /\ sl.coin = c
    <1> DEFINE b == [Blank(s) EXCEPT !.coin = c]
               sl == FillRound1(b, Alice)
    <1>0. /\ Blank(s) \in Slate /\ Blank(s).id = s /\ Blank(s).replies = {}
          /\ Blank(s).parts = << >>
        BY BlankIsKnown DEF Blank, Known
    <1>1. /\ b \in Slate /\ b.id = s /\ b.coin = c /\ b.replies = {}
          /\ b.parts = << >>
        BY <1>0 DEF Slate
    <1> HIDE DEF b
    <1>2. Alice \in Signers
        BY DEF Signers
    <1>3. /\ sl \in Slate
          /\ sl.id = s /\ sl.coin = c /\ sl.replies = {}
          /\ Len(sl.parts) = Len(b.parts) + 1
          /\ sl.parts[Len(b.parts) + 1] = [who |-> Alice, sig |-> {}]
        BY <1>1, <1>2, Round1Appends
    <1>4. Len(b.parts) = 0
        BY <1>1
    <1> HIDE DEF sl
    <1>5. IsOffer(sl)
        BY <1>3, <1>4 DEF IsOffer
    <1>6. QED
        BY <1>3, <1>5 DEF Known, sl, b

\* Round 2 signs and changes nothing else that the transaction is made of.
LEMMA Round2Keeps ==
    ASSUME NEW sl \in Slate, NEW i
    PROVE  /\ FillRound2(sl, i).id = sl.id
           /\ FillRound2(sl, i).coin = sl.coin
           /\ FillRound2(sl, i).replies = sl.replies
    BY DEF FillRound2, Slate

\* What can be finalized is an answer.
LEMMA FinalizedIsAnswer ==
    ASSUME ExchangeAssumption, NEW sl, NEW rec, Known(sl, rec),
           CanFinalize(FillRound2(sl, 0))
    PROVE  \E k \in DOMAIN rec[sl.id] : IsAnswer(sl, k)
    <1>1. sl \in Slate
        BY DEF Known
    <1>2. sl.coin # NoCoin /\ sl.replies # {}
        BY <1>1, Round2Keeps DEF CanFinalize
    <1>3. QED
        BY <1>2 DEF Known, IsEstimate, IsOffer

\* The key of Bob's output is new: k is above all he has recorded for the slate.
LEMMA WithOutputIsSlate ==
    ASSUME NEW sl \in Slate, Len(received[sl.id]) \in Nat,
           Len(received[sl.id]) < MaxReplies, MaxReplies \in Nat
    PROVE  LET k == Len(received[sl.id]) + 1
               new == WithOutput(sl)
           IN  /\ new \in Slate
               /\ new.id = sl.id /\ new.coin = sl.coin
               /\ new.replies = sl.replies \cup {k}
               /\ Len(new.parts) = Len(sl.parts) + 1
               /\ \A i \in 1 .. Len(sl.parts) : new.parts[i] = sl.parts[i]
               /\ new.parts[Len(sl.parts) + 1] = [who |-> Bob(k), sig |-> {}]
    <1> DEFINE k == Len(received[sl.id]) + 1
               b == [sl EXCEPT !.replies = sl.replies \cup {k}]
    <1>1. k \in 1 .. MaxReplies
        OBVIOUS
    <1>2. WithOutput(sl) = FillRound1(b, Bob(k))
        BY DEF WithOutput
    <1> HIDE DEF k
    <1>3. /\ b \in Slate
          /\ b.id = sl.id /\ b.coin = sl.coin /\ b.parts = sl.parts
          /\ b.replies = sl.replies \cup {k}
        BY <1>1 DEF Slate
    <1>4. Bob(k) \in Signers
        BY <1>1 DEF Signers
    <1> HIDE DEF b
    <1> DEFINE new == FillRound1(b, Bob(k))
    <1>5. /\ new \in Slate
          /\ new.id = sl.id /\ new.coin = sl.coin
          /\ new.replies = sl.replies \cup {k}
          /\ Len(new.parts) = Len(sl.parts) + 1
          /\ \A i \in 1 .. Len(sl.parts) : new.parts[i] = sl.parts[i]
          /\ new.parts[Len(sl.parts) + 1] = [who |-> Bob(k), sig |-> {}]
        <2>1. /\ new \in Slate
              /\ new.id = b.id /\ new.coin = b.coin /\ new.replies = b.replies
              /\ Len(new.parts) = Len(b.parts) + 1
              /\ \A i \in 1 .. Len(b.parts) : new.parts[i] = b.parts[i]
              /\ new.parts[Len(b.parts) + 1] = [who |-> Bob(k), sig |-> {}]
            BY <1>3, <1>4, Round1Appends
        <2> HIDE DEF new
        <2>2. QED
            BY <1>3, <2>1
    <1> HIDE DEF new
    <1>6. WithOutput(sl) = new
        BY <1>2 DEF new
    <1>7. QED
        BY <1>5, <1>6 DEF k

\* Round 2 signs for the signers there are.
LEMMA Round2Signs ==
    ASSUME NEW sl \in Slate, NEW i \in Nat, i + 1 \in 1 .. Len(sl.parts)
    PROVE  LET new == FillRound2(sl, i)
           IN  /\ new \in Slate
               /\ Len(new.parts) = Len(sl.parts)
               /\ \A j \in 1 .. Len(sl.parts) :
                    new.parts[j] = IF j = i + 1
                                   THEN [who |-> sl.parts[j].who, sig |-> SignersOf(sl)]
                                   ELSE sl.parts[j]
    <1> DEFINE p == [sl.parts[i + 1] EXCEPT !.sig = SignersOf(sl)]
               ps == [sl.parts EXCEPT ![i + 1] = p]
               new == [sl EXCEPT !.parts = ps]
    <1>1. sl.parts \in Seq(Participant) /\ DOMAIN sl.parts = 1 .. Len(sl.parts)
        BY SlateFields
    <1>2. \A j \in 1 .. Len(sl.parts) : sl.parts[j] \in Participant
        BY <1>1, ElementOfSeq
    <1>3. SignersOf(sl) \subseteq Signers
        BY <1>1, <1>2 DEF SignersOf, Participant
    <1>4. p \in Participant
        BY <1>2, <1>3 DEF Participant
    <1>5. FillRound2(sl, i) = new
        BY DEF FillRound2
    <1>6. p = [who |-> sl.parts[i + 1].who, sig |-> SignersOf(sl)]
        BY <1>2 DEF Participant
    <1> HIDE DEF p
    <1>7. /\ ps \in Seq(Participant) /\ Len(ps) = Len(sl.parts)
          /\ \A j \in 1 .. Len(sl.parts) : ps[j] = IF j = i + 1 THEN p ELSE sl.parts[j]
        BY <1>1, <1>4, ExceptSeq
    <1> HIDE DEF ps
    <1>8. new \in Slate /\ new.parts = ps
        BY <1>7 DEF Slate
    <1> HIDE DEF new
    <1>9. QED
        BY <1>5, <1>6, <1>7, <1>8

\* Bob's two rounds make an answer of an offer, and succeed on nothing else: on
\* an estimate he is the only participant, and to an answer his second signature
\* would be one for other signers than the first.
LEMMA ReceivedIsAnswer ==
    ASSUME NEW sl, Known(sl, received), Len(received[sl.id]) \in Nat,
           DOMAIN received[sl.id] = 1 .. Len(received[sl.id]),
           Len(received[sl.id]) < MaxReplies, MaxReplies \in Nat,
           CanFillRound2(WithOutput(sl), 1)
    PROVE  LET new == FillRound2(WithOutput(sl), 1)
           IN  /\ new \in Slate
               /\ new.id = sl.id /\ new.coin = sl.coin
               /\ IsAnswer(new, Len(received[sl.id]) + 1)
    <1> DEFINE k == Len(received[sl.id]) + 1
               w == WithOutput(sl)
               new == FillRound2(w, 1)
    <1>1. sl \in Slate
        BY DEF Known
    <1>2. /\ w \in Slate
          /\ w.id = sl.id /\ w.coin = sl.coin
          /\ w.replies = sl.replies \cup {k}
          /\ Len(w.parts) = Len(sl.parts) + 1
          /\ \A i \in 1 .. Len(sl.parts) : w.parts[i] = sl.parts[i]
          /\ w.parts[Len(sl.parts) + 1] = [who |-> Bob(k), sig |-> {}]
        BY <1>1, WithOutputIsSlate
    <1>3. DOMAIN w.parts = 1 .. Len(w.parts)
        BY <1>2, SlateFields
    <1>4. VerifyPartSigs(w) /\ 2 \in DOMAIN w.parts
        BY DEF CanFillRound2
    <1>5. k \notin DOMAIN received[sl.id]
        OBVIOUS
    <1> HIDE DEF w, k
    <1>6. ~IsEstimate(sl)
        BY <1>2, <1>3, <1>4 DEF IsEstimate
    <1>7. ASSUME NEW j \in DOMAIN received[sl.id], IsAnswer(sl, j)
          PROVE  FALSE
        <2>1. Len(sl.parts) = 2 /\ sl.parts[2] = [who |-> Bob(j), sig |-> {Alice, Bob(j)}]
            BY <1>7 DEF IsAnswer
        <2>2. w.parts[2].sig = {Alice, Bob(j)} /\ w.parts[3].who = Bob(k)
            BY <1>2, <2>1
        <2>3. 3 \in DOMAIN w.parts /\ 2 \in DOMAIN w.parts
            BY <1>2, <1>3, <2>1
        <2>4. Bob(k) \in SignersOf(w)
            BY <2>2, <2>3 DEF SignersOf
        <2>5. {Alice, Bob(j)} \in {{}, SignersOf(w)}
            BY <1>4, <2>2, <2>3 DEF VerifyPartSigs
        <2>6. Bob(k) # Alice /\ Bob(k) # Bob(j)
            BY <1>5, <1>7, NamesDiffer
        <2>7. QED
            BY <2>4, <2>5, <2>6
    <1>8. IsOffer(sl)
        BY <1>6, <1>7 DEF Known
    <1>9. /\ Len(sl.parts) = 1 /\ sl.parts[1].who = Alice
          /\ sl.coin \in Coins /\ sl.replies = {}
        BY <1>8 DEF IsOffer
    <1>10. /\ Len(w.parts) = 2
           /\ w.parts[1].who = Alice
           /\ w.parts[2] = [who |-> Bob(k), sig |-> {}]
        BY <1>2, <1>9
    <1>11. SignersOf(w) = {Alice, Bob(k)}
        <2>1. DOMAIN w.parts = {1, 2}
            BY <1>3, <1>10
        <2>2. SignersOf(w) = {w.parts[1].who, w.parts[2].who}
            BY <2>1 DEF SignersOf
        <2>3. QED
            BY <1>10, <2>2
    <1>12. /\ new \in Slate /\ Len(new.parts) = 2
           /\ new.parts[1] = w.parts[1]
           /\ new.parts[2] = [who |-> w.parts[2].who, sig |-> SignersOf(w)]
        <2>1. 1 \in Nat /\ 1 + 1 \in 1 .. Len(w.parts) /\ 1 + 1 = 2
            BY <1>10
        <2> DEFINE part(j) == IF j = 1 + 1
                              THEN [who |-> w.parts[j].who, sig |-> SignersOf(w)]
                              ELSE w.parts[j]
        <2>2. /\ new \in Slate /\ Len(new.parts) = Len(w.parts)
              /\ \A j \in 1 .. Len(w.parts) : new.parts[j] = part(j)
            BY <1>2, <2>1, Round2Signs
        <2>3. new.parts[1] = part(1) /\ new.parts[2] = part(2)
            BY <1>10, <2>2
        <2>4. QED
            BY <1>10, <2>2, <2>3
    <1>13. new.parts[2] = [who |-> Bob(k), sig |-> {Alice, Bob(k)}]
        BY <1>10, <1>11, <1>12
    <1>14. new.id = w.id /\ new.coin = w.coin /\ new.replies = w.replies
        BY <1>2, Round2Keeps
    <1> HIDE DEF new
    <1>15. IsAnswer(new, k)
        BY <1>2, <1>9, <1>10, <1>12, <1>13, <1>14 DEF IsAnswer
    <1>16. QED
        BY <1>2, <1>12, <1>14, <1>15 DEF w, k, new

-----------------------------------------------------------------------------
(* What the steps have in common.                                          *)

CallRecord == [pc : Steps, order : Order, slate : Slate]

\* A call starts, or it goes on with its arguments and a slate of the same id and
\* coin, and never back to a place before the lock.
CallsStep ==
    /\ calls' \in [Slates -> CallRecord]
    /\ \A s \in Slates :
        \/ calls'[s] = calls[s]
        \/ /\ calls'[s].pc # "idle"
           /\ calls'[s].pc \in Early => calls[s].pc \in Early
           /\ calls'[s].slate.id = s /\ Known(calls'[s].slate, received)
           /\ ~At(s, "idle") => /\ calls'[s].order = calls[s].order
                                /\ calls'[s].slate.coin = calls[s].slate.coin

ReceivedGrows == \A s \in Slates : DOMAIN received[s] \subseteq DOMAIN received'[s]

LEMMA CallTyped ==
    ASSUME IInv, NEW s \in Slates
    PROVE  /\ calls \in [Slates -> CallRecord]
           /\ calls[s] \in CallRecord
           /\ calls[s].slate \in Slate /\ calls[s].slate.id = s
           /\ Known(calls[s].slate, received)
    BY DEF IInv, TypeOK, CallRecord, CallsInv

LEMMA ReceivedTyped ==
    ASSUME IInv, NEW s \in Slates
    PROVE  /\ received[s] \in Seq({"open", "cancelled"})
           /\ Len(received[s]) \in Nat
           /\ DOMAIN received[s] = 1 .. Len(received[s])
    <1>1. received[s] \in Seq({"open", "cancelled"})
        BY DEF IInv, TypeOK
    <1>2. QED
        BY <1>1, LenProperties

\* To moves one call; a crash ends all that are under way.
LEMMA ToIsCallsStep ==
    ASSUME IInv, NEW s \in Slates, NEW p \in Steps \ {"idle"}, To(s, p),
           p \in Early => calls[s].pc \in Early
    PROVE  CallsStep /\ calls'[s].pc = p
    <1>1. \A u \in Slates : calls[u] \in CallRecord
        BY CallTyped
    <1>2. calls' = [calls EXCEPT ![s] = [calls[s] EXCEPT !.pc = p]]
        BY DEF To
    <1> DEFINE r == [calls[s] EXCEPT !.pc = p]
    <1>3. /\ r \in CallRecord /\ r.pc = p
          /\ r.order = calls[s].order /\ r.slate = calls[s].slate
        BY <1>1 DEF CallRecord
    <1> HIDE DEF r
    <1>4. /\ calls' \in [Slates -> CallRecord]
          /\ calls'[s] = r /\ \A u \in Slates \ {s} : calls'[u] = calls[u]
        BY <1>2, <1>3, CallTyped DEF r
    <1>5. calls[s].slate.id = s /\ Known(calls[s].slate, received)
        BY CallTyped
    <1>6. QED
        BY <1>3, <1>4, <1>5 DEF CallsStep

LEMMA CrashIsCallsStep ==
    ASSUME IInv,
           calls' = [s \in Slates |->
                   IF calls[s].pc \in {"idle", "done", "failed"} THEN calls[s]
                   ELSE [calls[s] EXCEPT !.pc = "dead"]]
    PROVE  CallsStep
    <1>1. ASSUME NEW s \in Slates, calls'[s] # calls[s]
          PROVE  /\ calls'[s] \in CallRecord /\ calls'[s].pc = "dead"
                 /\ calls'[s].order = calls[s].order /\ calls'[s].slate = calls[s].slate
        <2>1. calls[s] \in CallRecord
            BY CallTyped
        <2>2. calls'[s] = [calls[s] EXCEPT !.pc = "dead"]
            BY <1>1
        <2>3. "dead" \in Steps
            BY DEF Steps
        <2>4. QED
            BY <2>1, <2>2, <2>3 DEF CallRecord
    <1>2. calls' \in [Slates -> CallRecord]
        BY <1>1, CallTyped
    <1>3. ASSUME NEW s \in Slates
          PROVE  calls[s].slate.id = s /\ Known(calls[s].slate, received)
        BY CallTyped
    <1>4. QED
        BY <1>1, <1>2, <1>3 DEF CallsStep, Early

LEMMA SameCallsIsCallsStep ==
    ASSUME IInv, UNCHANGED calls
    PROVE  CallsStep
    BY DEF IInv, TypeOK, CallsStep, CallRecord

LEMMA SameReceivedGrows ==
    ASSUME UNCHANGED received
    PROVE  ReceivedGrows
    BY DEF ReceivedGrows

-----------------------------------------------------------------------------
(* The parts of the invariant, each from what it depends on.               *)

LEMMA CallsInvKept ==
    ASSUME IInv, CallsStep, ReceivedGrows,
           \A s \in Slates : calls'[s].pc \in Early => sent'[s] = sent[s]
    PROVE  CallsInv'
    <1> SUFFICES ASSUME NEW s \in Slates
                 PROVE  /\ calls'[s].slate.id = s /\ Known(calls'[s].slate, received')
                        /\ calls'[s].pc \in Early => sent'[s] = "none"
        BY DEF CallsInv
    <1>1. /\ calls[s].slate.id = s /\ Known(calls[s].slate, received)
          /\ calls[s].pc \in Early => sent[s] = "none"
        BY DEF IInv, CallsInv
    <1>2. calls'[s].slate.id = s /\ Known(calls'[s].slate, received)
        BY <1>1 DEF CallsStep
    <1>3. Known(calls'[s].slate, received')
        BY <1>2, KnownStays DEF ReceivedGrows
    <1>4. QED
        BY <1>1, <1>2, <1>3 DEF CallsStep

LEMMA SentInvKept ==
    ASSUME IInv, CallsStep,
           \A s \in Slates : s \in contexts' \/ sent'[s] # "none" =>
                \/ s \in contexts \/ sent[s] # "none"
                \/ calls'[s].pc # "idle" /\ ~calls'[s].order.estimate,
           \A c \in Coins : lockedBy'[c] # NoSlate => sent'[lockedBy'[c]] # "none"
    PROVE  SentInv'
    BY DEF IInv, SentInv, CallsStep, At, Asked

LEMMA FinalInvKept ==
    ASSUME IInv, CallsStep, ReceivedGrows, UNCHANGED stored,
           \A s \in Slates : sent[s] # "none" => sent'[s] # "none"
    PROVE  FinalInv'
    <1> SUFFICES ASSUME NEW s \in Slates, Final(s)
                 PROVE  /\ stored[s].id = s
                        /\ stored[s].coin \in Coins /\ stored[s].coin = calls'[s].slate.coin
                        /\ sent'[s] # "none"
                        /\ \E k \in DOMAIN received'[s] : stored[s].replies = {k}
        BY DEF FinalInv, Final
    <1>1. /\ stored[s].id = s
          /\ stored[s].coin \in Coins /\ stored[s].coin = calls[s].slate.coin
          /\ sent[s] # "none"
          /\ \E k \in DOMAIN received[s] : stored[s].replies = {k}
        BY DEF IInv, FinalInv
    <1>2. ~At(s, "idle")
        BY <1>1 DEF IInv, SentInv
    <1>3. calls'[s].slate.coin = calls[s].slate.coin
        BY <1>2 DEF CallsStep
    <1>4. QED
        BY <1>1, <1>3 DEF ReceivedGrows

LEMMA NetInvKept ==
    ASSUME IInv, CallsStep, ReceivedGrows,
           \A m \in net' \ net :
                /\ Known(m.slate, received')
                /\ ~At(m.slate.id, "idle")
                /\ m.slate.coin = calls[m.slate.id].slate.coin
    PROVE  NetInv'
    <1> SUFFICES ASSUME NEW m \in net'
                 PROVE  /\ Known(m.slate, received')
                        /\ calls'[m.slate.id].pc # "idle"
                        /\ m.slate.coin = calls'[m.slate.id].slate.coin
        BY DEF NetInv, At
    <1>1. /\ Known(m.slate, received')
          /\ ~At(m.slate.id, "idle")
          /\ m.slate.coin = calls[m.slate.id].slate.coin
        <2>1. CASE m \in net
            BY <2>1, KnownStays DEF IInv, NetInv, ReceivedGrows
        <2>2. QED
            BY <2>1
    <1>2. m.slate.id \in Slates
        BY <1>1, SlateFields DEF Known
    <1>3. QED
        BY <1>1, <1>2 DEF CallsStep, At

LEMMA NodeInvKept ==
    ASSUME IInv,
           \A s \in Slates :
                Final(s) => stored'[s].final /\ stored'[s].coin = stored[s].coin,
           \A t \in pool' \cup mined' :
                t \in pool \cup mined \/ (stored[t.id].final /\ t.coin = stored[t.id].coin),
           pool' \cup mined' \subseteq Tx
    PROVE  NodeInv'
    <1> SUFFICES ASSUME NEW t \in pool' \cup mined'
                 PROVE  stored'[t.id].final /\ t.coin = stored'[t.id].coin
        BY DEF NodeInv, Final
    <1>1. stored[t.id].final /\ t.coin = stored[t.id].coin
        BY DEF IInv, NodeInv, Final
    <1>2. t.id \in Slates
        BY DEF Tx
    <1>3. QED
        BY <1>1, <1>2 DEF Final

LEMMA SameReceivedInvKept ==
    ASSUME IInv, UNCHANGED received
    PROVE  ReceivedInv'
    BY DEF IInv, ReceivedInv, OneOpenReceipt

\* A step of the calls alone.
LEMMA CallsOnly ==
    ASSUME IInv, CallsStep, UNCHANGED <<contexts, sent, lockedBy, stored, received, net, node>>
    PROVE  IInv'
    <1>1. TypeOK'
        BY DEF IInv, TypeOK, CallsStep, CallRecord, node
    <1>2. ReceivedGrows
        BY SameReceivedGrows
    <1>3. CallsInv' /\ FinalInv' /\ NetInv' /\ ReceivedInv'
        BY <1>2, CallsInvKept, FinalInvKept, NetInvKept, SameReceivedInvKept
    <1>4. SentInv'
        BY SentInvKept DEF IInv, SentInv
    <1>5. NodeInv'
        BY DEF IInv, NodeInv, Final, node
    <1>6. QED
        BY <1>1, <1>3, <1>4, <1>5 DEF IInv

-----------------------------------------------------------------------------
(* The steps that write a transaction, a log entry or a record of Bob's.   *)

LEMMA ExchangeInit == ASSUME ExchangeAssumption, Init PROVE IInv
    <1>1. ASSUME NEW s \in Slates
          PROVE  /\ calls[s] \in CallRecord /\ calls[s].pc = "idle"
                 /\ calls[s].slate.id = s /\ Known(calls[s].slate, received)
        <2> DEFINE o == CHOOSE x \in Orders[s] : TRUE
        <2>1. Orders[s] \subseteq Order /\ Orders[s] # {}
            BY DEF ExchangeAssumption
        <2>2. o \in Order
            BY <2>1
        <2> HIDE DEF o
        <2>3. Known(Blank(s), received) /\ Blank(s).id = s
            BY BlankIsKnown
        <2>4. calls[s] = [pc |-> "idle", order |-> o, slate |-> Blank(s)]
            BY DEF Init, Idle, o
        <2>5. QED
            BY <2>2, <2>3, <2>4 DEF CallRecord, Steps, Known
    <1>2. calls \in [Slates -> CallRecord]
        BY <1>1 DEF Init
    <1>3. ASSUME NEW s \in Slates
          PROVE  received[s] = << >> /\ stored[s] = NotStored
        BY DEF Init
    <1>4. << >> \in Seq({"open", "cancelled"}) /\ Len(<< >>) = 0 /\ DOMAIN << >> = {}
        OBVIOUS
    <1>5. TypeOK
        BY <1>2, <1>3, <1>4 DEF Init, TypeOK, CallRecord
    <1>6. CallsInv /\ SentInv
        BY <1>1 DEF Init, CallsInv, SentInv
    <1>7. FinalInv /\ NetInv /\ NodeInv
        BY <1>3 DEF Init, FinalInv, NetInv, NodeInv, Final, NotStored
    <1>8. ReceivedInv
        BY <1>3, <1>4 DEF ReceivedInv, OneOpenReceipt, ExchangeAssumption
    <1>9. QED
        BY <1>5, <1>6, <1>7, <1>8 DEF IInv

\* What finalize_tx writes: a transaction of the coin of the call, which pays one
\* output that Bob has recorded.
LEMMA FinalizesWrites ==
    ASSUME ExchangeAssumption, IInv, NEW sl, Known(sl, received),
           sl.coin = calls[sl.id].slate.coin, Finalizes(sl)
    PROVE  /\ sl.id \in Slates /\ sent[sl.id] = "open"
           /\ stored' \in [Slates -> Tx \cup {NotStored}]
           /\ \A s \in Slates \ {sl.id} : stored'[s] = stored[s]
           /\ stored'[sl.id].final
           /\ stored'[sl.id].id = sl.id
           /\ stored'[sl.id].coin \in Coins
           /\ stored'[sl.id].coin = calls[sl.id].slate.coin
           /\ \E k \in DOMAIN received[sl.id] : stored'[sl.id].replies = {k}
    <1> DEFINE signed == FillRound2(sl, 0)
               tx == [id |-> sl.id, coin |-> sl.coin, replies |-> sl.replies, final |-> TRUE]
    <1>1. sl \in Slate
        BY DEF Known
    <1>2. /\ CanFinalize(signed) /\ SentEntryExists(sl.id)
          /\ stored' = [stored EXCEPT ![sl.id] = TxOf(signed, TRUE)]
        BY DEF Finalizes
    <1>3. \E k \in DOMAIN received[sl.id] : IsAnswer(sl, k)
        BY <1>2, FinalizedIsAnswer
    <1>4. TxOf(signed, TRUE) = tx
        BY <1>1, Round2Keeps DEF TxOf
    <1>5. /\ sl.id \in Slates /\ sl.coin \in Coins
          /\ \E k \in DOMAIN received[sl.id] : sl.replies = {k}
        BY <1>1, <1>3, SlateFields DEF IsAnswer
    <1>6. /\ tx \in Tx /\ tx.final
          /\ tx.id = sl.id /\ tx.coin = sl.coin /\ tx.replies = sl.replies
        BY <1>1, SlateFields DEF Tx
    <1> HIDE DEF tx
    <1>7. stored \in [Slates -> Tx \cup {NotStored}]
        BY DEF IInv, TypeOK
    <1>8. /\ stored' \in [Slates -> Tx \cup {NotStored}]
          /\ stored'[sl.id] = tx
          /\ \A s \in Slates \ {sl.id} : stored'[s] = stored[s]
        BY <1>2, <1>4, <1>5, <1>6, <1>7
    <1>9. sent[sl.id] = "open"
        BY <1>2 DEF SentEntryExists
    <1>10. QED
        BY <1>5, <1>6, <1>8, <1>9

LEMMA FinalizesKeeps ==
    ASSUME ExchangeAssumption, IInv, NEW sl, Known(sl, received),
           sl.coin = calls[sl.id].slate.coin, Finalizes(sl),
           CallsStep, contexts' \subseteq contexts, UNCHANGED net
    PROVE  IInv'
    <1>1. UNCHANGED <<sent, lockedBy, received, node>>
        BY DEF Finalizes
    <1>2. /\ sl.id \in Slates /\ sent[sl.id] = "open"
          /\ stored' \in [Slates -> Tx \cup {NotStored}]
          /\ \A s \in Slates \ {sl.id} : stored'[s] = stored[s]
          /\ stored'[sl.id].final
          /\ stored'[sl.id].id = sl.id
          /\ stored'[sl.id].coin \in Coins
          /\ stored'[sl.id].coin = calls[sl.id].slate.coin
          /\ \E k \in DOMAIN received[sl.id] : stored'[sl.id].replies = {k}
        BY FinalizesWrites
    <1>3. TypeOK'
        BY <1>1, <1>2 DEF IInv, TypeOK, CallsStep, CallRecord, node
    <1>4. ReceivedGrows /\ ReceivedInv'
        BY <1>1, SameReceivedGrows, SameReceivedInvKept
    <1>5. CallsInv' /\ NetInv'
        BY <1>1, <1>4, CallsInvKept, NetInvKept
    <1>6. SentInv'
        BY <1>1, SentInvKept DEF IInv, SentInv
    <1>7. FinalInv'
        <2> SUFFICES ASSUME NEW s \in Slates, stored'[s].final
                     PROVE  /\ stored'[s].id = s
                            /\ stored'[s].coin \in Coins
                            /\ stored'[s].coin = calls'[s].slate.coin
                            /\ sent'[s] # "none"
                            /\ \E k \in DOMAIN received'[s] : stored'[s].replies = {k}
            BY DEF FinalInv, Final
        <2>1. /\ stored'[s].id = s
              /\ stored'[s].coin \in Coins
              /\ stored'[s].coin = calls[s].slate.coin
              /\ sent[s] # "none"
              /\ \E k \in DOMAIN received[s] : stored'[s].replies = {k}
            <3>1. CASE s = sl.id
                BY <1>2, <3>1
            <3>2. CASE s # sl.id
                BY <1>2, <3>2 DEF IInv, FinalInv, Final
            <3>3. QED
                BY <3>1, <3>2
        <2>2. ~At(s, "idle")
            BY <2>1 DEF IInv, SentInv
        <2>3. QED
            BY <1>1, <2>1, <2>2 DEF CallsStep
    <1>8. NodeInv'
        <2>1. ASSUME NEW s \in Slates, Final(s)
              PROVE  stored'[s].final /\ stored'[s].coin = stored[s].coin
            <3>1. CASE s = sl.id
                BY <1>2, <2>1, <3>1 DEF IInv, FinalInv
            <3>2. CASE s # sl.id
                BY <1>2, <2>1, <3>2 DEF Final
            <3>3. QED
                BY <3>1, <3>2
        <2>2. pool' \cup mined' = pool \cup mined /\ pool \cup mined \subseteq Tx
            BY <1>1 DEF node, IInv, TypeOK
        <2>3. QED
            BY <2>1, <2>2, NodeInvKept
    <1>9. QED
        BY <1>3, <1>4, <1>5, <1>6, <1>7, <1>8 DEF IInv

\* tx_lock_outputs, which cannot meet a final transaction: that one would be in
\* the log already.
LEMMA LockKeeps ==
    ASSUME ExchangeAssumption, IInv, NEW s \in Slates, TxLockOutputs(s)
    PROVE  IInv' /\ ~Final(s)
    <1> DEFINE sl == calls[s].slate
               tx == TxOf(sl, FALSE)
    <1>1. /\ At(s, "sent") /\ s \in contexts
          /\ lockedBy' = [c \in Coins |-> IF c = sl.coin THEN s ELSE lockedBy[c]]
          /\ sent' = [sent EXCEPT ![s] = "open"]
          /\ stored' = [stored EXCEPT ![s] = tx]
          /\ To(s, AfterLock(s))
          /\ UNCHANGED <<contexts, received, net, node>>
        BY DEF TxLockOutputs, MayLock
    <1>2. AfterLock(s) \in {"locked", "done"}
        BY DEF AfterLock
    <1>3. CallsStep /\ calls'[s].pc \in {"locked", "done"}
        BY <1>1, <1>2, ToIsCallsStep DEF Steps, Early
    <1>4. sent[s] = "none"
        BY <1>1 DEF IInv, CallsInv, At, Early
    <1>5. ~Final(s)
        BY <1>4 DEF IInv, FinalInv
    <1>6. tx \in Tx /\ ~tx.final
        BY CallTyped DEF Slate, Tx, TxOf
    <1> HIDE DEF tx
    <1>7. /\ sent \in [Slates -> {"none", "open", "cancelled"}]
          /\ stored \in [Slates -> Tx \cup {NotStored}]
          /\ lockedBy \in [Coins -> Slates \cup {NoSlate}]
        BY DEF IInv, TypeOK
    <1>8. /\ sent' \in [Slates -> {"none", "open", "cancelled"}]
          /\ sent'[s] = "open" /\ \A u \in Slates \ {s} : sent'[u] = sent[u]
          /\ stored' \in [Slates -> Tx \cup {NotStored}]
          /\ stored'[s] = tx /\ \A u \in Slates \ {s} : stored'[u] = stored[u]
          /\ lockedBy' \in [Coins -> Slates \cup {NoSlate}]
          /\ \A c \in Coins : lockedBy'[c] \in {s, lockedBy[c]}
        BY <1>1, <1>6, <1>7
    <1>9. TypeOK'
        BY <1>1, <1>3, <1>8 DEF IInv, TypeOK, CallsStep, CallRecord, node
    <1>10. ReceivedGrows /\ ReceivedInv'
        BY <1>1, SameReceivedGrows, SameReceivedInvKept
    <1>11. CallsInv'
        BY <1>3, <1>8, <1>10, CallsInvKept DEF Early
    <1>12. NetInv'
        BY <1>1, <1>3, <1>10, NetInvKept
    <1>13. SentInv'
        <2>1. ASSUME NEW c \in Coins, lockedBy'[c] # NoSlate
              PROVE  sent'[lockedBy'[c]] # "none"
            BY <1>7, <1>8, <2>1 DEF IInv, SentInv
        <2>2. QED
            BY <1>1, <1>3, <1>8, <2>1, SentInvKept
    <1>14. FinalInv'
        <2> SUFFICES ASSUME NEW u \in Slates, stored'[u].final
                     PROVE  /\ stored'[u].id = u
                            /\ stored'[u].coin \in Coins
                            /\ stored'[u].coin = calls'[u].slate.coin
                            /\ sent'[u] # "none"
                            /\ \E k \in DOMAIN received'[u] : stored'[u].replies = {k}
            BY DEF FinalInv, Final
        <2>1. u # s
            BY <1>6, <1>8
        <2>2. /\ stored[u].id = u
              /\ stored[u].coin \in Coins
              /\ stored[u].coin = calls[u].slate.coin
              /\ sent[u] # "none"
              /\ \E k \in DOMAIN received[u] : stored[u].replies = {k}
            BY <1>8, <2>1 DEF IInv, FinalInv, Final
        <2>3. calls'[u].slate.coin = calls[u].slate.coin
            BY <1>3, <2>2 DEF CallsStep, IInv, SentInv
        <2>4. QED
            BY <1>1, <1>8, <2>1, <2>2, <2>3
    <1>15. NodeInv'
        <2>1. ASSUME NEW u \in Slates, Final(u)
              PROVE  stored'[u].final /\ stored'[u].coin = stored[u].coin
            BY <1>5, <1>8, <2>1 DEF Final
        <2>2. pool' \cup mined' = pool \cup mined /\ pool \cup mined \subseteq Tx
            BY <1>1 DEF node, IInv, TypeOK
        <2>3. QED
            BY <2>1, <2>2, NodeInvKept
    <1>16. QED
        BY <1>5, <1>9, <1>10, <1>11, <1>12, <1>13, <1>14, <1>15 DEF IInv

\* build_recipient_output: the only way the log of Bob grows, by an open entry
\* where there was none.
LEMMA RecordKeeps ==
    ASSUME ExchangeAssumption, IInv, NEW s \in Slates, RecordOutput(s)
    PROVE  /\ received' \in [Slates -> Seq({"open", "cancelled"})]
           /\ ReceivedGrows /\ ReceivedInv'
           /\ Len(received[s]) + 1 \in DOMAIN received'[s]
           /\ \A u \in Slates \ {s} : received'[u] = received[u]
           /\ received'[s] # << >>
    <1> DEFINE n == Len(received[s])
               rs == Append(received[s], "open")
    <1>1. /\ ~AlreadyReceived(s) /\ n < MaxReplies
          /\ received' = [received EXCEPT ![s] = rs]
        BY DEF RecordOutput
    <1>2. /\ received \in [Slates -> Seq({"open", "cancelled"})]
          /\ received[s] \in Seq({"open", "cancelled"})
          /\ n \in Nat /\ DOMAIN received[s] = 1 .. n
        BY ReceivedTyped DEF IInv, TypeOK
    <1>3. /\ rs \in Seq({"open", "cancelled"}) /\ Len(rs) = n + 1
          /\ \A i \in 1 .. n : rs[i] = received[s][i]
        BY <1>2, AppendProperties
    <1> HIDE DEF rs
    <1>4. /\ received' \in [Slates -> Seq({"open", "cancelled"})]
          /\ received'[s] = rs /\ \A u \in Slates \ {s} : received'[u] = received[u]
        BY <1>1, <1>2, <1>3
    <1>5. DOMAIN rs = 1 .. n + 1
        BY <1>3, LenProperties
    <1>6. ReceivedGrows
        <2>1. DOMAIN received[s] \subseteq DOMAIN received'[s]
            BY <1>2, <1>4, <1>5
        <2>2. QED
            BY <1>4, <2>1 DEF ReceivedGrows
    <1>7. ASSUME NEW u \in Slates, NEW j \in DOMAIN received'[u], NEW k \in DOMAIN received'[u],
                 received'[u][j] = "open", received'[u][k] = "open"
          PROVE  j = k
        <2>1. CASE u = s
            <3>1. \A i \in 1 .. n : rs[i] # "open"
                BY <1>1, <1>2, <1>3 DEF AlreadyReceived
            <3>2. j = n + 1 /\ k = n + 1
                BY <1>2, <1>4, <1>5, <1>7, <2>1, <3>1
            <3>3. QED
                BY <3>2
        <2>2. CASE u # s
            BY <1>4, <1>7, <2>2 DEF IInv, ReceivedInv, OneOpenReceipt
        <2>3. QED
            BY <2>1, <2>2
    <1>8. ASSUME NEW u \in Slates
          PROVE  Len(received'[u]) <= MaxReplies
        <2>1. CASE u = s
            BY <1>1, <1>2, <1>3, <1>4, <2>1 DEF ExchangeAssumption
        <2>2. CASE u # s
            BY <1>4, <2>2 DEF IInv, ReceivedInv
        <2>3. QED
            BY <2>1, <2>2
    <1>9. ReceivedInv'
        BY <1>7, <1>8 DEF ReceivedInv, OneOpenReceipt
    <1>10. n + 1 \in DOMAIN received'[s]
        BY <1>2, <1>4, <1>5
    <1>11. received'[s] # << >>
        BY <1>2, <1>3, <1>4
    <1>12. QED
        BY <1>4, <1>6, <1>9, <1>10, <1>11

\* A step that leaves Alice and the node alone and writes to Bob's log or the net.
LEMMA BobKeeps ==
    ASSUME IInv, UNCHANGED <<alice, node>>,
           received' \in [Slates -> Seq({"open", "cancelled"})],
           ReceivedGrows, ReceivedInv',
           net' \subseteq [to : {"alice", "bob"}, via : Methods, slate : Slate],
           \A m \in net' \ net :
                /\ Known(m.slate, received')
                /\ ~At(m.slate.id, "idle")
                /\ m.slate.coin = calls[m.slate.id].slate.coin
    PROVE  IInv'
    <1>1. UNCHANGED <<calls, contexts, sent, lockedBy, stored, pool, mined>>
        BY DEF alice, node
    <1>2. CallsStep
        BY <1>1, SameCallsIsCallsStep
    <1>3. TypeOK'
        BY <1>1 DEF IInv, TypeOK
    <1>4. CallsInv' /\ FinalInv' /\ NetInv'
        BY <1>1, <1>2, CallsInvKept, FinalInvKept, NetInvKept
    <1>5. SentInv'
        BY <1>1, <1>2, SentInvKept DEF IInv, SentInv
    <1>6. NodeInv'
        BY <1>1 DEF IInv, NodeInv, Final
    <1>7. QED
        BY <1>3, <1>4, <1>5, <1>6 DEF IInv

\* What is known of a message under way.
LEMMA MessageKnown ==
    ASSUME IInv, NEW m \in net
    PROVE  /\ m.to \in {"alice", "bob"} /\ m.via \in Methods
           /\ Known(m.slate, received) /\ m.slate \in Slate
           /\ m.slate.id \in Slates
           /\ ~At(m.slate.id, "idle")
           /\ m.slate.coin = calls[m.slate.id].slate.coin
    BY SlateFields DEF IInv, TypeOK, NetInv

LEMMA ReceiveKeeps ==
    ASSUME ExchangeAssumption, IInv, NEW m \in net, ReceiveTx(m)
    PROVE  IInv' /\ RecordOutput(m.slate.id)
    <1> DEFINE w == WithOutput(m.slate)
               new == FillRound2(w, 1)
               s == m.slate.id
               k == Len(received[s]) + 1
    <1>1. /\ RecordOutput(w.id) /\ CanFillRound2(w, 1)
          /\ net' = (net \ Taken(m)) \cup {Message("alice", m.via, new)}
          /\ UNCHANGED <<alice, node>>
        BY DEF ReceiveTx
    <1>2. /\ m.via \in Methods /\ Known(m.slate, received) /\ m.slate \in Slate
          /\ s \in Slates /\ ~At(s, "idle") /\ m.slate.coin = calls[s].slate.coin
        BY MessageKnown
    <1>3. w.id = s
        BY <1>2 DEF WithOutput, FillRound1, Slate
    <1>4. RecordOutput(s)
        BY <1>1, <1>3
    <1>5. /\ received' \in [Slates -> Seq({"open", "cancelled"})]
          /\ ReceivedGrows /\ ReceivedInv' /\ k \in DOMAIN received'[s]
        BY <1>2, <1>4, RecordKeeps
    <1>6. Len(received[s]) \in Nat /\ DOMAIN received[s] = 1 .. Len(received[s])
        BY <1>2, ReceivedTyped
    <1>7. Len(received[s]) < MaxReplies /\ MaxReplies \in Nat
        BY <1>4 DEF RecordOutput, ExchangeAssumption
    <1>8. /\ new \in Slate /\ new.id = s /\ new.coin = m.slate.coin
          /\ IsAnswer(new, k)
        BY <1>1, <1>2, <1>6, <1>7, ReceivedIsAnswer
    <1> HIDE DEF w, new, k
    <1>9. Known(new, received')
        BY <1>5, <1>8 DEF Known
    <1>10. ASSUME NEW x \in net' \ net
           PROVE  /\ Known(x.slate, received')
                  /\ ~At(x.slate.id, "idle")
                  /\ x.slate.coin = calls[x.slate.id].slate.coin
        <2>1. x.slate = new
            BY <1>1, <1>10 DEF Message
        <2>2. QED
            BY <1>2, <1>8, <1>9, <2>1
    <1>11. net' \subseteq [to : {"alice", "bob"}, via : Methods, slate : Slate]
        BY <1>1, <1>2, <1>8 DEF IInv, TypeOK, Message
    <1>12. IInv'
        BY <1>1, <1>5, <1>10, <1>11, BobKeeps
    <1>13. QED
        BY <1>4, <1>12

LEMMA ReceiveFailsKeeps ==
    ASSUME ExchangeAssumption, IInv, NEW m \in net, ReceiveTxFails(m)
    PROVE  IInv' /\ RecordOutput(m.slate.id)
    <1>1. RecordOutput(m.slate.id) /\ net' = net \ Taken(m) /\ UNCHANGED <<alice, node>>
        BY DEF ReceiveTxFails
    <1>2. m.slate.id \in Slates
        BY MessageKnown
    <1>3. /\ received' \in [Slates -> Seq({"open", "cancelled"})]
          /\ ReceivedGrows /\ ReceivedInv'
        BY <1>1, <1>2, RecordKeeps
    <1>4. net' \subseteq [to : {"alice", "bob"}, via : Methods, slate : Slate]
        BY <1>1 DEF IInv, TypeOK
    <1>5. QED
        BY <1>1, <1>3, <1>4, BobKeeps

LEMMA CancelReceiveKeeps ==
    ASSUME IInv, NEW s \in Slates, NEW k \in DOMAIN received[s], CancelReceive(s, k)
    PROVE  /\ IInv'
           /\ \A u \in Slates : received'[u] = << >> <=> received[u] = << >>
    <1> DEFINE rs == [received[s] EXCEPT ![k] = "cancelled"]
    <1>1. received' = [received EXCEPT ![s] = rs] /\ UNCHANGED <<alice, net, node>>
        BY DEF CancelReceive
    <1>2. /\ received \in [Slates -> Seq({"open", "cancelled"})]
          /\ received[s] \in Seq({"open", "cancelled"})
          /\ DOMAIN received[s] = 1 .. Len(received[s])
        BY ReceivedTyped DEF IInv, TypeOK
    <1>3. /\ rs \in Seq({"open", "cancelled"}) /\ Len(rs) = Len(received[s])
          /\ \A j \in 1 .. Len(received[s]) :
                rs[j] = IF j = k THEN "cancelled" ELSE received[s][j]
        BY <1>2, ExceptSeq
    <1> HIDE DEF rs
    <1>4. /\ received' \in [Slates -> Seq({"open", "cancelled"})]
          /\ received'[s] = rs /\ \A u \in Slates \ {s} : received'[u] = received[u]
        BY <1>1, <1>2, <1>3
    <1>5. DOMAIN rs = 1 .. Len(received[s])
        BY <1>3, LenProperties
    <1>6. ReceivedGrows
        <2>1. DOMAIN received[s] \subseteq DOMAIN received'[s]
            BY <1>2, <1>4, <1>5
        <2>2. QED
            BY <1>4, <2>1 DEF ReceivedGrows
    <1>7. ReceivedInv'
        <2>1. ASSUME NEW u \in Slates, NEW i \in DOMAIN received'[u],
                     NEW j \in DOMAIN received'[u],
                     received'[u][i] = "open", received'[u][j] = "open"
              PROVE  i = j
            <3>1. CASE u = s
                <4>1. i \in DOMAIN received[s] /\ j \in DOMAIN received[s]
                    BY <1>2, <1>4, <1>5, <2>1, <3>1
                <4>2. received[s][i] = "open" /\ received[s][j] = "open"
                    BY <1>2, <1>3, <1>4, <2>1, <3>1, <4>1
                <4>3. QED
                    BY <4>1, <4>2 DEF IInv, ReceivedInv, OneOpenReceipt
            <3>2. CASE u # s
                BY <1>4, <2>1, <3>2 DEF IInv, ReceivedInv, OneOpenReceipt
            <3>3. QED
                BY <3>1, <3>2
        <2>2. ASSUME NEW u \in Slates
              PROVE  Len(received'[u]) <= MaxReplies
            BY <1>3, <1>4 DEF IInv, ReceivedInv
        <2>3. QED
            BY <2>1, <2>2 DEF ReceivedInv, OneOpenReceipt
    <1>8. IInv'
        BY <1>1, <1>4, <1>6, <1>7, BobKeeps DEF IInv, TypeOK
    <1>9. rs # << >> /\ received[s] # << >>
        BY <1>2, <1>3, EmptySeq
    <1>10. QED
        BY <1>4, <1>8, <1>9

\* cancel_tx of a send.
LEMMA CancelSendKeeps ==
    ASSUME IInv, NEW s \in Slates, CancelSend(s)
    PROVE  IInv'
    <1>1. /\ sent[s] = "open"
          /\ sent' = [sent EXCEPT ![s] = "cancelled"]
          /\ lockedBy' = [c \in Coins |-> IF lockedBy[c] = s THEN NoSlate ELSE lockedBy[c]]
          /\ UNCHANGED <<calls, contexts, stored, received, net, node>>
        BY DEF CancelSend
    <1>2. /\ sent \in [Slates -> {"none", "open", "cancelled"}]
          /\ lockedBy \in [Coins -> Slates \cup {NoSlate}]
        BY DEF IInv, TypeOK
    <1>3. /\ sent' \in [Slates -> {"none", "open", "cancelled"}]
          /\ \A u \in Slates : sent'[u] = "none" <=> sent[u] = "none"
          /\ lockedBy' \in [Coins -> Slates \cup {NoSlate}]
          /\ \A c \in Coins : lockedBy'[c] \in {NoSlate, lockedBy[c]}
        BY <1>1, <1>2
    <1>4. CallsStep /\ ReceivedGrows /\ ReceivedInv'
        BY <1>1, SameCallsIsCallsStep, SameReceivedGrows, SameReceivedInvKept
    <1>5. TypeOK'
        BY <1>1, <1>3 DEF IInv, TypeOK, node
    <1>6. CallsInv'
        BY <1>1, <1>3 DEF IInv, CallsInv
    <1>7. SentInv'
        BY <1>1, <1>2, <1>3 DEF IInv, SentInv, At, Asked
    <1>8. FinalInv' /\ NetInv'
        BY <1>1, <1>3, <1>4, FinalInvKept, NetInvKept
    <1>9. NodeInv'
        BY <1>1 DEF IInv, NodeInv, Final, node
    <1>10. QED
        BY <1>4, <1>5, <1>6, <1>7, <1>8, <1>9 DEF IInv

\* The node takes finalized transactions and mines what it has taken.
LEMMA NodeKeeps ==
    ASSUME IInv, CallsStep, UNCHANGED <<contexts, sent, lockedBy, stored, received, net>>,
           \A t \in pool' \cup mined' :
                \/ t \in pool \cup mined
                \/ \E s \in Slates : t = stored[s] /\ Final(s)
    PROVE  IInv'
    <1>1. \A s \in Slates : Final(s) => stored[s] \in Tx /\ stored[s].id = s
        BY DEF IInv, TypeOK, FinalInv, Final, NotStored
    <1>2. pool' \cup mined' \subseteq Tx
        BY <1>1 DEF IInv, TypeOK
    <1>3. ASSUME NEW t \in pool' \cup mined'
          PROVE  t \in pool \cup mined \/ (stored[t.id].final /\ t.coin = stored[t.id].coin)
        BY <1>1 DEF Final
    <1>4. NodeInv'
        BY <1>2, <1>3, NodeInvKept DEF Final
    <1>5. TypeOK'
        BY <1>2 DEF IInv, TypeOK, CallsStep, CallRecord
    <1>6. ReceivedGrows /\ ReceivedInv'
        BY SameReceivedGrows, SameReceivedInvKept
    <1>7. CallsInv' /\ FinalInv' /\ NetInv'
        BY <1>6, CallsInvKept, FinalInvKept, NetInvKept
    <1>8. SentInv'
        BY SentInvKept DEF IInv, SentInv
    <1>9. QED
        BY <1>4, <1>5, <1>6, <1>7, <1>8 DEF IInv

-----------------------------------------------------------------------------
(* Every step keeps the invariant.                                         *)

LEMMA StartKeeps ==
    ASSUME ExchangeAssumption, IInv, NEW s \in Slates, NEW o \in Orders[s],
           InitEstimate(s, o) \/ \E c \in Coins : InitSendTx(s, o, c)
    PROVE  IInv'
    <1>1. o \in Order
        BY DEF ExchangeAssumption
    <1>2. \A u \in Slates : calls[u] \in CallRecord
        BY CallTyped
    <1>3. CASE InitEstimate(s, o)
        <2>1. /\ calls' = [calls EXCEPT ![s] =
                              [pc |-> "ready", order |-> o, slate |-> Blank(s)]]
              /\ At(s, "idle")
              /\ UNCHANGED <<contexts, sent, lockedBy, stored, received, net, node>>
            BY <1>3 DEF InitEstimate
        <2>2. Known(Blank(s), received) /\ Blank(s).id = s /\ Blank(s) \in Slate
            BY BlankIsKnown DEF Known
        <2>3. CallsStep
            BY <1>1, <2>1, <2>2, CallTyped DEF CallsStep, CallRecord, Steps, Early, At
        <2>4. QED
            BY <2>1, <2>3, CallsOnly
    <1>4. ASSUME NEW c \in Coins, InitSendTx(s, o, c)
          PROVE  IInv'
        <2> DEFINE sl == FillRound1([Blank(s) EXCEPT !.coin = c], Alice)
        <2>1. /\ At(s, "idle") /\ ~o.estimate
              /\ calls' = [calls EXCEPT ![s] = [pc |-> "ready", order |-> o, slate |-> sl]]
              /\ contexts' = contexts \cup {s}
              /\ UNCHANGED <<sent, lockedBy, stored, received, net, node>>
            BY <1>4 DEF InitSendTx
        <2>2. Known(sl, received) /\ sl.id = s /\ sl \in Slate
            BY OfferIsKnown DEF Known
        <2> HIDE DEF sl
        <2>3. CallsStep /\ calls'[s].pc = "ready" /\ calls'[s].order = o
            BY <1>1, <2>1, <2>2, CallTyped DEF CallsStep, CallRecord, Steps, Early, At
        <2>4. TypeOK'
            BY <2>1, <2>3 DEF IInv, TypeOK, CallsStep, CallRecord, node
        <2>5. ReceivedGrows /\ ReceivedInv'
            BY <2>1, SameReceivedGrows, SameReceivedInvKept
        <2>6. CallsInv' /\ FinalInv' /\ NetInv'
            BY <2>1, <2>3, <2>5, CallsInvKept, FinalInvKept, NetInvKept
        <2>7. SentInv'
            BY <2>1, <2>3, SentInvKept DEF IInv, SentInv
        <2>8. NodeInv'
            BY <2>1 DEF IInv, NodeInv, Final, node
        <2>9. QED
            BY <2>4, <2>5, <2>6, <2>7, <2>8 DEF IInv
    <1>5. QED
        BY <1>3, <1>4

LEMMA CommandKeeps ==
    ASSUME ExchangeAssumption, IInv, NEW s \in Slates, Command(s)
    PROVE  IInv'
    <1> USE DEF Early, Steps
    <1>1. CASE Send(s)
        <2> DEFINE via == Asked(s).method
                   m == Message("bob", via, calls[s].slate)
        <2>1. /\ At(s, "ready")
              /\ net' = net \cup {m}
              /\ \E p \in {"waiting", "sent"} : To(s, p)
              /\ UNCHANGED <<contexts, sent, lockedBy, stored, received, node>>
            BY <1>1 DEF Send
        <2>2. CallsStep
            BY <2>1, ToIsCallsStep DEF At
        <2>3. /\ calls[s].slate \in Slate /\ calls[s].slate.id = s
              /\ Known(calls[s].slate, received) /\ calls[s] \in CallRecord
            BY CallTyped
        <2>4. m \in [to : {"alice", "bob"}, via : Methods, slate : Slate]
            BY <2>3 DEF Message, CallRecord, Order, Asked
        <2>5. m.slate = calls[s].slate
            BY DEF Message
        <2> HIDE DEF m
        <2>6. TypeOK'
            BY <2>1, <2>2, <2>4 DEF IInv, TypeOK, CallsStep, CallRecord, node
        <2>7. ReceivedGrows /\ ReceivedInv'
            BY <2>1, SameReceivedGrows, SameReceivedInvKept
        <2>8. CallsInv' /\ FinalInv'
            BY <2>1, <2>2, <2>7, CallsInvKept, FinalInvKept
        <2>9. NetInv'
            <3>1. ASSUME NEW x \in net' \ net
                  PROVE  /\ Known(x.slate, received')
                         /\ ~At(x.slate.id, "idle")
                         /\ x.slate.coin = calls[x.slate.id].slate.coin
                BY <2>1, <2>3, <2>5 DEF At
            <3>2. QED
                BY <2>2, <2>7, <3>1, NetInvKept
        <2>10. SentInv'
            BY <2>1, <2>2, SentInvKept DEF IInv, SentInv
        <2>11. NodeInv'
            BY <2>1 DEF IInv, NodeInv, Final, node
        <2>12. QED
            BY <2>6, <2>7, <2>8, <2>9, <2>10, <2>11 DEF IInv
    <1>2. ASSUME NEW m \in net, HttpAnswer(s, m)
          PROVE  IInv'
        <2>1. /\ At(s, "waiting") /\ m.slate.id = s
              /\ calls' = [calls EXCEPT ![s] = [calls[s] EXCEPT !.pc = "sent", !.slate = m.slate]]
              /\ net' = net \ {m}
              /\ UNCHANGED <<contexts, sent, lockedBy, stored, received, node>>
            BY <1>2 DEF HttpAnswer, Holding
        <2>2. /\ m.slate \in Slate /\ Known(m.slate, received)
              /\ m.slate.coin = calls[s].slate.coin
            BY <2>1, MessageKnown
        <2> DEFINE r == [calls[s] EXCEPT !.pc = "sent", !.slate = m.slate]
        <2>3. /\ r \in CallRecord /\ r.pc = "sent" /\ r.slate = m.slate
              /\ r.order = calls[s].order
            <3>1. calls[s] \in CallRecord
                BY CallTyped
            <3>2. QED
                BY <2>2, <3>1 DEF CallRecord, Steps
        <2> HIDE DEF r
        <2>4. /\ calls' \in [Slates -> CallRecord]
              /\ calls'[s] = r /\ \A u \in Slates \ {s} : calls'[u] = calls[u]
            BY <2>1, <2>3, CallTyped DEF r
        <2>5. CallsStep
            BY <2>1, <2>2, <2>3, <2>4 DEF CallsStep, At
        <2>6. TypeOK'
            BY <2>1, <2>5 DEF IInv, TypeOK, CallsStep, CallRecord, node
        <2>7. ReceivedGrows /\ ReceivedInv'
            BY <2>1, SameReceivedGrows, SameReceivedInvKept
        <2>8. CallsInv' /\ FinalInv' /\ NetInv'
            BY <2>1, <2>5, <2>7, CallsInvKept, FinalInvKept, NetInvKept
        <2>9. SentInv'
            BY <2>1, <2>5, SentInvKept DEF IInv, SentInv
        <2>10. NodeInv'
            BY <2>1 DEF IInv, NodeInv, Final, node
        <2>11. QED
            BY <2>6, <2>7, <2>8, <2>9, <2>10 DEF IInv
    <1>3. CASE TxLockOutputs(s)
        BY <1>3, LockKeeps
    <1>4. CASE FinalizeAnswer(s)
        <2>1. /\ At(s, "locked") /\ FinalizeTx(calls[s].slate)
              /\ To(s, "finalized") /\ UNCHANGED net
            BY <1>4 DEF FinalizeAnswer
        <2>2. CallsStep
            BY <2>1, ToIsCallsStep
        <2>3. Finalizes(calls[s].slate) /\ contexts' \subseteq contexts
            BY <2>1 DEF FinalizeTx
        <2>4. /\ Known(calls[s].slate, received) /\ calls[s].slate.id = s
            BY CallTyped
        <2>5. QED
            BY <2>1, <2>2, <2>3, <2>4, FinalizesKeeps
    <1>5. CASE PostTx(s)
        <2>1. /\ At(s, "finalized") /\ Final(s)
              /\ pool' = pool \cup {stored[s]}
              /\ To(s, "done")
              /\ UNCHANGED <<contexts, sent, lockedBy, stored, received, net, mined>>
            BY <1>5 DEF PostTx, Accepts, Final
        <2>2. CallsStep
            BY <2>1, ToIsCallsStep
        <2>3. QED
            BY <2>1, <2>2, NodeKeeps
    <1>6. CASE \/ SendFails(s) \/ LockFails(s) \/ FinalizeRefused(s) \/ SkipFinalize(s)
               \/ PostFails(s) \/ Return(s)
        <2>1. /\ \E p \in {"failed", "finalized", "done"} : To(s, p)
              /\ UNCHANGED <<contexts, sent, lockedBy, stored, received, net, node>>
            BY <1>6 DEF SendFails, LockFails, FinalizeRefused, SkipFinalize, PostFails, Return
        <2>2. CallsStep
            BY <2>1, ToIsCallsStep
        <2>3. QED
            BY <2>1, <2>2, CallsOnly
    <1>7. QED
        BY <1>1, <1>2, <1>3, <1>4, <1>5, <1>6 DEF Command

\* FinalizeCrash stops all calls after the transaction is written.
LEMMA FinalizeCrashKeeps ==
    ASSUME ExchangeAssumption, IInv, NEW sl, Known(sl, received),
           sl.coin = calls[sl.id].slate.coin, FinalizeCrash(sl)
    PROVE  IInv'
    <1>1. CallsStep /\ Finalizes(sl) /\ UNCHANGED <<contexts, net>>
        BY CrashIsCallsStep DEF FinalizeCrash
    <1>2. QED
        BY <1>1, FinalizesKeeps

\* A message that is echoed is as known as it was.
LEMMA EchoKeeps ==
    ASSUME IInv, NEW m \in net, NEW to \in {"alice", "bob"},
           net' = net \cup {Message(to, "async", m.slate)},
           UNCHANGED <<alice, received, node>>
    PROVE  IInv'
    <1>1. /\ m.slate \in Slate /\ Known(m.slate, received)
          /\ ~At(m.slate.id, "idle") /\ m.slate.coin = calls[m.slate.id].slate.coin
        BY MessageKnown
    <1>2. net' \subseteq [to : {"alice", "bob"}, via : Methods, slate : Slate]
        BY <1>1 DEF IInv, TypeOK, Message, Methods
    <1>3. \A x \in net' \ net : x.slate = m.slate
        BY DEF Message
    <1>4. received' \in [Slates -> Seq({"open", "cancelled"})] /\ ReceivedGrows /\ ReceivedInv'
        BY SameReceivedGrows, SameReceivedInvKept DEF IInv, TypeOK
    <1>5. QED
        BY <1>1, <1>2, <1>3, <1>4, BobKeeps

LEMMA NextKeeps == ASSUME ExchangeAssumption, IInv, Next PROVE IInv'
    <1>1. ASSUME NEW s \in Slates, Start(s)
          PROVE  IInv'
        BY <1>1, StartKeeps DEF Start
    <1>2. ASSUME NEW s \in Slates, Command(s)
          PROVE  IInv'
        BY <1>2, CommandKeeps
    <1>3. ASSUME NEW m \in net, ListenerFinalizes(m)
          PROVE  IInv'
        <2>1. /\ Finalizes(m.slate) /\ contexts' \subseteq contexts
              /\ UNCHANGED <<calls, net>>
            BY <1>3 DEF ListenerFinalizes, FinalizeTx
        <2>2. Known(m.slate, received) /\ m.slate.coin = calls[m.slate.id].slate.coin
            BY MessageKnown
        <2>3. QED
            BY <2>1, <2>2, SameCallsIsCallsStep, FinalizesKeeps
    <1>4. ASSUME NEW m \in net, ListenerEchoes(m) \/ BobEchoes(m)
          PROVE  IInv'
        BY <1>4, EchoKeeps DEF ListenerEchoes, BobEchoes
    <1>5. ASSUME NEW m \in net, ReceiveTx(m) \/ ReceiveTxFails(m)
          PROVE  IInv'
        BY <1>5, ReceiveKeeps, ReceiveFailsKeeps
    <1>6. ASSUME NEW m \in net, FinalizeFile(m)
          PROVE  IInv'
        <2> DEFINE s == m.slate.id
        <2>1. /\ At(s, "done") /\ To(s, "finalized") /\ UNCHANGED net
              /\ Finalizes(m.slate) /\ contexts' \subseteq contexts
            BY <1>6 DEF FinalizeFile, FinalizeTx
        <2>2. /\ s \in Slates
              /\ Known(m.slate, received) /\ m.slate.coin = calls[s].slate.coin
            BY MessageKnown
        <2> HIDE DEF s
        <2>3. CallsStep
            BY <2>1, <2>2, ToIsCallsStep DEF Early, Steps
        <2>4. QED
            BY <2>1, <2>2, <2>3, FinalizesKeeps DEF s
    <1>7. ASSUME NEW s \in Slates, CancelSend(s)
          PROVE  IInv'
        BY <1>7, CancelSendKeeps
    <1>8. ASSUME NEW s \in Slates, RepostTx(s)
          PROVE  IInv'
        <2>1. /\ Final(s) /\ pool' = pool \cup {stored[s]}
              /\ UNCHANGED <<calls, contexts, sent, lockedBy, stored, received, net, mined>>
            BY <1>8 DEF RepostTx, alice
        <2>2. QED
            BY <2>1, SameCallsIsCallsStep, NodeKeeps
    <1>9. ASSUME NEW s \in Slates, NEW k \in DOMAIN received[s], CancelReceive(s, k)
          PROVE  IInv'
        BY <1>9, CancelReceiveKeeps
    <1>10. CASE Crash
        BY <1>10, CrashIsCallsStep, CallsOnly DEF Crash
    <1>11. ASSUME NEW s \in Slates, FinalizeCrash(calls[s].slate)
           PROVE  IInv'
        BY <1>11, CallTyped, FinalizeCrashKeeps
    <1>12. ASSUME NEW m \in net, FinalizeCrash(m.slate)
           PROVE  IInv'
        BY <1>12, MessageKnown, FinalizeCrashKeeps
    <1>13. ASSUME NEW t \in pool, Mine(t)
           PROVE  IInv'
        <2>1. /\ mined' = mined \cup {t}
              /\ UNCHANGED <<calls, contexts, sent, lockedBy, stored, received, net, pool>>
            BY <1>13 DEF Mine, alice
        <2>2. QED
            BY <2>1, SameCallsIsCallsStep, NodeKeeps
    <1>14. QED
        BY <1>1, <1>2, <1>3, <1>4, <1>5, <1>6, <1>7, <1>8, <1>9, <1>10, <1>11, <1>12, <1>13
           DEF Next, Listener, Receiver, User, Failure

LEMMA IInvHolds == Spec => []IInv
    <1>1. Init => IInv
        BY ExchangeAssumption, ExchangeInit
    <1>2. IInv /\ [Next]_vars => IInv'
        <2>1. ASSUME IInv, UNCHANGED vars
              PROVE  IInv'
            BY <2>1, SameCallsIsCallsStep, CallsOnly DEF vars, alice, node
        <2>2. QED
            BY <2>1, ExchangeAssumption, NextKeeps
    <1>3. QED
        BY <1>1, <1>2, PTL DEF Spec

-----------------------------------------------------------------------------
(* The theorems.                                                           *)

\* The records keep their shapes; no answer names an output beyond Bob's log.
THEOREM ExchangeTyped == Spec => []TypeOK
    <1>1. IInv => TypeOK
        BY DEF IInv
    <1>2. QED
        BY <1>1, IInvHolds, PTL

\* A transaction that was finalized, on whatever path, is in Alice's log and pays
\* exactly one output, which is in Bob's.
THEOREM FinalizedIsInBothLogs == Spec => []FinalIsRecorded
    <1>1. IInv => FinalIsRecorded
        BY DEF IInv, FinalInv, FinalIsRecorded
    <1>2. QED
        BY <1>1, IInvHolds, PTL

\* An estimate, though it may travel, never becomes a send, a lock or a payment.
THEOREM EstimatesSendNothing == Spec => []EstimateIsNoSend
    <1>1. IInv => EstimateIsNoSend
        <2> SUFFICES ASSUME IInv, NEW s \in Slates, Asked(s).estimate
                     PROVE  /\ s \notin contexts
                            /\ sent[s] = "none" /\ ~Final(s)
                            /\ \A c \in Coins : lockedBy[c] # s
            BY DEF EstimateIsNoSend, Asked
        <2>1. s \notin contexts /\ sent[s] = "none"
            BY DEF IInv, SentInv
        <2>2. ~Final(s)
            BY <2>1 DEF IInv, FinalInv
        <2>3. \A c \in Coins : lockedBy[c] # s
            BY <2>1, ExchangeAssumption DEF IInv, SentInv, ExchangeAssumption
        <2>4. QED
            BY <2>1, <2>2, <2>3
    <1>2. QED
        BY <1>1, IInvHolds, PTL

\* However often a request reaches Bob, he has one pending output for it at most.
THEOREM ReceiptsAreOpenOnce == Spec => []OneOpenReceipt
    <1>1. IInv => OneOpenReceipt
        BY DEF IInv, ReceivedInv
    <1>2. QED
        BY <1>1, IInvHolds, PTL

-----------------------------------------------------------------------------
(* SlateExchange implements Payment.                                       *)

\* The refinement mapping, under names.
Recorded == {s \in Slates : received[s] # << >>}
Withdrawn == {s \in Slates : sent[s] = "cancelled" /\ ~Final(s)}
CoinOf == [s \in Slates |-> IF Final(s) THEN stored[s].coin ELSE NoCoin]
Paid == {t.id : t \in mined}

LEMMA MappedInit == ASSUME Init PROVE Promise!Init
    BY DEF Init, Promise!Init, Final, NotStored

\* Steps that are nobody's promise.
LEMMA StepStutters ==
    ASSUME UNCHANGED <<sent, stored, received, mined>>
    PROVE  UNCHANGED Promise!vars
    BY DEF Promise!vars, Final

LEMMA FinalizeIsSign ==
    ASSUME ExchangeAssumption, IInv, NEW sl, Known(sl, received),
           sl.coin = calls[sl.id].slate.coin, Finalizes(sl), UNCHANGED mined
    PROVE  Promise!Sign(sl.id) \/ UNCHANGED Promise!vars
    <1> DEFINE s == sl.id
    <1>1. /\ s \in Slates /\ sent[s] = "open"
          /\ stored' \in [Slates -> Tx \cup {NotStored}]
          /\ \A u \in Slates \ {s} : stored'[u] = stored[u]
          /\ stored'[s].final
          /\ stored'[s].coin \in Coins
          /\ stored'[s].coin = calls[s].slate.coin
          /\ \E k \in DOMAIN received[s] : stored'[s].replies = {k}
        BY FinalizesWrites
    <1>2. UNCHANGED <<sent, received>>
        BY DEF Finalizes
    <1> HIDE DEF s
    <1>3. UNCHANGED <<Recorded, Withdrawn, Paid>>
        BY <1>1, <1>2 DEF Recorded, Withdrawn, Paid, Final
    <1>4. CASE Final(s)
        <2>1. stored[s].coin = stored'[s].coin
            BY <1>1, <1>4 DEF IInv, FinalInv
        <2>2. UNCHANGED CoinOf
            BY <1>1, <1>4, <2>1 DEF CoinOf, Final
        <2>3. QED
            BY <1>3, <2>2 DEF Promise!vars, Recorded, Withdrawn, Paid, CoinOf
    <1>5. CASE ~Final(s)
        <2>1. CoinOf[s] = NoCoin /\ s \in Recorded /\ s \notin Withdrawn
            <3>1. received[s] # << >>
                BY <1>1
            <3>2. QED
                BY <1>1, <1>5, <3>1 DEF CoinOf, Recorded, Withdrawn
        <2>2. CoinOf' = [CoinOf EXCEPT ![s] = stored'[s].coin]
            BY <1>1, <1>5 DEF CoinOf, Final
        <2>3. Promise!Sign(s)
            BY <1>1, <1>3, <2>1, <2>2
               DEF Promise!Sign, Promise!Signed, Recorded, Withdrawn, Paid, CoinOf
        <2>4. QED
            BY <2>3 DEF s
    <1>6. QED
        BY <1>4, <1>5

LEMMA ReceiveIsRecord ==
    ASSUME ExchangeAssumption, IInv, NEW s \in Slates, RecordOutput(s),
           UNCHANGED <<sent, stored, mined>>
    PROVE  Promise!Record(s) \/ UNCHANGED Promise!vars
    <1>1. /\ \A u \in Slates \ {s} : received'[u] = received[u]
          /\ received'[s] # << >>
        BY RecordKeeps
    <1>2. UNCHANGED <<Withdrawn, CoinOf, Paid>>
        BY DEF Withdrawn, CoinOf, Paid, Final
    <1>3. Recorded' = Recorded \cup {s}
        BY <1>1 DEF Recorded
    <1>4. QED
        BY <1>2, <1>3 DEF Promise!Record, Promise!vars, Recorded, Withdrawn, CoinOf, Paid

LEMMA CancelIsWithdraw ==
    ASSUME IInv, NEW s \in Slates, CancelSend(s)
    PROVE  Promise!Withdraw(s) \/ UNCHANGED Promise!vars
    <1>1. /\ sent[s] = "open" /\ sent' = [sent EXCEPT ![s] = "cancelled"]
          /\ UNCHANGED <<stored, received, mined>>
        BY DEF CancelSend, node
    <1>2. UNCHANGED <<Recorded, CoinOf, Paid>>
        BY <1>1 DEF Recorded, CoinOf, Paid, Final
    <1>3. /\ sent'[s] = "cancelled" /\ \A u \in Slates \ {s} : sent'[u] = sent[u]
        BY <1>1 DEF IInv, TypeOK
    <1>4. CASE Final(s)
        <2>1. UNCHANGED Withdrawn
            BY <1>1, <1>3, <1>4 DEF Withdrawn, Final
        <2>2. QED
            BY <1>2, <2>1 DEF Promise!vars, Recorded, Withdrawn, CoinOf, Paid
    <1>5. CASE ~Final(s)
        <2>1. Withdrawn' = Withdrawn \cup {s} /\ s \notin Withdrawn /\ CoinOf[s] = NoCoin
            BY <1>1, <1>3, <1>5 DEF Withdrawn, CoinOf, Final
        <2>2. QED
            BY <1>2, <2>1
               DEF Promise!Withdraw, Promise!Signed, Recorded, Withdrawn, CoinOf, Paid
    <1>6. QED
        BY <1>4, <1>5

\* The transaction mined is the signed one, and the only one of its coin.
LEMMA MineIsPay ==
    ASSUME ExchangeAssumption, IInv, NEW t \in pool, Mine(t)
    PROVE  Promise!Pay(t.id)
    <1>1. /\ \A u \in mined : u.coin # t.coin
          /\ mined' = mined \cup {t}
          /\ UNCHANGED <<sent, stored, received>>
        BY DEF Mine, Accepts, alice
    <1>2. UNCHANGED <<Recorded, Withdrawn, CoinOf>>
        BY <1>1 DEF Recorded, Withdrawn, CoinOf, Final
    <1>3. \A u \in pool \cup mined :
            /\ u.id \in Slates /\ CoinOf[u.id] = u.coin /\ u.coin \in Coins
        <2>1. \A u \in pool \cup mined : u.id \in Slates
            BY DEF IInv, TypeOK, Tx
        <2>2. QED
            BY <2>1 DEF IInv, NodeInv, FinalInv, CoinOf
    <1>4. Paid' = Paid \cup {t.id}
        BY <1>1 DEF Paid
    <1>5. \A q \in Paid : CoinOf[q] # CoinOf[t.id]
        BY <1>1, <1>3 DEF Paid
    <1>6. t.id \in Slates /\ CoinOf[t.id] # NoCoin
        BY <1>3, ExchangeAssumption DEF ExchangeAssumption
    <1>7. t.id \notin Paid
        BY <1>5
    <1>8. QED
        BY <1>2, <1>4, <1>5, <1>6, <1>7
           DEF Promise!Pay, Promise!Signed, Recorded, Withdrawn, CoinOf, Paid

\* Every step is a step of Payment or changes nothing of it.
LEMMA StepImplements ==
    ASSUME ExchangeAssumption, IInv, Next
    PROVE  (\E p \in Slates : \/ Promise!Record(p) \/ Promise!Withdraw(p)
                              \/ Promise!Sign(p) \/ Promise!Pay(p))
           \/ UNCHANGED Promise!vars
    <1> DEFINE Implements ==
                (\E p \in Slates : \/ Promise!Record(p) \/ Promise!Withdraw(p)
                                   \/ Promise!Sign(p) \/ Promise!Pay(p))
                \/ UNCHANGED Promise!vars
    <1>1. ASSUME NEW s \in Slates, Start(s)
          PROVE  Implements
        <2>1. UNCHANGED <<sent, stored, received, mined>>
            BY <1>1 DEF Start, InitEstimate, InitSendTx, node
        <2>2. QED
            BY <2>1, StepStutters
    <1>2. ASSUME NEW s \in Slates, TxLockOutputs(s)
          PROVE  Implements
        <2>1. ~Final(s) /\ sent[s] = "none"
            <3>1. At(s, "sent")
                BY <1>2 DEF TxLockOutputs
            <3>2. QED
                BY <1>2, <3>1, LockKeeps DEF IInv, CallsInv, At, Early
        <2>2. /\ sent' = [sent EXCEPT ![s] = "open"]
              /\ stored' = [stored EXCEPT ![s] = TxOf(calls[s].slate, FALSE)]
              /\ UNCHANGED <<received, mined>>
            BY <1>2 DEF TxLockOutputs, node
        <2>3. /\ sent'[s] = "open" /\ \A u \in Slates \ {s} : sent'[u] = sent[u]
              /\ ~stored'[s].final /\ \A u \in Slates \ {s} : stored'[u] = stored[u]
            BY <2>2 DEF IInv, TypeOK, TxOf
        <2>4. \A u \in Slates : /\ Final(u)' <=> Final(u)
                                /\ Final(u) => stored'[u] = stored[u]
            BY <2>1, <2>3 DEF Final
        <2>5. CoinOf' = CoinOf
            BY <2>4 DEF CoinOf
        <2>6. \A u \in Slates : sent'[u] = "cancelled" <=> sent[u] = "cancelled"
            BY <2>1, <2>3
        <2>7. Withdrawn' = Withdrawn
            BY <2>4, <2>6 DEF Withdrawn
        <2>8. Recorded' = Recorded /\ Paid' = Paid
            BY <2>2 DEF Recorded, Paid
        <2>9. QED
            BY <2>5, <2>7, <2>8 DEF Promise!vars, Recorded, Withdrawn, CoinOf, Paid
    <1>3. ASSUME NEW s \in Slates, FinalizeAnswer(s)
          PROVE  Implements
        <2>1. Finalizes(calls[s].slate) /\ UNCHANGED mined
            BY <1>3 DEF FinalizeAnswer, FinalizeTx, Finalizes, node
        <2>2. /\ Known(calls[s].slate, received) /\ calls[s].slate.id = s
            BY CallTyped
        <2>3. Promise!Sign(s) \/ UNCHANGED Promise!vars
            BY <2>1, <2>2, FinalizeIsSign
        <2>4. QED
            BY <2>3
    <1>4. ASSUME NEW s \in Slates,
                 \/ Send(s) \/ SendFails(s) \/ LockFails(s)
                 \/ FinalizeRefused(s) \/ SkipFinalize(s)
                 \/ PostTx(s) \/ PostFails(s) \/ Return(s)
          PROVE  Implements
        <2>1. UNCHANGED <<sent, stored, received, mined>>
            BY <1>4 DEF Send, SendFails, LockFails, FinalizeRefused, SkipFinalize,
                        PostTx, PostFails, Return, node
        <2>2. QED
            BY <2>1, StepStutters
    <1>5. ASSUME NEW s \in Slates, NEW m \in net, HttpAnswer(s, m)
          PROVE  Implements
        BY <1>5, StepStutters DEF HttpAnswer, node
    <1>6. ASSUME NEW m \in net, Finalizes(m.slate)
          PROVE  Implements
        <2>1. /\ Known(m.slate, received) /\ m.slate.coin = calls[m.slate.id].slate.coin
              /\ m.slate.id \in Slates
            BY MessageKnown
        <2>2. UNCHANGED mined
            BY <1>6 DEF Finalizes, node
        <2>3. Promise!Sign(m.slate.id) \/ UNCHANGED Promise!vars
            BY <1>6, <2>1, <2>2, FinalizeIsSign
        <2>4. QED
            BY <2>1, <2>3
    <1>7. ASSUME NEW m \in net, ListenerEchoes(m) \/ BobEchoes(m)
          PROVE  Implements
        BY <1>7, StepStutters DEF ListenerEchoes, BobEchoes, alice, node
    <1>8. ASSUME NEW m \in net, ReceiveTx(m) \/ ReceiveTxFails(m)
          PROVE  Implements
        <2>1. m.slate.id \in Slates
            BY MessageKnown
        <2>2. RecordOutput(m.slate.id)
            BY <1>8, ReceiveKeeps, ReceiveFailsKeeps
        <2>3. UNCHANGED <<sent, stored, mined>>
            BY <1>8 DEF ReceiveTx, ReceiveTxFails, alice, node
        <2>4. Promise!Record(m.slate.id) \/ UNCHANGED Promise!vars
            BY <2>1, <2>2, <2>3, ReceiveIsRecord
        <2>5. QED
            BY <2>1, <2>4
    <1>9. ASSUME NEW s \in Slates, CancelSend(s)
          PROVE  Implements
        BY <1>9, CancelIsWithdraw
    <1>10. ASSUME NEW s \in Slates, RepostTx(s)
           PROVE  Implements
        BY <1>10, StepStutters DEF RepostTx, alice
    <1>11. ASSUME NEW s \in Slates, NEW k \in DOMAIN received[s], CancelReceive(s, k)
           PROVE  Implements
        <2>1. UNCHANGED <<sent, stored, mined>>
            BY <1>11 DEF CancelReceive, alice, node
        <2>2. \A u \in Slates : received'[u] = << >> <=> received[u] = << >>
            BY <1>11, CancelReceiveKeeps
        <2>3. UNCHANGED <<Recorded, Withdrawn, CoinOf, Paid>>
            BY <2>1, <2>2 DEF Recorded, Withdrawn, CoinOf, Paid, Final
        <2>4. QED
            BY <2>3 DEF Promise!vars, Recorded, Withdrawn, CoinOf, Paid
    <1>12. ASSUME Crash
           PROVE  Implements
        BY <1>12, StepStutters DEF Crash, node
    <1>13. ASSUME NEW s \in Slates, FinalizeCrash(calls[s].slate)
           PROVE  Implements
        <2>1. Finalizes(calls[s].slate) /\ UNCHANGED mined
            BY <1>13 DEF FinalizeCrash, Finalizes, node
        <2>2. /\ Known(calls[s].slate, received) /\ calls[s].slate.id = s
            BY CallTyped
        <2>3. Promise!Sign(s) \/ UNCHANGED Promise!vars
            BY <2>1, <2>2, FinalizeIsSign
        <2>4. QED
            BY <2>3
    <1>14. ASSUME NEW t \in pool, Mine(t)
           PROVE  Implements
        <2>1. t.id \in Slates
            BY DEF IInv, TypeOK, Tx
        <2>2. QED
            BY <1>14, <2>1, MineIsPay
    <1> HIDE DEF Implements
    <1>15. Implements
        <2>1. ASSUME NEW s \in Slates, Command(s)
              PROVE  Implements
            BY <1>2, <1>3, <1>4, <1>5, <2>1 DEF Command
        <2>2. ASSUME NEW m \in net, ListenerFinalizes(m)
              PROVE  Implements
            BY <1>6, <2>2 DEF ListenerFinalizes, FinalizeTx
        <2>3. CASE Listener
            BY <1>7, <2>2, <2>3 DEF Listener
        <2>4. CASE Receiver
            BY <1>7, <1>8, <2>4 DEF Receiver
        <2>5. CASE User
            BY <1>6, <1>9, <1>10, <1>11, <2>5 DEF User, FinalizeFile, FinalizeTx
        <2>6. CASE Failure
            <3>1. ASSUME NEW m \in net, FinalizeCrash(m.slate)
                  PROVE  Implements
                BY <1>6, <3>1 DEF FinalizeCrash
            <3>2. QED
                BY <1>12, <1>13, <2>6, <3>1 DEF Failure
        <2>7. QED
            BY <1>1, <1>14, <2>1, <2>3, <2>4, <2>5, <2>6 DEF Next
    <1>16. QED
        BY <1>15 DEF Implements

\* The two wallets together keep the promise of Payment: recorded before signed,
\* signed for one coin and for good, never signed once taken back, and no coin
\* pays twice, whatever is lost, repeated, overtaken, cancelled or cut short.
THEOREM ExchangeImplementsPayment == Spec => PaymentKept
    <1>1. Init => Promise!Init
        BY MappedInit
    <1>2. IInv /\ [Next]_vars => [Promise!Next]_(Promise!vars)
        <2>1. ASSUME IInv, UNCHANGED vars
              PROVE  UNCHANGED Promise!vars
            BY <2>1, StepStutters DEF vars, alice, node
        <2>2. ASSUME IInv, Next
              PROVE  Promise!Next \/ UNCHANGED Promise!vars
            BY <2>2, ExchangeAssumption, StepImplements DEF Promise!Next
        <2>3. QED
            BY <2>1, <2>2
    <1>3. QED
        BY <1>1, <1>2, IInvHolds, PTL DEF Spec, PaymentKept, Promise!Spec
=============================================================================
