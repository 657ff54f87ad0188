--------------------------- MODULE RecoveryProofs ---------------------------
(***************************************************************************)
(* What holds of Recovery for every value of its constants.                *)
(***************************************************************************)
EXTENDS Recovery, SequenceFacts

-----------------------------------------------------------------------------
(* The inductive invariant.                                                *)

\* What the places of the command line mean for the database and the seed file.
SessionInv ==
    /\ cli.at \in {"off", "write_new", "connect_new", "write", "connect"} => ~connected
    /\ cli.at \in {"connect", "connect_new", "clear", "restore"} => Decrypts(password)
    /\ cli.at \in {"write_new", "write"} => cli.seed \in Seeds
    /\ seedFile.form = "sealed" => seedFile.seed \in Seeds
    /\ SessionCanOpen
    /\ job.kind # "none" => cli.at \in {"ready", "restore"} /\ Decrypts(password)

Shapes ==
    /\ IsFiniteSet(made)
    /\ log \in [Paths -> Seq(TxLogEntry)]
    /\ todo \in Seq(Batch) /\ job \in Job
    /\ job.kind = "none" => todo = <<>> /\ job.found = {}
    /\ job.kind # "none" => job.stats \in [Paths -> Nat]

\* The default account keeps its label.
DefaultIsLabelled == DefaultLabel \in DOMAIN labels /\ labels[DefaultLabel] = 0

\* What the database holds is of the seed in the seed file, outside the part of
\* `seed recover` that has the new seed and the old database.
SeedInv ==
    /\ ~HasSeed \/ cli.at \in {"write_new", "connect_new"} => outs = <<>>
    /\ ~torn /\ cli.at \notin {"write", "connect", "clear"} =>
        \A o \in DOMAIN outs : o.seed = seedFile.seed
    /\ \A o \in job.found : o.seed = seedFile.seed

Planned == ToSet(todo)
Scanned == job.kind # "none" /\ todo # ScanFirst

\* Accounts are finished when all outputs are restored.
FinishOps == {"label", "entry", "index"}
FinishLast(q) ==
    \A i, j \in DOMAIN q : i < j /\ q[i].op \in FinishOps => q[j].op \in FinishOps

\* No label is planned for two accounts.
LabelsAgree(S) ==
    \A b, c \in S : b.op = "label" /\ c.op = "label" /\ b.label = c.label => b.path = c.path

PlanInv ==
    Scanned =>
        /\ [op |-> "scan"] \notin Planned
        /\ \A b \in Planned : b.op = "restore" => b.out \in job.found
        /\ FinishLast(todo) /\ LabelsAgree(Planned)

\* The outputs of a restore so far.
RestoredInv ==
    /\ DOMAIN outs \subseteq job.found
    /\ \A p \in Paths : job.stats[p] # 0 => job.stats[p] \in DOMAIN log[p]
    /\ \A o \in DOMAIN outs :
        /\ outs[o].root = o.path /\ outs[o].status = "Unspent"
        /\ outs[o].entry = job.stats[o.path] /\ job.stats[o.path] # 0

\* What a restore has not done yet for an output it found is planned.
OutputDue(o) == o \in DOMAIN outs \/ [op |-> "restore", out |-> o] \in Planned

EntryDue(o) ==
    \/ [op |-> "entry", path |-> o.path] \in Planned
    \/ LET i == job.stats[o.path] IN
        /\ i \in DOMAIN log[o.path]
        /\ log[o.path][i].type # "reserved" /\ log[o.path][i].confirmed

IndexDue(o) ==
    /\ o.n < idx[o.path] \/ \E b \in Planned : b.op = "index" /\ b.path = o.path
    /\ \A b \in Planned : b.op = "index" /\ b.path = o.path => o.n < b.next

LabelDue(o) ==
    \/ \E b \in Planned : b.op = "label" /\ b.path = o.path
    \/ \E l \in DOMAIN labels :
        /\ labels[l] = o.path
        /\ \A b \in Planned : b.op = "label" /\ b.label = l => b.path = o.path

RestoreInv ==
    job.kind = "restore" =>
        /\ RestoredInv
        /\ todo = ScanFirst => outs = <<>>
        /\ Scanned =>
            /\ \A b \in Planned : b.op \in {"restore", "label", "entry", "index"}
            /\ \A o \in job.found : OutputDue(o) /\ EntryDue(o) /\ IndexDue(o) /\ LabelDue(o)

CheckInv ==
    job.kind = "check" /\ Scanned =>
        /\ \A b \in Planned : b.op = "delete" => job.delete /\ b.out \in job.unconfirmed
        /\ \A o \in job.found :
            \/ o \in DOMAIN outs
            \/ [op |-> "restore", out |-> o] \in Planned
            \/ job.delete /\ o \in job.unconfirmed
        /\ \A o \in job.found \cap DOMAIN outs :
            \/ outs[o].status = "Spent" \/ (job.delete /\ outs[o].status = "Locked")
            => [op |-> "unspend", out |-> o] \in Planned
        /\ job.delete => \A o \in Unconfirmed : [op |-> "delete", out |-> o] \in Planned

IInv ==
    /\ TypeOK /\ Shapes /\ SessionInv /\ DefaultIsLabelled /\ SeedInv
    /\ PlanInv /\ RestoreInv /\ CheckInv /\ EntriesResolve

-----------------------------------------------------------------------------
(* Lemmas about the plan of a scan.                                        *)

Outs(ops, S) == {[op |-> x, out |-> o] : x \in ops, o \in S}

LEMMA OutsHas ==
    ASSUME NEW ops, NEW S, NEW x \in ops, NEW o \in S
    PROVE  [op |-> x, out |-> o] \in Outs(ops, S)
    BY DEF Outs

LEMMA EachOfPlan ==
    ASSUME NEW S \in SUBSET Output, IsFiniteSet(S)
    PROVE  /\ Each(S, CancelAndUnspend) \in Seq(Outs({"cancel", "unspend"}, S))
           /\ ToSet(Each(S, CancelAndUnspend)) = Outs({"cancel", "unspend"}, S)
           /\ Each(S, CancelAndDelete) \in Seq(Outs({"cancel", "delete"}, S))
           /\ ToSet(Each(S, CancelAndDelete)) = Outs({"cancel", "delete"}, S)
           /\ Each(S, RestoreMissing) \in Seq(Outs({"restore"}, S))
           /\ ToSet(Each(S, RestoreMissing)) = Outs({"restore"}, S)
    <1>0. PICK q : q = SetToSeq(S) /\ q \in Seq(S)
        BY SetToSeqIsBijective
    <1>1. /\ Each(S, CancelAndUnspend) \in Seq(Outs({"cancel", "unspend"}, S))
          /\ ToSet(Each(S, CancelAndUnspend)) = Outs({"cancel", "unspend"}, S)
        <2> DEFINE F == [x \in S |-> CancelAndUnspend(x)]
        <2>1. F \in [S -> Seq(Outs({"cancel", "unspend"}, S))]
            <3>1. \A x \in S, y \in {"cancel", "unspend"} :
                    [op |-> y, out |-> x] \in Outs({"cancel", "unspend"}, S)
                BY DEF Outs
            <3>2. QED
                BY <3>1 DEF CancelAndUnspend
        <2>2. \A x \in S : ToSet(F[x]) = Outs({"cancel", "unspend"}, {x})
            BY DEF CancelAndUnspend, Outs, ToSet
        <2>3. Each(S, CancelAndUnspend) = FlatOver(F, S)
            <3>1. [i \in DOMAIN q |-> F[q[i]]] = [i \in DOMAIN q |-> CancelAndUnspend(q[i])]
                BY <1>0
            <3>2. QED
                BY <1>0, <3>1 DEF Each, FlatOver
        <2> HIDE DEF F
        <2>4. UNION {ToSet(F[x]) : x \in S} = Outs({"cancel", "unspend"}, S)
            BY <2>2 DEF Outs
        <2>5. \A T : F \in [S -> Seq(T)] =>
                /\ FlatOver(F, S) \in Seq(T)
                /\ ToSet(FlatOver(F, S)) = UNION {ToSet(F[x]) : x \in S}
            BY FlatOverIs, Zenon
        <2>6. /\ FlatOver(F, S) \in Seq(Outs({"cancel", "unspend"}, S))
              /\ ToSet(FlatOver(F, S)) = UNION {ToSet(F[x]) : x \in S}
            BY <2>1, <2>5, Zenon
        <2>7. QED
            BY <2>3, <2>4, <2>6
    <1>2. /\ Each(S, CancelAndDelete) \in Seq(Outs({"cancel", "delete"}, S))
          /\ ToSet(Each(S, CancelAndDelete)) = Outs({"cancel", "delete"}, S)
        <2> DEFINE F == [x \in S |-> CancelAndDelete(x)]
        <2>1. F \in [S -> Seq(Outs({"cancel", "delete"}, S))]
            <3>1. \A x \in S, y \in {"cancel", "delete"} :
                    [op |-> y, out |-> x] \in Outs({"cancel", "delete"}, S)
                BY DEF Outs
            <3>2. QED
                BY <3>1 DEF CancelAndDelete
        <2>2. \A x \in S : ToSet(F[x]) = Outs({"cancel", "delete"}, {x})
            BY DEF CancelAndDelete, Outs, ToSet
        <2>3. Each(S, CancelAndDelete) = FlatOver(F, S)
            <3>1. [i \in DOMAIN q |-> F[q[i]]] = [i \in DOMAIN q |-> CancelAndDelete(q[i])]
                BY <1>0
            <3>2. QED
                BY <1>0, <3>1 DEF Each, FlatOver
        <2> HIDE DEF F
        <2>4. UNION {ToSet(F[x]) : x \in S} = Outs({"cancel", "delete"}, S)
            BY <2>2 DEF Outs
        <2>5. \A T : F \in [S -> Seq(T)] =>
                /\ FlatOver(F, S) \in Seq(T)
                /\ ToSet(FlatOver(F, S)) = UNION {ToSet(F[x]) : x \in S}
            BY FlatOverIs, Zenon
        <2>6. /\ FlatOver(F, S) \in Seq(Outs({"cancel", "delete"}, S))
              /\ ToSet(FlatOver(F, S)) = UNION {ToSet(F[x]) : x \in S}
            BY <2>1, <2>5, Zenon
        <2>7. QED
            BY <2>3, <2>4, <2>6
    <1>3. /\ Each(S, RestoreMissing) \in Seq(Outs({"restore"}, S))
          /\ ToSet(Each(S, RestoreMissing)) = Outs({"restore"}, S)
        <2> DEFINE F == [x \in S |-> RestoreMissing(x)]
        <2>1. F \in [S -> Seq(Outs({"restore"}, S))]
            BY DEF RestoreMissing, Outs
        <2>2. \A x \in S : ToSet(F[x]) = Outs({"restore"}, {x})
            BY DEF RestoreMissing, Outs, ToSet
        <2>3. Each(S, RestoreMissing) = FlatOver(F, S)
            <3>1. [i \in DOMAIN q |-> F[q[i]]] = [i \in DOMAIN q |-> RestoreMissing(q[i])]
                BY <1>0
            <3>2. QED
                BY <1>0, <3>1 DEF Each, FlatOver
        <2> HIDE DEF F
        <2>4. UNION {ToSet(F[x]) : x \in S} = Outs({"restore"}, S)
            BY <2>2 DEF Outs
        <2>5. \A T : F \in [S -> Seq(T)] =>
                /\ FlatOver(F, S) \in Seq(T)
                /\ ToSet(FlatOver(F, S)) = UNION {ToSet(F[x]) : x \in S}
            BY FlatOverIs, Zenon
        <2>6. /\ FlatOver(F, S) \in Seq(Outs({"restore"}, S))
              /\ ToSet(FlatOver(F, S)) = UNION {ToSet(F[x]) : x \in S}
            BY <2>1, <2>5, Zenon
        <2>7. QED
            BY <2>3, <2>4, <2>6
    <1>4. QED
        BY <1>1, <1>2, <1>3

\* The label numbers of two accounts differ, and none exceeds the highest path.
LEMMA NthIsUnique ==
    ASSUME NEW paths \in Seq(Paths),
           \A i, j \in DOMAIN paths : paths[i] = paths[j] => i = j
    PROVE  \A i \in DOMAIN paths : paths[i] # 0 =>
                /\ Nth(paths, i) \in 1 .. MaxPath
                /\ \A j \in DOMAIN paths : paths[j] # 0 /\ Nth(paths, i) = Nth(paths, j) => i = j
    <1> DEFINE A(i) == {j \in 1 .. i : paths[j] # 0}
    <1>0. Len(paths) \in Nat /\ DOMAIN paths = 1 .. Len(paths) /\ MaxPath \in Nat
        BY RecoveryAssumption DEF RecoveryAssumption
    <1>1. ASSUME NEW i \in DOMAIN paths
          PROVE  /\ IsFiniteSet(A(i)) /\ Cardinality(A(i)) \in 0 .. MaxPath
                 /\ paths[i] # 0 => Cardinality(A(i)) # 0
        <2>1. IsFiniteSet(1 .. i)
            BY <1>0, FS_Interval
        <2>2. IsFiniteSet(A(i))
            <3>1. A(i) \in SUBSET (1 .. i)
                OBVIOUS
            <3>2. QED
                BY <2>1, <3>1, FS_Subset
        <2> DEFINE f == [j \in A(i) |-> paths[j]]
        <2>3. f \in Injection(A(i), 1 .. MaxPath)
            <3>1. \A j \in A(i) : j \in DOMAIN paths /\ paths[j] \in 1 .. MaxPath
                BY <1>0 DEF Paths
            <3>2. QED
                BY <3>1 DEF Injection, IsInjective
        <2>4. IsFiniteSet(1 .. MaxPath) /\ Cardinality(1 .. MaxPath) = MaxPath
            <3>1. 1 \in Int /\ MaxPath \in Int /\ MaxPath \in Nat
                BY <1>0
            <3>2. /\ IsFiniteSet(1 .. MaxPath)
                  /\ Cardinality(1 .. MaxPath) = IF 1 > MaxPath THEN 0 ELSE MaxPath - 1 + 1
                BY <3>1, FS_Interval, Zenon
            <3>3. QED
                BY <3>1, <3>2
        <2> HIDE DEF f
        <2>5. Cardinality(A(i)) <= MaxPath
            BY <2>3, <2>4, FS_Injection
        <2>6. Cardinality(A(i)) \in Nat
            BY <2>2, FS_CardinalityType
        <2>7. paths[i] # 0 => A(i) # {}
            BY <1>0
        <2> HIDE DEF A
        <2>8. QED
            BY <1>0, <2>2, <2>5, <2>6, <2>7, FS_EmptySet
    <1>2. ASSUME NEW i \in DOMAIN paths, NEW j \in DOMAIN paths, paths[j] # 0, i < j
          PROVE  Cardinality(A(i)) < Cardinality(A(j))
        <2>1. A(i) \in SUBSET (A(j) \ {j}) /\ j \in A(j)
            BY <1>0, <1>2
        <2> HIDE DEF A
        <2>2. /\ IsFiniteSet(A(j) \ {j})
              /\ Cardinality(A(j) \ {j}) = Cardinality(A(j)) - 1
            BY <1>1, <2>1, FS_RemoveElement
        <2>3. Cardinality(A(i)) <= Cardinality(A(j) \ {j})
            BY <2>1, <2>2, FS_Subset
        <2>4. Cardinality(A(i)) \in Nat /\ Cardinality(A(j)) \in Nat
            BY <1>1
        <2>5. QED
            BY <2>2, <2>3, <2>4
    <1>3. \A i \in DOMAIN paths : Nth(paths, i) = Cardinality(A(i))
        BY DEF Nth
    <1> HIDE DEF A
    <1> SUFFICES ASSUME NEW i \in DOMAIN paths, paths[i] # 0
                 PROVE  /\ Nth(paths, i) \in 1 .. MaxPath
                        /\ \A j \in DOMAIN paths :
                            paths[j] # 0 /\ Nth(paths, i) = Nth(paths, j) => i = j
        OBVIOUS
    <1>4. Nth(paths, i) \in 1 .. MaxPath
        BY <1>0, <1>1, <1>3
    <1>5. ASSUME NEW j \in DOMAIN paths, paths[j] # 0, Nth(paths, i) = Nth(paths, j)
          PROVE  i = j
        <2>1. Cardinality(A(i)) \in Nat /\ Cardinality(A(i)) = Cardinality(A(j))
            BY <1>1, <1>3, <1>5
        <2>2. ~(i < j) /\ ~(j < i)
            BY <1>2, <1>5, <2>1
        <2>3. QED
            BY <1>0, <2>2
    <1>6. QED
        BY <1>4, <1>5

\* The next child of an account is above the children found.
LEMMA NextChildIsAbove ==
    ASSUME NEW found \in SUBSET Output, NEW o \in Missing(found)
    PROVE  NextChild(found, o.path) \in 0 .. MaxKeys /\ o.n < NextChild(found, o.path)
    <1> DEFINE N == {x.n : x \in {q \in Missing(found) : q.path = o.path}}
    <1>1. MaxKeys \in Nat \ {0}
        BY RecoveryAssumption DEF RecoveryAssumption
    <1>2. \A x \in Missing(found) : x.n \in 0 .. MaxKeys - 1
        BY DEF Missing, Output
    <1>3. N \in SUBSET Nat /\ o.n \in N /\ \A m \in N : m \in 0 .. MaxKeys - 1
        BY <1>1, <1>2
    <1>4. NextChild(found, o.path) = MaxOf(N) + 1
        BY DEF NextChild
    <1> HIDE DEF N
    <1>5. \E n \in N : \A m \in N : m <= n
        <2>1. MaxKeys - 1 \in Nat /\ N # {} /\ \A m \in N : m <= MaxKeys - 1
            BY <1>1, <1>3
        <2>2. QED
            BY <1>3, <2>1, BoundedSetHasMax
    <1>6. MaxOf(N) \in N /\ \A m \in N : m <= MaxOf(N)
        BY <1>3, <1>5 DEF MaxOf
    <1>7. o.n \in Nat /\ MaxOf(N) \in 0 .. MaxKeys - 1 /\ o.n <= MaxOf(N)
        BY <1>1, <1>3, <1>6
    <1>8. QED
        BY <1>1, <1>4, <1>7

\* The batches of the i-th account.
AccountBatches(found, paths, i) ==
    (IF paths[i] # 0
     THEN {[op |-> "label", path |-> paths[i], label |-> RestoredLabel(Nth(paths, i))]}
     ELSE {})
    \cup (IF job.kind = "restore" THEN {[op |-> "entry", path |-> paths[i]]} ELSE {})
    \cup {[op |-> "index", path |-> paths[i], next |-> NextChild(found, paths[i])]}

FinishBatch == {b \in Batch : b.op \in FinishOps}

LEMMA FinishAccountIs ==
    ASSUME NEW found \in SUBSET Output, NEW paths \in Seq(Paths),
           \A i, j \in DOMAIN paths : paths[i] = paths[j] => i = j,
           \A i \in DOMAIN paths : \E o \in Missing(found) : paths[i] = o.path,
           NEW i \in DOMAIN paths
    PROVE  /\ FinishAccount(found, paths, i) \in Seq(FinishBatch)
           /\ ToSet(FinishAccount(found, paths, i)) = AccountBatches(found, paths, i)
    <1> DEFINE p == paths[i]
               l == [op |-> "label", path |-> p, label |-> RestoredLabel(Nth(paths, i))]
               e == [op |-> "entry", path |-> p]
               x == [op |-> "index", path |-> p, next |-> NextChild(found, p)]
               sl == IF p # 0 THEN <<l>> ELSE <<>>
               se == IF job.kind = "restore" THEN <<e>> ELSE <<>>
    <1>1. p \in Paths
        OBVIOUS
    <1>2. NextChild(found, p) \in 0 .. MaxKeys
        BY NextChildIsAbove
    <1>3. p # 0 => Nth(paths, i) \in 1 .. MaxPath
        BY NthIsUnique
    <1>4. FinishAccount(found, paths, i) = sl \o se \o <<x>>
        BY DEF FinishAccount
    <1>5. p # 0 => l \in FinishBatch
        BY <1>1, <1>3 DEF FinishBatch, Batch, FinishOps
    <1>6. e \in FinishBatch
        BY <1>1 DEF FinishBatch, Batch, FinishOps
    <1>7. x \in FinishBatch
        BY <1>1, <1>2 DEF FinishBatch, Batch, FinishOps
    <1>8. AccountBatches(found, paths, i) =
            (IF p # 0 THEN {l} ELSE {}) \cup (IF job.kind = "restore" THEN {e} ELSE {})
            \cup {x}
        BY DEF AccountBatches
    <1> HIDE DEF l, e, x, p
    <1>9. sl \in Seq(FinishBatch) /\ se \in Seq(FinishBatch) /\ <<x>> \in Seq(FinishBatch)
        BY <1>5, <1>6, <1>7
    <1>10. \A b : ToSet(<<b>>) = {b}
        BY DEF ToSet
    <1>11. ToSet(<<>>) = {}
        BY DEF ToSet
    <1>12. /\ ToSet(sl) = IF p # 0 THEN {l} ELSE {}
           /\ ToSet(se) = IF job.kind = "restore" THEN {e} ELSE {}
           /\ ToSet(<<x>>) = {x}
        BY <1>10, <1>11
    <1> HIDE DEF sl, se
    <1>13. sl \o se \in Seq(FinishBatch) /\ (sl \o se) \o <<x>> \in Seq(FinishBatch)
        BY <1>9
    <1>14. \A s, t \in Seq(FinishBatch) : ToSet(s \o t) = ToSet(s) \cup ToSet(t)
        BY ToSetOfConcat
    <1>15. ToSet((sl \o se) \o <<x>>) = ToSet(sl \o se) \cup ToSet(<<x>>)
        BY <1>9, <1>13, <1>14, Zenon
    <1>16. ToSet(sl \o se) = ToSet(sl) \cup ToSet(se)
        BY <1>9, <1>14, Zenon
    <1>17. QED
        BY <1>4, <1>8, <1>12, <1>13, <1>15, <1>16

\* The accounts found are all finished, each with a label of its own.
LEMMA FinishAccountsIs ==
    ASSUME NEW found \in SUBSET Output, IsFiniteSet(found),
           NEW paths \in SetToSeqs({o.path : o \in Missing(found)}),
           NEW F, F = ToSet(FinishAccounts(found, paths))
    PROVE  /\ FinishAccounts(found, paths) \in Seq(FinishBatch)
           /\ LabelsAgree(F)
           /\ \A o \in Missing(found) :
                /\ o.path = 0 \/ \E b \in F : b.op = "label" /\ b.path = o.path
                /\ job.kind = "restore" => [op |-> "entry", path |-> o.path] \in F
                /\ \E b \in F : b.op = "index" /\ b.path = o.path
                /\ \A b \in F : b.op = "index" /\ b.path = o.path => o.n < b.next
    <1> DEFINE P == {o.path : o \in Missing(found)}
    <1>1. P \in SUBSET Paths
        BY DEF Missing, Output
    <1>2. IsFiniteSet(P)
        <2>1. IsFiniteSet(Missing(found))
            BY FS_Subset DEF Missing
        <2> DEFINE f == [o \in Missing(found) |-> o.path]
        <2>2. f \in Surjection(Missing(found), P)
            BY DEF Surjection
        <2>3. QED
            BY <2>1, <2>2, FS_Surjection
    <1> HIDE DEF P
    <1>3. /\ paths \in Seq(P) /\ paths \in Seq(Paths)
          /\ \A i, j \in DOMAIN paths : paths[i] = paths[j] => i = j
          /\ \A x \in P : \E i \in DOMAIN paths : paths[i] = x
        <2>1. paths \in SetToSeqs(P)
            BY DEF P
        <2>2. paths \in Seq(P) => paths \in Seq(Paths)
            BY <1>1
        <2>3. QED
            BY <1>2, <2>1, <2>2, SetToSeqsAreBijective
    <1>4. \A i \in DOMAIN paths : \E o \in Missing(found) : paths[i] = o.path
        BY <1>3 DEF P
    <1> DEFINE q == [i \in DOMAIN paths |-> FinishAccount(found, paths, i)]
    <1>5. \A i \in DOMAIN paths :
            /\ FinishAccount(found, paths, i) \in Seq(FinishBatch)
            /\ ToSet(FinishAccount(found, paths, i)) = AccountBatches(found, paths, i)
        BY <1>3, <1>4, FinishAccountIs
    <1>6. q \in Seq(Seq(FinishBatch))
        <2>1. Len(paths) \in Nat /\ DOMAIN paths = 1 .. Len(paths)
            BY <1>3
        <2>2. q \in [1 .. Len(paths) -> Seq(FinishBatch)]
            BY <1>5, <2>1
        <2> HIDE DEF q
        <2>3. QED
            BY <2>1, <2>2, SeqDef
    <1>7. FinishAccounts(found, paths) = FlattenSeq(q)
        BY DEF FinishAccounts
    <1>8. DOMAIN q = DOMAIN paths
          /\ \A i \in DOMAIN paths : ToSet(q[i]) = AccountBatches(found, paths, i)
        BY <1>5
    <1> HIDE DEF q
    <1>9. /\ FinishAccounts(found, paths) \in Seq(FinishBatch)
          /\ F = UNION {ToSet(q[i]) : i \in DOMAIN q}
        BY <1>6, <1>7, FlattenSeqIs
    <1>10. \A b : b \in F <=> \E i \in DOMAIN paths : b \in AccountBatches(found, paths, i)
        BY <1>8, <1>9
    <1>11. ASSUME NEW i \in DOMAIN paths, NEW b \in AccountBatches(found, paths, i)
           PROVE  /\ b.path = paths[i]
                  /\ b.op = "label" => paths[i] # 0 /\ b.label = RestoredLabel(Nth(paths, i))
                  /\ b.op = "index" => b.next = NextChild(found, paths[i])
        BY DEF AccountBatches
    <1>12. LabelsAgree(F)
        <2> SUFFICES ASSUME NEW b \in F, NEW c \in F,
                            b.op = "label", c.op = "label", b.label = c.label
                     PROVE  b.path = c.path
            BY DEF LabelsAgree
        <2>1. PICK i \in DOMAIN paths : b \in AccountBatches(found, paths, i)
            BY <1>10
        <2>2. PICK j \in DOMAIN paths : c \in AccountBatches(found, paths, j)
            BY <1>10
        <2>3. /\ paths[i] # 0 /\ b.label = RestoredLabel(Nth(paths, i)) /\ b.path = paths[i]
              /\ paths[j] # 0 /\ c.label = RestoredLabel(Nth(paths, j)) /\ c.path = paths[j]
            BY <1>11, <2>1, <2>2
        <2>4. Nth(paths, i) = Nth(paths, j)
            <3>1. \A n : RestoredLabel(n)[2] = n
                BY DEF RestoredLabel
            <3>2. RestoredLabel(Nth(paths, i)) = RestoredLabel(Nth(paths, j))
                BY <2>3
            <3>3. QED
                BY <3>1, <3>2
        <2>5. i = j
            BY <1>3, <2>3, <2>4, NthIsUnique
        <2>6. QED
            BY <2>3, <2>5
    <1>13. ASSUME NEW o \in Missing(found)
           PROVE  /\ o.path = 0 \/ \E b \in F : b.op = "label" /\ b.path = o.path
                  /\ job.kind = "restore" => [op |-> "entry", path |-> o.path] \in F
                  /\ \E b \in F : b.op = "index" /\ b.path = o.path
                  /\ \A b \in F : b.op = "index" /\ b.path = o.path => o.n < b.next
        <2>1. PICK i \in DOMAIN paths : paths[i] = o.path
            BY <1>3 DEF P
        <2>2. ASSUME o.path # 0 PROVE \E b \in F : b.op = "label" /\ b.path = o.path
            <3> DEFINE b == [op |-> "label", path |-> paths[i],
                             label |-> RestoredLabel(Nth(paths, i))]
            <3>1. b \in AccountBatches(found, paths, i)
                BY <2>1, <2>2 DEF AccountBatches
            <3>2. QED
                BY <1>10, <2>1, <3>1
        <2>3. ASSUME job.kind = "restore" PROVE [op |-> "entry", path |-> o.path] \in F
            <3>1. [op |-> "entry", path |-> o.path] \in AccountBatches(found, paths, i)
                BY <2>1, <2>3 DEF AccountBatches
            <3>2. QED
                BY <1>10, <3>1
        <2>4. \E b \in F : b.op = "index" /\ b.path = o.path
            <3> DEFINE b == [op |-> "index", path |-> paths[i],
                             next |-> NextChild(found, paths[i])]
            <3>1. b \in AccountBatches(found, paths, i)
                BY DEF AccountBatches
            <3>2. QED
                BY <1>10, <2>1, <3>1
        <2>5. ASSUME NEW b \in F, b.op = "index", b.path = o.path PROVE o.n < b.next
            <3>1. b.next = NextChild(found, o.path)
                BY <1>10, <1>11, <2>5
            <3>2. QED
                BY <3>1, NextChildIsAbove
        <2>6. QED
            BY <2>2, <2>3, <2>4, <2>5
    <1>14. QED
        BY <1>9, <1>12, <1>13

\* The batches q plans for what a scan found.
PlanOf(q, found) ==
    LET S == ToSet(q) IN
    /\ q \in Seq(Batch)
    /\ [op |-> "scan"] \notin S
    /\ FinishLast(q) /\ LabelsAgree(S)
    /\ \A b \in S :
        /\ b.op = "restore" => b.out \in Missing(found)
        /\ b.op \in {"cancel", "unspend", "delete"} => b.out \in DOMAIN outs
        /\ b.op = "delete" => job.delete /\ b.out \in Unconfirmed
    /\ \A o \in Marked(found, "Spent") : [op |-> "unspend", out |-> o] \in S
    /\ job.delete =>
        /\ \A o \in Marked(found, "Locked") : [op |-> "unspend", out |-> o] \in S
        /\ \A o \in Unconfirmed : [op |-> "delete", out |-> o] \in S
    /\ \A o \in Missing(found) :
        /\ [op |-> "restore", out |-> o] \in S
        /\ o.path = 0 \/ \E b \in S : b.op = "label" /\ b.path = o.path
        /\ job.kind = "restore" => [op |-> "entry", path |-> o.path] \in S
        /\ \E b \in S : b.op = "index" /\ b.path = o.path
        /\ \A b \in S : b.op = "index" /\ b.path = o.path => o.n < b.next

OutBatch == Outs({"cancel", "unspend", "delete", "restore"}, Output)

LEMMA BatchKinds ==
    /\ OutBatch \subseteq Batch /\ FinishBatch \subseteq Batch
    /\ \A b \in OutBatch : b.op \in {"cancel", "unspend", "delete", "restore"} /\ b.out \in Output
    /\ \A b \in FinishBatch : b.op \in FinishOps
    BY DEF OutBatch, FinishBatch, Outs, Batch

\* The batches planned from one listing of the chain (restore.rs) are a plan of
\* it: every output that needs work gets its batches, nothing else does, and the job
\* is finished last.
LEMMA PlanIs ==
    ASSUME NEW found \in SUBSET Output, IsFiniteSet(found),
           DOMAIN outs \in SUBSET Output, IsFiniteSet(DOMAIN outs),
           NEW paths \in SetToSeqs({o.path : o \in Missing(found)})
    PROVE  PlanOf(Plan(found, paths), found)
    <1> DEFINE spent == Marked(found, "Spent")
               miss == Missing(found)
               locked == Marked(found, "Locked")
               A == Each(spent, CancelAndUnspend)
               B == Each(miss, RestoreMissing)
               C == Each(locked, CancelAndUnspend)
               D == Each(Unconfirmed, CancelAndDelete)
               CD == IF job.delete THEN C \o D ELSE <<>>
               E == FinishAccounts(found, paths)
               F == ToSet(E)
               M == (A \o B) \o CD
    <1>1. Plan(found, paths) = M \o E
        BY DEF Plan
    <1>2. /\ spent \in SUBSET Output /\ IsFiniteSet(spent) /\ spent \subseteq DOMAIN outs
          /\ miss \in SUBSET Output /\ IsFiniteSet(miss)
          /\ locked \in SUBSET Output /\ IsFiniteSet(locked) /\ locked \subseteq DOMAIN outs
          /\ Unconfirmed \in SUBSET Output /\ IsFiniteSet(Unconfirmed)
          /\ Unconfirmed \subseteq DOMAIN outs
        <2>1. /\ spent \in SUBSET found /\ miss \in SUBSET found /\ locked \in SUBSET found
              /\ Unconfirmed \in SUBSET DOMAIN outs
              /\ spent \subseteq DOMAIN outs /\ locked \subseteq DOMAIN outs
            BY DEF Marked, Missing, Unconfirmed
        <2> HIDE DEF spent, miss, locked
        <2>2. QED
            BY <2>1, FS_Subset
    <1>3. /\ E \in Seq(FinishBatch)
          /\ LabelsAgree(F)
          /\ \A o \in Missing(found) :
                /\ o.path = 0 \/ \E b \in F : b.op = "label" /\ b.path = o.path
                /\ job.kind = "restore" => [op |-> "entry", path |-> o.path] \in F
                /\ \E b \in F : b.op = "index" /\ b.path = o.path
                /\ \A b \in F : b.op = "index" /\ b.path = o.path => o.n < b.next
        BY FinishAccountsIs
    <1> HIDE DEF spent, miss, locked, E
    <1>4. /\ A \in Seq(Outs({"cancel", "unspend"}, spent))
          /\ ToSet(A) = Outs({"cancel", "unspend"}, spent)
          /\ B \in Seq(Outs({"restore"}, miss)) /\ ToSet(B) = Outs({"restore"}, miss)
          /\ C \in Seq(Outs({"cancel", "unspend"}, locked))
          /\ ToSet(C) = Outs({"cancel", "unspend"}, locked)
          /\ D \in Seq(Outs({"cancel", "delete"}, Unconfirmed))
          /\ ToSet(D) = Outs({"cancel", "delete"}, Unconfirmed)
        BY <1>2, EachOfPlan
    <1>5. /\ Outs({"cancel", "unspend"}, spent) \subseteq OutBatch
          /\ Outs({"restore"}, miss) \subseteq OutBatch
          /\ Outs({"cancel", "unspend"}, locked) \subseteq OutBatch
          /\ Outs({"cancel", "delete"}, Unconfirmed) \subseteq OutBatch
        BY <1>2 DEF Outs, OutBatch
    <1> HIDE DEF A, B, C, D
    <1>6. A \in Seq(OutBatch) /\ B \in Seq(OutBatch) /\ C \in Seq(OutBatch) /\ D \in Seq(OutBatch)
        BY <1>4, <1>5, SeqMonotonic
    <1>7. \A s, t \in Seq(OutBatch) :
            s \o t \in Seq(OutBatch) /\ ToSet(s \o t) = ToSet(s) \cup ToSet(t)
        BY ToSetOfConcat
    <1>8. CD \in Seq(OutBatch) /\ ToSet(CD) = IF job.delete THEN ToSet(C) \cup ToSet(D) ELSE {}
        <2>1. C \o D \in Seq(OutBatch) /\ ToSet(C \o D) = ToSet(C) \cup ToSet(D)
            BY <1>6, <1>7, Zenon
        <2>2. <<>> \in Seq(OutBatch) /\ ToSet(<<>>) = {}
            BY DEF ToSet
        <2>3. QED
            BY <2>1, <2>2
    <1> HIDE DEF CD
    <1>9. M \in Seq(OutBatch) /\ ToSet(M) = ToSet(A) \cup ToSet(B) \cup ToSet(CD)
        <2>1. A \o B \in Seq(OutBatch) /\ ToSet(A \o B) = ToSet(A) \cup ToSet(B)
            BY <1>6, <1>7, Zenon
        <2>2. (A \o B) \o CD \in Seq(OutBatch)
              /\ ToSet((A \o B) \o CD) = ToSet(A \o B) \cup ToSet(CD)
            BY <1>7, <1>8, <2>1, Zenon
        <2>3. QED
            BY <2>1, <2>2
    <1> HIDE DEF M
    <1>10. M \in Seq(Batch) /\ E \in Seq(Batch)
        BY <1>3, <1>9, BatchKinds, SeqMonotonic
    <1> DEFINE q == M \o E
               S == ToSet(q)
    <1>11. q \in Seq(Batch) /\ S = ToSet(M) \cup F
        <2>1. q \in Seq(Batch)
            BY <1>10
        <2>2. QED
            BY <1>10, <2>1, ToSetOfConcat
    <1>12. FinishLast(q)
        <2> SUFFICES ASSUME NEW i \in DOMAIN q, NEW j \in DOMAIN q,
                            i < j, q[i].op \in FinishOps
                     PROVE  q[j].op \in FinishOps
            BY DEF FinishLast
        <2>1. /\ DOMAIN q = 1 .. Len(M) + Len(E) /\ Len(M) \in Nat /\ Len(E) \in Nat
              /\ \A k \in 1 .. Len(M) + Len(E) :
                    q[k] = IF k <= Len(M) THEN M[k] ELSE E[k - Len(M)]
            <3>1. /\ Len(q) = Len(M) + Len(E)
                  /\ \A k \in 1 .. Len(M) + Len(E) :
                        q[k] = IF k <= Len(M) THEN M[k] ELSE E[k - Len(M)]
                BY <1>10, ConcatProperties, Zenon
            <3>2. DOMAIN q = 1 .. Len(q)
                BY <1>11
            <3>3. QED
                BY <1>10, <3>1, <3>2
        <2> HIDE DEF q
        <2>2. CASE i <= Len(M)
            <3>1. q[i] = M[i] /\ i \in 1 .. Len(M)
                BY <2>1, <2>2
            <3>2. M[i] \in OutBatch
                BY <1>9, <3>1
            <3>3. M[i].op \notin FinishOps
                BY <3>2, BatchKinds DEF FinishOps
            <3>4. QED
                BY <3>1, <3>3
        <2>3. CASE ~(i <= Len(M))
            <3>1. q[j] = E[j - Len(M)] /\ j - Len(M) \in 1 .. Len(E)
                BY <2>1, <2>3
            <3>2. E[j - Len(M)] \in FinishBatch
                BY <1>3, <3>1
            <3>3. QED
                BY <3>1, <3>2, BatchKinds
        <2>4. QED
            BY <2>2, <2>3
    <1> HIDE DEF q
    <1>13. /\ \A b \in ToSet(M) : b.op \in {"cancel", "unspend", "delete", "restore"}
           /\ \A b \in F : b.op \in FinishOps
        <2>1. ToSet(M) \subseteq OutBatch /\ F \subseteq FinishBatch
            BY <1>3, <1>9, ToSetOfSeq
        <2>2. QED
            BY <2>1, BatchKinds
    <1> HIDE DEF F
    <1>14. [op |-> "scan"] \notin S
        BY <1>11, <1>13 DEF FinishOps
    <1>15. LabelsAgree(S)
        BY <1>3, <1>11, <1>13 DEF LabelsAgree
    <1>16. \A b \in S :
            /\ b.op = "restore" => b.out \in miss
            /\ b.op \in {"cancel", "unspend", "delete"} => b.out \in DOMAIN outs
            /\ b.op = "delete" => job.delete /\ b.out \in Unconfirmed
        <2> SUFFICES ASSUME NEW b \in S, b.op \in {"cancel", "unspend", "delete", "restore"}
                     PROVE  /\ b.op = "restore" => b.out \in miss
                            /\ b.op \in {"cancel", "unspend", "delete"} => b.out \in DOMAIN outs
                            /\ b.op = "delete" => job.delete /\ b.out \in Unconfirmed
            OBVIOUS
        <2>1. b \in ToSet(M)
            BY <1>11, <1>13 DEF FinishOps
        <2>2. \/ b \in Outs({"cancel", "unspend"}, spent)
              \/ b \in Outs({"restore"}, miss)
              \/ job.delete /\ b \in Outs({"cancel", "unspend"}, locked)
              \/ job.delete /\ b \in Outs({"cancel", "delete"}, Unconfirmed)
            BY <1>4, <1>8, <1>9, <2>1
        <2>3. QED
            BY <1>2, <2>2 DEF Outs
    <1>17. \A o \in spent : [op |-> "unspend", out |-> o] \in S
        <2>1. \A o \in spent : [op |-> "unspend", out |-> o] \in Outs({"cancel", "unspend"}, spent)
            BY OutsHas
        <2>2. QED
            BY <1>4, <1>9, <1>11, <2>1
    <1>18. ASSUME job.delete
           PROVE  /\ \A o \in locked : [op |-> "unspend", out |-> o] \in S
                  /\ \A o \in Unconfirmed : [op |-> "delete", out |-> o] \in S
        <2>1. /\ \A o \in locked :
                    [op |-> "unspend", out |-> o] \in Outs({"cancel", "unspend"}, locked)
              /\ \A o \in Unconfirmed :
                    [op |-> "delete", out |-> o] \in Outs({"cancel", "delete"}, Unconfirmed)
            BY OutsHas
        <2>2. QED
            BY <1>4, <1>8, <1>9, <1>11, <1>18, <2>1
    <1>19. \A o \in miss :
            /\ [op |-> "restore", out |-> o] \in S
            /\ o.path = 0 \/ \E b \in S : b.op = "label" /\ b.path = o.path
            /\ job.kind = "restore" => [op |-> "entry", path |-> o.path] \in S
            /\ \E b \in S : b.op = "index" /\ b.path = o.path
            /\ \A b \in S : b.op = "index" /\ b.path = o.path => o.n < b.next
        <2>1. \A o \in miss : [op |-> "restore", out |-> o] \in Outs({"restore"}, miss)
            BY DEF Outs
        <2>2. \A b \in S : b.op = "index" => b \in F
            BY <1>11, <1>13
        <2>3. F \subseteq S /\ ToSet(B) \subseteq S
            BY <1>9, <1>11
        <2> HIDE DEF S
        <2>4. QED
            BY <1>3, <1>4, <2>1, <2>2, <2>3 DEF miss
    <1>20. QED
        BY <1>1, <1>11, <1>12, <1>14, <1>15, <1>16, <1>17, <1>18, <1>19
           DEF PlanOf, q, spent, miss, locked

-----------------------------------------------------------------------------
(* The steps of the session.                                               *)

\* The session stays, and a call begins only where the command line waits for one.
SessionStays ==
    /\ UNCHANGED session
    /\ torn => torn'
    /\ job'.kind # "none" =>
        job.kind # "none" \/ (cli.at \in {"ready", "restore"} /\ Decrypts(password))

\* The command line is back at its prompt.
BackAtPrompt ==
    /\ cli' = Ready
    /\ UNCHANGED <<seedFile, password, connected, written, db, torn>>
    /\ job.kind # "none" \/ (cli.at \in {"ready", "restore"} /\ Decrypts(password))
    /\ job'.kind = "none"

LEMMA SessionMoves ==
    ASSUME SessionTypeOK, Next
    PROVE  \/ SessionStays
           \/ BackAtPrompt
           \/ SessionStep
           \/ Clear
           \/ RecoverGivesUp
           \/ Crash
    <1>1. CASE \E o \in made : OutputMined(o) \/ OutputLeaves(o)
        BY <1>1 DEF OutputMined, OutputLeaves, SessionStays, session
    <1>2. CASE UseStep
        BY <1>2 DEF UseStep, Receive, LockCoin, Refresh, CreateAccount, SetActiveAccount,
                    SessionStays, session
    <1>3. CASE JobStep
        <2>1. ASSUME NEW delete \in BOOLEAN, CheckRepair(delete)
              PROVE  SessionStays
            BY <2>1 DEF CheckRepair, Free, CanOpen, SessionStays, session
        <2>2. CASE Restore
            <3>1. job.kind = "none" /\ cli.at \in {"ready", "restore"} /\ Decrypts(password)
                BY <2>2 DEF Restore, Free, CanOpen
            <3>2. UNCHANGED <<db, torn>> /\ (UNCHANGED session \/ RestoreRefused)
                BY <2>2 DEF Restore
            <3>3. CASE UNCHANGED session
                BY <3>1, <3>2, <3>3 DEF SessionStays
            <3>4. CASE RestoreRefused
                BY <3>1, <3>2, <3>4 DEF RestoreRefused, BackAtPrompt
            <3>5. QED
                BY <3>2, <3>3, <3>4
        <2>3. CASE Scan
            BY <2>3 DEF Scan, SessionStays, session
        <2>4. CASE CancelEntry \/ UnspendOutput \/ DeleteOutput
                    \/ RestoreForCheck \/ RestoreForRestore
                    \/ SetAcctPath \/ SaveEntry \/ SaveChildIndex
            <3>1. job.kind # "none" /\ Committed
                BY <2>4 DEF CancelEntry, UnspendOutput, DeleteOutput, RestoreForCheck,
                            RestoreForRestore, SetAcctPath, SaveEntry, SaveChildIndex, HeadIs
            <3>2. QED
                BY <3>1 DEF Committed, SessionStays
        <2>5. CASE Finish
            BY <2>5 DEF Finish, BackAtPrompt, Idle
        <2>6. QED
            BY <1>3, <2>1, <2>2, <2>3, <2>4, <2>5 DEF JobStep
    <1>4. CASE JobFails
        BY <1>4 DEF JobFails, Idle, SessionStays, session
    <1>5. QED
        BY <1>1, <1>2, <1>3, <1>4 DEF Next

LEMMA SessionKept ==
    ASSUME SessionTypeOK, SessionInv, Next
    PROVE  SessionTypeOK' /\ SessionInv'
    <1>1. CASE SessionStays
        <2>1. SessionTypeOK'
            BY <1>1 DEF SessionStays, session, SessionTypeOK
        <2>2. SessionInv'
            BY <1>1 DEF SessionStays, session, SessionInv, SessionCanOpen, Decrypts
        <2>3. QED
            BY <2>1, <2>2
    <1>2. CASE BackAtPrompt
        <2>1. cli' = Ready /\ cli'.at = "ready"
            BY <1>2 DEF BackAtPrompt, Ready
        <2>2. SessionTypeOK'
            BY <1>2 DEF BackAtPrompt, Ready, SessionTypeOK, Places
        <2>3. connected => Decrypts(password)
            BY <1>2 DEF BackAtPrompt, SessionInv, SessionCanOpen
        <2>4. SessionInv'
            BY <1>2, <2>1, <2>3
               DEF BackAtPrompt, SessionInv, SessionCanOpen, Decrypts
        <2>5. QED
            BY <2>2, <2>4
    <1>3. CASE SessionStep
        <2>0. UNCHANGED job
            BY <1>3 DEF SessionStep
        <2>1. ASSUME NEW p \in Passwords, Start(p)
              PROVE  SessionTypeOK' /\ SessionInv'
            <3>1. cli' = Ready /\ cli'.at = "ready" /\ UNCHANGED <<seedFile, written>>
                  /\ password' = p /\ connected' = TRUE /\ Decrypts(p)
                BY <2>1 DEF Start, Ready
            <3>2. SessionTypeOK'
                BY <3>1 DEF Ready, SessionTypeOK, Places
            <3>3. SessionInv'
                BY <2>0, <3>1 DEF SessionInv, SessionCanOpen, Decrypts
            <3>4. QED
                BY <3>2, <3>3
        <2>2. ASSUME NEW p \in Passwords, StartRefused(p)
              PROVE  SessionTypeOK' /\ SessionInv'
            BY <2>0, <2>2 DEF StartRefused, session, SessionTypeOK, SessionInv, SessionCanOpen,
                              Decrypts
        <2>3. ASSUME NEW p \in Passwords, PhraseRefused(p), job.kind = "none"
              PROVE  SessionTypeOK' /\ SessionInv'
            BY <2>0, <2>3 DEF PhraseRefused, SessionTypeOK, SessionInv, SessionCanOpen, Decrypts
        <2>4. ASSUME NEW x \in Seeds, NEW p \in Passwords, NEW next \in {"write", "write_new"},
                     SetSeed(x, p, next), connected' = FALSE, job.kind = "none"
              PROVE  SessionTypeOK' /\ SessionInv'
            <3>1. /\ cli' = [cli EXCEPT !.at = next, !.seed = x]
                  /\ cli'.at = next /\ cli'.seed = x
                  /\ password' = p /\ seedFile' = TornFile
                  /\ written < MaxSeedFiles /\ written' = written + 1
                BY <2>4 DEF SetSeed, SessionTypeOK
            <3>2. SessionTypeOK'
                <4>1. seedFile' \in SeedFile /\ connected' \in BOOLEAN
                    BY <2>4, <3>1 DEF TornFile, SeedFile
                <4>2. cli' \in [at : Places, seed : Seeds \cup {NoSeed}, loop : BOOLEAN]
                    BY <3>1 DEF SessionTypeOK, Places
                <4>3. written' \in 0 .. MaxSeedFiles
                    BY <3>1, SessionAssumption DEF SessionTypeOK, SessionAssumption
                <4>4. QED
                    BY <3>1, <4>1, <4>2, <4>3 DEF SessionTypeOK
            <3>3. SessionInv'
                BY <2>0, <2>4, <3>1 DEF SessionInv, SessionCanOpen, TornFile
            <3>4. QED
                BY <3>2, <3>3
        <2>5. ASSUME NEW x \in Seeds, NEW p \in Passwords,
                     InitWallet(x, p) \/ RecoverAtStart(x, p)
              PROVE  SessionTypeOK' /\ SessionInv'
            <3>1. connected' = FALSE /\ job.kind = "none"
                BY <2>5 DEF InitWallet, RecoverAtStart, SessionTypeOK, SessionInv
            <3>2. SetSeed(x, p, "write_new") \/ SetSeed(x, p, "write")
                BY <2>5 DEF InitWallet, RecoverAtStart
            <3>3. QED
                BY <2>4, <3>1, <3>2
        <2>6. ASSUME NEW x \in Seeds, NEW p \in Passwords, SeedRecover(x, p), job.kind = "none"
              PROVE  SessionTypeOK' /\ SessionInv'
            BY <2>4, <2>6 DEF SeedRecover
        <2>7. CASE WriteSeed
            <3>1. /\ cli.at \in {"write_new", "write"} /\ cli.seed \in Seeds
                  /\ seedFile' = [form |-> "sealed", seed |-> cli.seed, pw |-> password]
                  /\ cli' = [cli EXCEPT !.at = IF cli.at = "write" THEN "connect"
                                                                   ELSE "connect_new"]
                  /\ UNCHANGED <<password, connected, written>>
                  /\ ~connected
                BY <2>7 DEF WriteSeed, SessionInv
            <3>2. cli'.at \in {"connect", "connect_new"} /\ job.kind = "none"
                BY <3>1 DEF SessionTypeOK, SessionInv
            <3>3. SessionTypeOK'
                BY <3>1 DEF SessionTypeOK, Places, SeedFile
            <3>4. SessionInv'
                BY <2>0, <3>1, <3>2 DEF SessionInv, SessionCanOpen, Decrypts
            <3>5. QED
                BY <3>3, <3>4
        <2>8. CASE Connect
            <3>1. /\ cli.at \in {"connect_new", "connect"} /\ connected' = TRUE
                  /\ cli' = IF cli.at = "connect" THEN [cli EXCEPT !.at = "clear"] ELSE Ready
                  /\ UNCHANGED <<seedFile, password, written>>
                  /\ Decrypts(password) /\ job.kind = "none"
                BY <2>8 DEF Connect, SessionInv
            <3>2. cli'.at \in {"clear", "ready"}
                BY <3>1 DEF SessionTypeOK, Ready
            <3>3. SessionTypeOK'
                BY <3>1 DEF SessionTypeOK, Places, Ready
            <3>4. SessionInv'
                BY <2>0, <3>1, <3>2 DEF SessionInv, SessionCanOpen, Decrypts
            <3>5. QED
                BY <3>3, <3>4
        <2>9. QED
            BY <1>3, <2>1, <2>2, <2>3, <2>5, <2>6, <2>7, <2>8 DEF SessionStep
    <1>4. CASE Clear
        <2>1. /\ cli.at = "clear" /\ cli' = [cli EXCEPT !.at = "restore"]
              /\ UNCHANGED <<seedFile, password, connected, written, job>>
            BY <1>4 DEF Clear
        <2>2. cli'.at = "restore"
            BY <2>1 DEF SessionTypeOK
        <2>3. SessionTypeOK'
            BY <2>1 DEF SessionTypeOK, Places
        <2>4. SessionInv'
            BY <2>1, <2>2 DEF SessionInv, SessionCanOpen, Decrypts
        <2>5. QED
            BY <2>3, <2>4
    <1>5. CASE RecoverGivesUp
        <2>1. /\ cli.at \in {"write", "connect", "clear", "restore"} /\ cli' = Ready
              /\ connected' = (connected /\ cli.at # "clear")
              /\ UNCHANGED <<seedFile, password, written>> /\ job' = Idle
            BY <1>5 DEF RecoverGivesUp, GiveUp
        <2>2. cli'.at = "ready" /\ job'.kind = "none" /\ cli'.seed = NoSeed
            BY <2>1 DEF Ready, Idle
        <2>3. connected' => Decrypts(password)
            BY <2>1 DEF SessionInv
        <2>4. SessionTypeOK'
            BY <2>1 DEF SessionTypeOK, Places, Ready
        <2>5. SessionInv'
            BY <2>1, <2>2, <2>3 DEF SessionInv, SessionCanOpen, Decrypts
        <2>6. QED
            BY <2>4, <2>5
    <1>6. CASE Crash
        <2>1. /\ cli' = Off /\ password' = NoPassword /\ connected' = FALSE
              /\ UNCHANGED <<seedFile, written>> /\ job' = Idle
            BY <1>6 DEF Crash, SessionLost
        <2>2. cli'.at = "off" /\ job'.kind = "none"
            BY <2>1 DEF Off, Idle
        <2>3. SessionTypeOK'
            BY <2>1 DEF SessionTypeOK, Places, Off
        <2>4. SessionInv'
            BY <2>1, <2>2 DEF SessionInv, SessionCanOpen, Decrypts
        <2>5. QED
            BY <2>3, <2>4
    <1>7. QED
        BY <1>1, <1>2, <1>3, <1>4, <1>5, <1>6, SessionMoves

-----------------------------------------------------------------------------
(* Which steps change what.                                                *)

LEMMA ChainFrame ==
    ASSUME Next
    PROVE  \/ UNCHANGED chain
           \/ \E o \in made : OutputMined(o) \/ OutputLeaves(o)
           \/ \E p \in Paths : Receive(p)
    BY DEF Next, UseStep, JobStep, LockCoin, Refresh, CreateAccount, SetActiveAccount,
           CheckRepair, Restore, Scan, CancelEntry, UnspendOutput, DeleteOutput,
           RestoreForCheck, RestoreForRestore, SetAcctPath, SaveEntry, SaveChildIndex,
           Committed, Finish, SessionStep, Clear, RecoverGivesUp, JobFails, Crash, chain

LEMMA OutsFrame ==
    ASSUME Next
    PROVE  \/ UNCHANGED outs
           \/ \E p \in Paths : Receive(p)
           \/ \E o \in DOMAIN outs : LockCoin(o)
           \/ Refresh \/ \E delete \in BOOLEAN : CheckRepair(delete)
           \/ UnspendOutput \/ DeleteOutput \/ RestoreForCheck \/ RestoreForRestore
           \/ Clear
    BY DEF Next, OutputMined, OutputLeaves, UseStep, JobStep, CreateAccount, SetActiveAccount,
           Restore, Scan, CancelEntry, SetAcctPath, SaveEntry, SaveChildIndex,
           Finish, SessionStep, RecoverGivesUp, JobFails, Crash, db

LEMMA LogFrame ==
    ASSUME Next
    PROVE  \/ UNCHANGED log
           \/ \E p \in Paths : Receive(p)
           \/ \E o \in DOMAIN outs : LockCoin(o)
           \/ Refresh \/ \E delete \in BOOLEAN : CheckRepair(delete)
           \/ CancelEntry \/ RestoreForCheck \/ RestoreForRestore \/ SaveEntry
           \/ Clear
    BY DEF Next, OutputMined, OutputLeaves, UseStep, JobStep, CreateAccount, SetActiveAccount,
           Restore, Scan, UnspendOutput, DeleteOutput, SetAcctPath, SaveChildIndex,
           Finish, SessionStep, RecoverGivesUp, JobFails, Crash, db

LEMMA IndexFrame ==
    ASSUME Next
    PROVE  \/ UNCHANGED idx
           \/ \E p \in Paths : Receive(p)
           \/ SaveChildIndex \/ Clear
    BY DEF Next, OutputMined, OutputLeaves, UseStep, JobStep, LockCoin, Refresh, CreateAccount,
           SetActiveAccount, CheckRepair, Restore, Scan, CancelEntry, UnspendOutput,
           DeleteOutput, RestoreForCheck, RestoreForRestore, SetAcctPath, SaveEntry,
           Finish, SessionStep, RecoverGivesUp, JobFails, Crash, db

LEMMA LabelsFrame ==
    ASSUME Next
    PROVE  \/ UNCHANGED labels
           \/ \E l \in UserLabels : CreateAccount(l)
           \/ SetAcctPath \/ Clear
    BY DEF Next, OutputMined, OutputLeaves, UseStep, JobStep, Receive, LockCoin, Refresh,
           SetActiveAccount, CheckRepair, Restore, Scan, CancelEntry, UnspendOutput,
           DeleteOutput, RestoreForCheck, RestoreForRestore, SaveEntry, SaveChildIndex,
           Finish, SessionStep, RecoverGivesUp, JobFails, Crash, db

\* A recovery that is over, early or not.
JobEnds == job' = Idle /\ todo' = <<>>

\* One of the batches is committed.
BatchStep ==
    \/ CancelEntry \/ UnspendOutput \/ DeleteOutput
    \/ RestoreForCheck \/ RestoreForRestore
    \/ SetAcctPath \/ SaveEntry \/ SaveChildIndex

LEMMA JobFrame ==
    ASSUME SessionInv, Next
    PROVE  \/ UNCHANGED <<job, todo>> /\ (job.kind = "none" \/ UNCHANGED db)
           \/ JobEnds
           \/ \E delete \in BOOLEAN : CheckRepair(delete)
           \/ Restore /\ outs = <<>> /\ Begin("restore", FALSE)
           \/ Scan \/ BatchStep
    <1>1. CASE UseStep
        BY <1>1 DEF UseStep, Receive, LockCoin, Refresh, CreateAccount, SetActiveAccount, Free
    <1>2. CASE JobStep
        BY <1>2 DEF JobStep, BatchStep, Restore, RestoreRefused, Finish, JobEnds
    <1>3. CASE Clear
        BY <1>3 DEF Clear, SessionInv
    <1>4. QED
        BY <1>1, <1>2, <1>3 DEF Next, OutputMined, OutputLeaves, SessionStep, RecoverGivesUp,
                                JobFails, Crash, JobEnds, db

-----------------------------------------------------------------------------
(* Effects of the steps on the records.                                    *)

\* Entries are never lost, reserved again, or no longer confirmed.
LogGrows ==
    /\ log' \in [Paths -> Seq(TxLogEntry)]
    /\ \A a \in Paths : \A i \in DOMAIN log[a] :
        /\ i \in DOMAIN log'[a]
        /\ log[a][i].type # "reserved" => log'[a][i].type # "reserved"
        /\ log[a][i].confirmed => log'[a][i].confirmed

LEMMA SameLogGrows ==
    ASSUME Shapes, UNCHANGED log
    PROVE  LogGrows
    BY DEF Shapes, LogGrows

LEMMA AppendGrows ==
    ASSUME Shapes, NEW a \in Paths, NEW e \in TxLogEntry,
           log' = [log EXCEPT ![a] = Append(@, e)]
    PROVE  /\ LogGrows
           /\ Len(log[a]) + 1 \in DOMAIN log'[a] /\ log'[a][Len(log[a]) + 1] = e
           /\ \A b \in Paths \ {a} : log'[b] = log[b]
    <1>1. log \in [Paths -> Seq(TxLogEntry)] /\ log[a] \in Seq(TxLogEntry)
        BY DEF Shapes
    <1>2. /\ Append(log[a], e) \in Seq(TxLogEntry)
          /\ Len(Append(log[a], e)) = Len(log[a]) + 1
          /\ \A i \in 1 .. Len(log[a]) : Append(log[a], e)[i] = log[a][i]
          /\ Append(log[a], e)[Len(log[a]) + 1] = e
        BY <1>1, AppendProperties
    <1>3. log' \in [Paths -> Seq(TxLogEntry)] /\ log'[a] = Append(log[a], e)
        BY <1>1, <1>2
    <1>4. \A b \in Paths \ {a} : log'[b] = log[b]
        BY <1>1
    <1>5. Len(log[a]) \in Nat /\ DOMAIN log[a] = 1 .. Len(log[a])
        BY <1>1
    <1>6. DOMAIN log'[a] = 1 .. Len(log[a]) + 1
        BY <1>2, <1>3
    <1>7. LogGrows
        BY <1>2, <1>3, <1>4, <1>5, <1>6 DEF LogGrows
    <1>8. QED
        BY <1>2, <1>3, <1>4, <1>5, <1>6, <1>7

\* The outputs are the same ones, in the same accounts, with the same entries.
OutsKept ==
    /\ DOMAIN outs' = DOMAIN outs
    /\ \A o \in DOMAIN outs :
        /\ outs'[o] \in OutputData
        /\ outs'[o].root = outs[o].root /\ outs'[o].entry = outs[o].entry

LEMMA RefreshKeeps ==
    ASSUME TypeOK, Shapes, NEW a \in Paths, NEW all \in BOOLEAN, RefreshOutputs(a, all)
    PROVE  OutsKept /\ LogGrows
    <1>1. OutsKept
        <2>1. \A o \in DOMAIN outs : outs[o] \in OutputData /\ NewStatus(o) \in Status
            BY DEF TypeOK, OutputData, NewStatus, Status
        <2>2. /\ DOMAIN outs' = DOMAIN outs
              /\ \A o \in DOMAIN outs :
                    \/ outs'[o] = [outs[o] EXCEPT !.status = NewStatus(o)]
                    \/ outs'[o] = outs[o]
            BY DEF RefreshOutputs
        <2>3. QED
            BY <2>1, <2>2 DEF OutsKept, OutputData
    <1>2. LogGrows
        <2>1. log \in [Paths -> Seq(TxLogEntry)]
            BY DEF Shapes
        <2>2. PICK confirmed :
                log' = [log EXCEPT ![a] = [i \in DOMAIN @ |->
                          IF i \in confirmed THEN [@[i] EXCEPT !.confirmed = TRUE] ELSE @[i]]]
            BY DEF RefreshOutputs
        <2> DEFINE s == log[a]
                   t == [i \in DOMAIN s |->
                          IF i \in confirmed THEN [s[i] EXCEPT !.confirmed = TRUE] ELSE s[i]]
        <2>3. s \in Seq(TxLogEntry) /\ DOMAIN s = 1 .. Len(s) /\ Len(s) \in Nat
            BY <2>1
        <2>4. \A i \in DOMAIN s : s[i] \in TxLogEntry
            BY <2>3
        <2>5. log' = [log EXCEPT ![a] = t]
            BY <2>1, <2>2
        <2>6. /\ DOMAIN t = DOMAIN s
              /\ \A i \in DOMAIN s :
                    t[i] \in TxLogEntry /\ t[i].type = s[i].type /\ (s[i].confirmed => t[i].confirmed)
            BY <2>4 DEF TxLogEntry
        <2>7. t \in Seq(TxLogEntry)
            <3>1. t \in [1 .. Len(s) -> TxLogEntry]
                BY <2>3, <2>6
            <3> HIDE DEF t, s
            <3>2. QED
                BY <2>3, <3>1, SeqDef
        <2> HIDE DEF t
        <2>8. /\ log' \in [Paths -> Seq(TxLogEntry)]
              /\ log'[a] = t /\ \A b \in Paths \ {a} : log'[b] = log[b]
            BY <2>1, <2>5, <2>7
        <2>9. QED
            BY <2>6, <2>8 DEF LogGrows
    <1>3. QED
        BY <1>1, <1>2

LEMMA CancelGrows ==
    ASSUME TypeOK, Shapes, CancelEntry
    PROVE  LogGrows
    <1> DEFINE o == Head(todo).out
               i == outs[o].entry
    <1>1. CASE i \notin DOMAIN log[o.path]
        BY <1>1, SameLogGrows DEF CancelEntry
    <1>2. CASE i \in DOMAIN log[o.path]
        <2>1. log \in [Paths -> Seq(TxLogEntry)]
            BY DEF Shapes
        <2>2. o.path \in Paths
            <3>1. Head(todo) \in Batch /\ Head(todo).op = "cancel"
                BY HeadTailProperties DEF CancelEntry, HeadIs, Shapes
            <3>2. QED
                BY <3>1 DEF Batch, Output
        <2> DEFINE p == o.path
                   s == log[p]
                   new == CASE s[i].type = "TxSent" -> "TxSentCancelled"
                            [] s[i].type = "TxReceived" -> "TxReceivedCancelled"
                            [] OTHER -> s[i].type
        <2>3. log' = [log EXCEPT ![p][i].type = new]
            BY <1>2, <2>1, <2>2 DEF CancelEntry
        <2>4. s \in Seq(TxLogEntry) /\ s[i] \in TxLogEntry
            BY <1>2, <2>1, <2>2
        <2>5. new \in TxType /\ (s[i].type # "reserved" => new # "reserved")
            BY <2>4 DEF TxLogEntry, TxType
        <2> HIDE DEF new
        <2> DEFINE e == [s[i] EXCEPT !.type = new]
        <2>6. /\ e \in TxLogEntry /\ e.confirmed = s[i].confirmed
              /\ s[i].type # "reserved" => e.type # "reserved"
            BY <2>4, <2>5 DEF TxLogEntry
        <2>7. log' = [log EXCEPT ![p] = [s EXCEPT ![i] = e]]
            BY <2>1, <2>2, <2>3
        <2> HIDE DEF e
        <2>8. /\ [s EXCEPT ![i] = e] \in Seq(TxLogEntry) /\ DOMAIN [s EXCEPT ![i] = e] = DOMAIN s
              /\ \A j \in DOMAIN s : [s EXCEPT ![i] = e][j] = IF j = i THEN e ELSE s[j]
            <3>1. s \in Seq(TxLogEntry) /\ e \in TxLogEntry
                BY <2>4, <2>6
            <3> HIDE DEF s, i
            <3>2. QED
                BY <3>1, ExceptInSeq, Zenon
        <2>9. /\ log' \in [Paths -> Seq(TxLogEntry)]
              /\ log'[p] = [s EXCEPT ![i] = e] /\ \A b \in Paths \ {p} : log'[b] = log[b]
            BY <2>1, <2>2, <2>7, <2>8
        <2>10. QED
            BY <2>1, <2>6, <2>8, <2>9, ZenonT(30) DEF LogGrows
    <1>3. QED
        BY <1>1, <1>2

LEMMA SaveEntryIs ==
    ASSUME TypeOK, Shapes, SaveEntry
    PROVE  /\ Head(todo).path \in Paths
           /\ LogGrows
           /\ LET p == Head(todo).path IN
                job.stats[p] \in DOMAIN log[p] =>
                    log'[p][job.stats[p]] = [type |-> "TxReceived", confirmed |-> TRUE]
    <1> DEFINE p == Head(todo).path
               i == job.stats[p]
               e == [type |-> "TxReceived", confirmed |-> TRUE]
               s == log[p]
    <1>1. log \in [Paths -> Seq(TxLogEntry)]
        BY DEF Shapes
    <1>2. p \in Paths
        <2>1. Head(todo) \in Batch /\ Head(todo).op = "entry"
            BY HeadTailProperties DEF SaveEntry, HeadIs, Shapes
        <2>2. QED
            BY <2>1 DEF Batch
    <1>3. log' = [log EXCEPT ![p][i] = e]
        BY DEF SaveEntry
    <1>4. e \in TxLogEntry /\ e.confirmed = TRUE /\ e.type # "reserved"
        BY DEF TxLogEntry, TxType
    <1> HIDE DEF e, i, p
    <1>5. s \in Seq(TxLogEntry) /\ log' = [log EXCEPT ![p] = [s EXCEPT ![i] = e]]
        BY <1>1, <1>2, <1>3
    <1>6. /\ [s EXCEPT ![i] = e] \in Seq(TxLogEntry) /\ DOMAIN [s EXCEPT ![i] = e] = DOMAIN s
          /\ \A j \in DOMAIN s : [s EXCEPT ![i] = e][j] = IF j = i THEN e ELSE s[j]
        BY <1>4, <1>5, ExceptInSeq, Zenon
    <1>7. /\ log' \in [Paths -> Seq(TxLogEntry)]
          /\ log'[p] = [s EXCEPT ![i] = e] /\ \A b \in Paths \ {p} : log'[b] = log[b]
        BY <1>1, <1>2, <1>5, <1>6
    <1>8. LogGrows
        BY <1>1, <1>4, <1>6, <1>7 DEF LogGrows
    <1>9. i \in DOMAIN log[p] => log'[p][i] = e
        BY <1>6, <1>7
    <1>10. QED
        BY <1>2, <1>8, <1>9 DEF p, i, e

\* The batch at the head of the plan.
LEMMA HeadOfPlan ==
    ASSUME Shapes, NEW op, HeadIs(op)
    PROVE  /\ Head(todo) \in Batch /\ Head(todo).op = op /\ todo # <<>>
           /\ Tail(todo) \in Seq(Batch)
           /\ Planned = {Head(todo)} \cup ToSet(Tail(todo))
           /\ op \in {"cancel", "unspend", "delete", "restore"} => Head(todo).out \in Output
           /\ op \in FinishOps => Head(todo).path \in Paths
    <1>1. todo \in Seq(Batch) /\ todo # <<>> /\ Head(todo).op = op
        BY DEF Shapes, HeadIs
    <1>2. Head(todo) \in Batch /\ Tail(todo) \in Seq(Batch)
        BY <1>1, HeadTailProperties
    <1>3. Planned = {Head(todo)} \cup ToSet(Tail(todo))
        BY <1>1, ToSetOfTail DEF Planned
    <1>4. /\ op \in {"cancel", "unspend", "delete", "restore"} => Head(todo).out \in Output
          /\ op \in FinishOps => Head(todo).path \in Paths
        BY <1>1, <1>2 DEF Batch, FinishOps
    <1>5. QED
        BY <1>1, <1>2, <1>3, <1>4

LEMMA RestoreOutputIs ==
    ASSUME NEW o \in Output, NEW id \in Nat, RestoreOutput(o, id)
    PROVE  /\ DOMAIN outs' = DOMAIN outs \cup {o}
           /\ outs'[o] \in OutputData
           /\ outs'[o].root = o.path /\ outs'[o].status = "Unspent" /\ outs'[o].entry = id
           /\ \A x \in DOMAIN outs \ {o} : outs'[x] = outs[x]
    <1> DEFINE r == [root |-> o.path, status |-> "Unspent", entry |-> id, scanned |-> TRUE]
    <1>1. r \in OutputData
        BY DEF OutputData, Status, Output
    <1>2. outs' = Put(outs, o, r)
        BY DEF RestoreOutput
    <1>3. r.root = o.path /\ r.status = "Unspent" /\ r.entry = id
        OBVIOUS
    <1> HIDE DEF r
    <1>4. /\ DOMAIN outs' = DOMAIN outs \cup {o} /\ outs'[o] = r
          /\ \A x \in DOMAIN outs \ {o} : outs'[x] = outs[x]
        BY <1>2 DEF Put
    <1>5. QED
        BY <1>1, <1>3, <1>4

\* A new output in p, with a new entry that is not reserved; others may have gone.
Received(o, p) ==
    /\ o \in Output /\ o.seed = seedFile.seed
    /\ made' = made \cup {o} /\ utxo' = utxo
    /\ DOMAIN outs' \subseteq DOMAIN outs \cup {o}
    /\ \A x \in DOMAIN outs' \ {o} : outs'[x] = outs[x]
    /\ outs'[o] \in OutputData /\ outs'[o].root = p
    /\ outs'[o].entry \in DOMAIN log'[p] /\ log'[p][outs'[o].entry].type # "reserved"
    /\ LogGrows
    /\ idx' \in [Paths -> 0 .. MaxKeys]

LEMMA ReceiveIs ==
    ASSUME TypeOK, Shapes, SessionInv, NEW p \in Paths, Receive(p)
    PROVE  \E o : Received(o, p)
    <1> DEFINE n == idx[active]
               o == [seed |-> seedFile.seed, path |-> active, n |-> n,
                     use |-> Uses(active, n) + 1]
               id == Len(log[p]) + 1
               e == [type |-> "TxReceived", confirmed |-> FALSE]
               r == [root |-> p, status |-> "Unconfirmed", entry |-> id, scanned |-> FALSE]
    <1>1. /\ Free /\ n < MaxKeys /\ o.use <= MaxUses
          /\ outs' = [q \in (DOMAIN outs \ Overwritten(active, n)) \cup {o} |->
                        IF q = o THEN r ELSE outs[q]]
          /\ log' = [log EXCEPT ![p] = Append(@, e)]
          /\ idx' = [idx EXCEPT ![active] = @ + 1]
          /\ made' = made \cup {o} /\ utxo' = utxo
        BY DEF Receive
    <1>2. /\ MaxKeys \in Nat \ {0} /\ MaxUses \in Nat \ {0}
          /\ active \in Paths /\ n \in 0 .. MaxKeys /\ log[p] \in Seq(TxLogEntry)
        BY RecoveryAssumption DEF RecoveryAssumption, TypeOK
    <1>3. seedFile.seed \in Seeds
        BY <1>1 DEF Free, CanOpen, Decrypts, SessionInv
    <1>4. Uses(active, n) \in Nat
        <2> DEFINE U == {x \in made : x.seed = seedFile.seed /\ x.path = active /\ x.n = n}
        <2>1. U \in SUBSET made /\ IsFiniteSet(made)
            BY DEF Shapes
        <2>2. Uses(active, n) = Cardinality(U)
            BY DEF Uses
        <2> HIDE DEF U
        <2>3. QED
            BY <2>1, <2>2, FS_Subset, FS_CardinalityType
    <1>5. o \in Output
        <2>1. Uses(active, n) + 1 \in 1 .. MaxUses /\ n \in 0 .. MaxKeys - 1
            BY <1>1, <1>2, <1>4
        <2>2. QED
            BY <1>2, <1>3, <2>1 DEF Output
    <1>6. id \in Nat /\ r \in OutputData
        BY <1>2 DEF OutputData, Status
    <1>7. e \in TxLogEntry /\ e.type # "reserved"
        BY DEF TxLogEntry, TxType
    <1>8. LogGrows /\ id \in DOMAIN log'[p] /\ log'[p][id] = e
        <2> HIDE DEF e
        <2>1. QED
            BY <1>1, <1>7, AppendGrows
    <1>9. r.root = p /\ r.entry = id
        OBVIOUS
    <1>10. idx' \in [Paths -> 0 .. MaxKeys]
        BY <1>1, <1>2 DEF TypeOK
    <1>11. o.seed = seedFile.seed
        OBVIOUS
    <1> HIDE DEF o, e, r, id, n
    <1>12. /\ DOMAIN outs' = (DOMAIN outs \ Overwritten(active, n)) \cup {o}
           /\ outs'[o] = r /\ \A x \in DOMAIN outs' \ {o} : outs'[x] = outs[x]
        BY <1>1
    <1>13. Received(o, p)
        BY <1>1, <1>5, <1>6, <1>7, <1>8, <1>9, <1>10, <1>11, <1>12 DEF Received
    <1>14. QED
        BY <1>13

LEMMA LockCoinIs ==
    ASSUME TypeOK, Shapes, NEW o \in DOMAIN outs, LockCoin(o)
    PROVE  /\ DOMAIN outs' = DOMAIN outs
           /\ \A x \in DOMAIN outs \ {o} : outs'[x] = outs[x]
           /\ outs'[o] \in OutputData /\ outs'[o].root = outs[o].root
           /\ outs[o].root \in Paths
           /\ outs'[o].entry \in DOMAIN log'[outs[o].root]
           /\ log'[outs[o].root][outs'[o].entry].type # "reserved"
           /\ LogGrows
    <1> DEFINE a == outs[o].root
               id == Len(log[a]) + 1
               e == [type |-> "TxSent", confirmed |-> FALSE]
    <1>1. /\ outs' = [outs EXCEPT ![o].status = "Locked", ![o].entry = id]
          /\ log' = [log EXCEPT ![a] = Append(@, e)]
        BY DEF LockCoin
    <1>2. outs[o] \in OutputData /\ a \in Paths
        BY DEF TypeOK, OutputData
    <1>3. e \in TxLogEntry /\ e.type # "reserved"
        BY DEF TxLogEntry, TxType
    <1>4. log[a] \in Seq(TxLogEntry) /\ id \in Nat
        BY <1>2 DEF TypeOK
    <1> HIDE DEF id, e
    <1>5. /\ DOMAIN outs' = DOMAIN outs
          /\ \A x \in DOMAIN outs \ {o} : outs'[x] = outs[x]
          /\ outs'[o] = [outs[o] EXCEPT !.status = "Locked", !.entry = id]
        BY <1>1
    <1>6. outs'[o] \in OutputData /\ outs'[o].root = a /\ outs'[o].entry = id
        BY <1>2, <1>4, <1>5 DEF OutputData, Status
    <1> HIDE DEF a
    <1>7. LogGrows /\ Len(log[a]) + 1 \in DOMAIN log'[a] /\ log'[a][Len(log[a]) + 1] = e
        BY <1>1, <1>2, <1>3, AppendGrows
    <1>8. QED
        BY <1>2, <1>3, <1>5, <1>6, <1>7 DEF id, a

LEMMA UnspendIs ==
    ASSUME TypeOK, UnspendOutput
    PROVE  /\ DOMAIN outs' = DOMAIN outs
           /\ \A x \in DOMAIN outs :
                /\ outs'[x] \in OutputData
                /\ outs'[x].root = outs[x].root /\ outs'[x].entry = outs[x].entry
                /\ outs'[x].status = IF x = Head(todo).out THEN "Unspent" ELSE outs[x].status
    <1> DEFINE o == Head(todo).out
    <1>1. outs' = [outs EXCEPT ![o].status = "Unspent"]
        BY DEF UnspendOutput
    <1>2. \A x \in DOMAIN outs : outs[x] \in OutputData
        BY DEF TypeOK
    <1> HIDE DEF o
    <1>3. /\ DOMAIN outs' = DOMAIN outs
          /\ \A x \in DOMAIN outs :
                outs'[x] = IF x = o THEN [outs[o] EXCEPT !.status = "Unspent"] ELSE outs[x]
        BY <1>1
    <1>4. QED
        BY <1>2, <1>3 DEF OutputData, Status, o

\* A check restores o with an entry of its own.
RestoredByCheck(o) ==
    /\ o \in Output /\ o.path \in Paths
    /\ DOMAIN outs' = DOMAIN outs \cup {o}
    /\ outs'[o] \in OutputData
    /\ outs'[o].root = o.path /\ outs'[o].status = "Unspent"
    /\ outs'[o].entry \in DOMAIN log'[o.path]
    /\ log'[o.path][outs'[o].entry].type # "reserved"
    /\ \A x \in DOMAIN outs \ {o} : outs'[x] = outs[x]
    /\ LogGrows

LEMMA RestoreForCheckIs ==
    ASSUME TypeOK, Shapes, RestoreForCheck
    PROVE  RestoredByCheck(Head(todo).out)
    <1> DEFINE o == Head(todo).out
               p == o.path
               id == Len(log[p]) + 1
               e == [type |-> "TxReceived", confirmed |-> TRUE]
    <1>1. /\ HeadIs("restore")
          /\ log' = [log EXCEPT ![p] = Append(@, e)]
          /\ RestoreOutput(o, id)
        BY DEF RestoreForCheck
    <1>2. o \in Output /\ p \in Paths
        BY <1>1, HeadOfPlan DEF Output
    <1>3. log[p] \in Seq(TxLogEntry) /\ id \in Nat
        BY <1>2 DEF TypeOK
    <1>4. e \in TxLogEntry /\ e.type # "reserved"
        BY DEF TxLogEntry, TxType
    <1> HIDE DEF e
    <1>5. LogGrows /\ id \in DOMAIN log'[p] /\ log'[p][id] = e
        BY <1>1, <1>2, <1>4, AppendGrows
    <1> HIDE DEF id, o
    <1>6. /\ DOMAIN outs' = DOMAIN outs \cup {o}
          /\ outs'[o] \in OutputData
          /\ outs'[o].root = o.path /\ outs'[o].status = "Unspent" /\ outs'[o].entry = id
          /\ \A x \in DOMAIN outs \ {o} : outs'[x] = outs[x]
        BY <1>1, <1>2, <1>3, RestoreOutputIs
    <1>7. RestoredByCheck(o)
        BY <1>2, <1>4, <1>5, <1>6 DEF RestoredByCheck
    <1>8. QED
        BY <1>7 DEF o

\* A restore restores o under the id it took for the account, or takes one.
RestoredByRestore(o, p, id) ==
    /\ o \in Output /\ p \in Paths /\ id \in Nat /\ p = o.path
    /\ id = IF job.stats[p] = 0 THEN Len(log[p]) + 1 ELSE job.stats[p]
    /\ DOMAIN outs' = DOMAIN outs \cup {o}
    /\ outs'[o] \in OutputData
    /\ outs'[o].root = p /\ outs'[o].status = "Unspent" /\ outs'[o].entry = id
    /\ \A x \in DOMAIN outs \ {o} : outs'[x] = outs[x]
    /\ LogGrows
    /\ job.stats[p] = 0 => id \in DOMAIN log'[p] /\ id # 0
    /\ job.stats[p] # 0 => log' = log
    /\ \A b \in Paths \ {p} : log'[b] = log[b]
    /\ job' \in Job
    /\ job'.kind = job.kind /\ job'.delete = job.delete
    /\ job'.found = job.found /\ job'.unconfirmed = job.unconfirmed
    /\ job'.stats \in [Paths -> Nat] /\ job'.stats[p] = id
    /\ \A b \in Paths \ {p} : job'.stats[b] = job.stats[b]

LEMMA RestoreForRestoreIs ==
    ASSUME TypeOK, Shapes, RestoreForRestore
    PROVE  \E p, id : RestoredByRestore(Head(todo).out, p, id)
    <1>0. PICK o, p, id : /\ o = Head(todo).out /\ p = o.path
                          /\ id = IF job.stats[p] = 0 THEN Len(log[p]) + 1 ELSE job.stats[p]
        OBVIOUS
    <1> DEFINE e == [type |-> "reserved", confirmed |-> FALSE]
    <1>1. /\ HeadIs("restore")
          /\ log' = IF job.stats[p] = 0 THEN [log EXCEPT ![p] = Append(@, e)] ELSE log
          /\ job' = [job EXCEPT !.stats[p] = id]
          /\ RestoreOutput(o, id)
        BY <1>0 DEF RestoreForRestore, IsFirstOf
    <1>2. o \in Output /\ p \in Paths
        BY <1>0, <1>1, HeadOfPlan DEF Output
    <1>3. job \in Job /\ job.stats \in [Paths -> Nat]
        BY <1>1 DEF Shapes, HeadIs
    <1>4. log[p] \in Seq(TxLogEntry) /\ id \in Nat
        BY <1>0, <1>2, <1>3 DEF TypeOK
    <1>5. e \in TxLogEntry
        BY DEF TxLogEntry, TxType
    <1> HIDE DEF e
    <1>6. /\ LogGrows
          /\ job.stats[p] = 0 => id \in DOMAIN log'[p] /\ id # 0
          /\ \A b \in Paths \ {p} : log'[b] = log[b]
        <2>1. CASE job.stats[p] = 0
            <3>1. log' = [log EXCEPT ![p] = Append(@, e)] /\ id = Len(log[p]) + 1
                BY <1>0, <1>1, <2>1
            <3>2. Len(log[p]) \in Nat
                BY <1>4
            <3>3. /\ LogGrows /\ Len(log[p]) + 1 \in DOMAIN log'[p]
                  /\ \A b \in Paths \ {p} : log'[b] = log[b]
                BY <1>2, <1>5, <3>1, AppendGrows
            <3>4. QED
                BY <3>1, <3>2, <3>3
        <2>2. CASE job.stats[p] # 0
            BY <1>1, <2>2, SameLogGrows
        <2>3. QED
            BY <2>1, <2>2
    <1>7. /\ DOMAIN outs' = DOMAIN outs \cup {o}
          /\ outs'[o] \in OutputData
          /\ outs'[o].root = o.path /\ outs'[o].status = "Unspent" /\ outs'[o].entry = id
          /\ \A x \in DOMAIN outs \ {o} : outs'[x] = outs[x]
        BY <1>0, <1>1, <1>2, <1>4, RestoreOutputIs
    <1>8. /\ job' \in Job
          /\ job'.kind = job.kind /\ job'.delete = job.delete
          /\ job'.found = job.found /\ job'.unconfirmed = job.unconfirmed
          /\ job'.stats = [job.stats EXCEPT ![p] = id]
        BY <1>1, <1>2, <1>3, <1>4 DEF Job
    <1>9. /\ job'.stats \in [Paths -> Nat] /\ job'.stats[p] = id
          /\ \A b \in Paths \ {p} : job'.stats[b] = job.stats[b]
        BY <1>2, <1>3, <1>4, <1>8
    <1>10. RestoredByRestore(o, p, id)
        BY <1>0, <1>1, <1>2, <1>4, <1>6, <1>7, <1>8, <1>9 DEF RestoredByRestore
    <1>11. QED
        BY <1>0, <1>10

-----------------------------------------------------------------------------
(* The types and shapes are kept.                                          *)

LEMMA ChainKept ==
    ASSUME TypeOK, Shapes, SessionInv, Next
    PROVE  /\ made \subseteq made' /\ made' \subseteq Output /\ utxo' \subseteq made'
           /\ IsFiniteSet(made')
    <1>0. made \subseteq Output /\ utxo \subseteq made /\ IsFiniteSet(made)
        BY DEF TypeOK, Shapes
    <1>1. CASE UNCHANGED chain
        BY <1>0, <1>1 DEF chain
    <1>2. CASE \E o \in made : OutputMined(o) \/ OutputLeaves(o)
        BY <1>0, <1>2 DEF OutputMined, OutputLeaves
    <1>3. ASSUME NEW p \in Paths, Receive(p)
          PROVE  /\ made \subseteq made' /\ made' \subseteq Output /\ utxo' \subseteq made'
                 /\ IsFiniteSet(made')
        <2>1. PICK o : Received(o, p)
            BY <1>3, ReceiveIs
        <2>2. o \in Output /\ made' = made \cup {o} /\ utxo' = utxo
            BY <2>1 DEF Received
        <2>3. IsFiniteSet(made \cup {o})
            BY <1>0, FS_AddElement
        <2>4. QED
            BY <1>0, <2>2, <2>3
    <1>4. QED
        BY <1>1, <1>2, <1>3, ChainFrame

\* An output to restore is one that was found.
LEMMA RestoredWasFound ==
    ASSUME Shapes, PlanInv, HeadIs("restore")
    PROVE  Head(todo).out \in job.found
    <1>1. Head(todo).op = "restore" /\ Head(todo) \in Planned /\ job.kind # "none"
        BY HeadOfPlan DEF HeadIs
    <1>2. todo # ScanFirst
        BY <1>1 DEF ScanFirst
    <1>3. QED
        BY <1>1, <1>2 DEF PlanInv, Scanned

LEMMA OutsTyped ==
    ASSUME TypeOK, Shapes, SessionInv, PlanInv, Next
    PROVE  DOMAIN outs' \subseteq made' /\ \A o \in DOMAIN outs' : outs'[o] \in OutputData
    <1> DEFINE Typed == DOMAIN outs' \subseteq made' /\ \A o \in DOMAIN outs' : outs'[o] \in OutputData
    <1>0. /\ DOMAIN outs \subseteq made /\ \A o \in DOMAIN outs : outs[o] \in OutputData
          /\ made \subseteq made' /\ job.found \subseteq made /\ active \in Paths
        BY ChainKept DEF TypeOK
    <1>1. CASE UNCHANGED outs
        BY <1>0, <1>1
    <1>2. ASSUME NEW p \in Paths, Receive(p) PROVE Typed
        <2>1. PICK o : Received(o, p)
            BY <1>2, ReceiveIs
        <2>2. /\ made' = made \cup {o} /\ outs'[o] \in OutputData
              /\ DOMAIN outs' \subseteq DOMAIN outs \cup {o}
              /\ \A x \in DOMAIN outs' \ {o} : outs'[x] = outs[x]
            BY <2>1 DEF Received
        <2>3. QED
            BY <1>0, <2>2
    <1>3. ASSUME NEW o \in DOMAIN outs, LockCoin(o) PROVE Typed
        BY <1>0, <1>3, LockCoinIs
    <1>4. ASSUME OutsKept PROVE Typed
        BY <1>0, <1>4 DEF OutsKept
    <1>5. CASE Refresh
        BY <1>0, <1>4, <1>5, RefreshKeeps DEF Refresh
    <1>6. ASSUME NEW delete \in BOOLEAN, CheckRepair(delete) PROVE Typed
        BY <1>0, <1>4, <1>6, RefreshKeeps DEF CheckRepair
    <1>7. CASE UnspendOutput
        BY <1>0, <1>7, UnspendIs
    <1>8. CASE DeleteOutput
        BY <1>0, <1>8 DEF DeleteOutput
    <1>9. CASE RestoreForCheck
        <2>1. Head(todo).out \in made
            BY <1>0, <1>9, RestoredWasFound DEF RestoreForCheck
        <2>2. QED
            BY <1>0, <1>9, <2>1, RestoreForCheckIs DEF RestoredByCheck
    <1>10. CASE RestoreForRestore
        <2>1. Head(todo).out \in made
            BY <1>0, <1>10, RestoredWasFound DEF RestoreForRestore
        <2>2. PICK p, id : RestoredByRestore(Head(todo).out, p, id)
            BY <1>10, RestoreForRestoreIs
        <2>3. QED
            BY <1>0, <2>1, <2>2 DEF RestoredByRestore
    <1>11. CASE Clear
        BY <1>11 DEF Clear
    <1> HIDE DEF Typed
    <1>12. Typed
        BY <1>1, <1>2, <1>3, <1>5, <1>6, <1>7, <1>8, <1>9, <1>10, <1>11, OutsFrame DEF Typed
    <1>13. QED
        BY <1>12 DEF Typed

LEMMA LogTyped ==
    ASSUME TypeOK, Shapes, SessionInv, Next
    PROVE  log' \in [Paths -> Seq(TxLogEntry)] /\ (LogGrows \/ Clear)
    <1>0. active \in Paths
        BY DEF TypeOK
    <1>1. CASE UNCHANGED log
        BY <1>1, SameLogGrows DEF LogGrows
    <1>2. ASSUME NEW p \in Paths, Receive(p) PROVE LogGrows
        BY <1>2, ReceiveIs DEF Received
    <1>3. ASSUME NEW o \in DOMAIN outs, LockCoin(o) PROVE LogGrows
        BY <1>3, LockCoinIs
    <1>4. CASE Refresh
        BY <1>0, <1>4, RefreshKeeps DEF Refresh, LogGrows
    <1>5. ASSUME NEW delete \in BOOLEAN, CheckRepair(delete) PROVE LogGrows
        BY <1>0, <1>5, RefreshKeeps DEF CheckRepair
    <1>6. CASE CancelEntry
        BY <1>6, CancelGrows DEF LogGrows
    <1>7. ASSUME RestoreForCheck PROVE LogGrows
        BY <1>7, RestoreForCheckIs DEF RestoredByCheck
    <1>8. ASSUME RestoreForRestore PROVE LogGrows
        BY <1>8, RestoreForRestoreIs DEF RestoredByRestore
    <1>9. CASE SaveEntry
        BY <1>9, SaveEntryIs DEF LogGrows
    <1>10. CASE Clear
        <2>1. <<>> \in Seq(TxLogEntry)
            OBVIOUS
        <2>2. QED
            BY <1>10, <2>1 DEF Clear, NoLog
    <1>11. LogGrows => log' \in [Paths -> Seq(TxLogEntry)]
        BY DEF LogGrows
    <1>12. QED
        BY <1>1, <1>2, <1>3, <1>4, <1>5, <1>6, <1>7, <1>8, <1>9, <1>10, <1>11, LogFrame

LEMMA IndexTyped ==
    ASSUME TypeOK, Shapes, SessionInv, Next
    PROVE  idx' \in [Paths -> 0 .. MaxKeys]
    <1>1. CASE UNCHANGED idx
        BY <1>1 DEF TypeOK
    <1>2. ASSUME NEW p \in Paths, Receive(p) PROVE idx' \in [Paths -> 0 .. MaxKeys]
        BY <1>2, ReceiveIs DEF Received
    <1>3. CASE SaveChildIndex
        <2>1. HeadIs("index") /\ idx' = [idx EXCEPT ![Head(todo).path] = Head(todo).next]
            BY <1>3 DEF SaveChildIndex
        <2>2. Head(todo) \in Batch /\ Head(todo).op = "index"
            BY <2>1, HeadOfPlan
        <2>3. Head(todo).next \in 0 .. MaxKeys
            BY <2>2 DEF Batch
        <2>4. QED
            BY <2>1, <2>3 DEF TypeOK
    <1>4. CASE Clear
        BY <1>4, RecoveryAssumption DEF RecoveryAssumption, Clear, Unused
    <1>5. QED
        BY <1>1, <1>2, <1>3, <1>4, IndexFrame

\* The highest path is that of some label, which the default account ensures.
LEMMA HighestPathIs ==
    ASSUME TypeOK, DefaultIsLabelled
    PROVE  HighestPath \in Paths
    <1> DEFINE T == {labels[l] : l \in DOMAIN labels}
    <1>1. MaxPath \in Nat /\ \A l \in DOMAIN labels : labels[l] \in Paths
        BY RecoveryAssumption DEF RecoveryAssumption, TypeOK
    <1>2. T \in SUBSET Nat /\ T # {} /\ \A m \in T : m <= MaxPath
        BY <1>1 DEF DefaultIsLabelled, Paths
    <1>3. HighestPath = MaxOf(T)
        BY DEF HighestPath
    <1> HIDE DEF T
    <1>4. \E n \in T : \A m \in T : m <= n
        BY <1>1, <1>2, BoundedSetHasMax
    <1>5. MaxOf(T) \in T
        BY <1>2, <1>4 DEF MaxOf
    <1>6. MaxOf(T) \in Nat /\ MaxOf(T) <= MaxPath
        BY <1>2, <1>5
    <1>7. QED
        BY <1>1, <1>3, <1>6 DEF Paths

LEMMA LabelsTyped ==
    ASSUME TypeOK, Shapes, DefaultIsLabelled, Next
    PROVE  /\ DOMAIN labels' \subseteq Labels /\ \A l \in DOMAIN labels' : labels'[l] \in Paths
           /\ DefaultIsLabelled'
    <1>0. /\ DOMAIN labels \subseteq Labels /\ \A l \in DOMAIN labels : labels[l] \in Paths
          /\ DefaultLabel \in DOMAIN labels /\ labels[DefaultLabel] = 0
          /\ MaxPath \in Nat
        BY RecoveryAssumption DEF RecoveryAssumption, TypeOK, DefaultIsLabelled
    <1>1. CASE UNCHANGED labels
        BY <1>0, <1>1 DEF DefaultIsLabelled
    <1>2. ASSUME NEW l, NEW p \in Paths, l \in Labels, l # DefaultLabel,
                 labels' = Put(labels, l, p)
          PROVE  /\ DOMAIN labels' \subseteq Labels
                 /\ \A x \in DOMAIN labels' : labels'[x] \in Paths
                 /\ DefaultIsLabelled'
        <2>1. /\ DOMAIN labels' = DOMAIN labels \cup {l} /\ labels'[l] = p
              /\ \A x \in DOMAIN labels \ {l} : labels'[x] = labels[x]
            BY <1>2 DEF Put
        <2>2. DefaultLabel \in DOMAIN labels' /\ labels'[DefaultLabel] = 0
            BY <1>0, <1>2, <2>1
        <2>3. QED
            BY <1>0, <1>2, <2>1, <2>2 DEF DefaultIsLabelled
    <1>3. ASSUME NEW l \in UserLabels, CreateAccount(l)
          PROVE  /\ DOMAIN labels' \subseteq Labels
                 /\ \A x \in DOMAIN labels' : labels'[x] \in Paths
                 /\ DefaultIsLabelled'
        <2>1. HighestPath < MaxPath /\ labels' = Put(labels, l, HighestPath + 1)
              /\ l \notin DOMAIN labels
            BY <1>3 DEF CreateAccount
        <2>2. HighestPath + 1 \in Paths
            BY <1>0, <2>1, HighestPathIs DEF Paths
        <2>3. QED
            BY <1>0, <1>2, <2>1, <2>2 DEF Labels
    <1>4. CASE SetAcctPath
        <2>1. HeadIs("label") /\ labels' = Put(labels, Head(todo).label, Head(todo).path)
            BY <1>4 DEF SetAcctPath
        <2>2. Head(todo) \in Batch /\ Head(todo).op = "label"
            BY <2>1, HeadOfPlan
        <2>3. /\ Head(todo).path \in Paths
              /\ Head(todo).label \in {RestoredLabel(i) : i \in 1 .. MaxPath}
            BY <2>2 DEF Batch
        <2>4. \A i \in 1 .. MaxPath : RestoredLabel(i) # DefaultLabel
            BY DEF RestoredLabel, DefaultLabel
        <2>5. Head(todo).label \in Labels /\ Head(todo).label # DefaultLabel
            BY <2>3, <2>4 DEF Labels
        <2>6. QED
            BY <1>2, <2>1, <2>3, <2>5
    <1>5. CASE Clear
        <2>1. labels' = [l \in {DefaultLabel} |-> 0]
            BY <1>5 DEF Clear, DefaultLabels
        <2>2. DOMAIN labels' = {DefaultLabel} /\ labels'[DefaultLabel] = 0
            BY <2>1
        <2>3. QED
            BY <1>0, <2>2 DEF Labels, Paths, DefaultIsLabelled
    <1>6. QED
        BY <1>1, <1>3, <1>4, <1>5, LabelsFrame

\* The scan is over: the plan is for what it found.
ScannedNow ==
    /\ PlanOf(todo', MyOutputs)
    /\ job \in Job /\ job' = [job EXCEPT !.found = MyOutputs, !.unconfirmed = Unconfirmed]
    /\ job.kind # "none" /\ todo = ScanFirst
    /\ MyOutputs \subseteq made /\ UNCHANGED <<session, db, active, jobs, chain, torn>>

LEMMA ScanIs ==
    ASSUME TypeOK, Shapes, Scan
    PROVE  ScannedNow
    <1>1. /\ MyOutputs \subseteq made /\ made \subseteq Output /\ IsFiniteSet(made)
          /\ DOMAIN outs \subseteq made
        BY DEF MyOutputs, TypeOK, Shapes
    <1>2. /\ MyOutputs \in SUBSET Output /\ IsFiniteSet(MyOutputs)
          /\ DOMAIN outs \in SUBSET Output /\ IsFiniteSet(DOMAIN outs)
        BY <1>1, FS_Subset
    <1>3. PICK paths \in SetToSeqs({o.path : o \in Missing(MyOutputs)}) :
            todo' = Plan(MyOutputs, paths)
        BY DEF Scan
    <1>4. PlanOf(Plan(MyOutputs, paths), MyOutputs)
        BY <1>2, PlanIs
    <1>5. PlanOf(todo', MyOutputs)
        BY <1>3, <1>4 DEF PlanOf
    <1>6. /\ job.kind # "none" /\ todo = ScanFirst
          /\ job' = [job EXCEPT !.found = MyOutputs, !.unconfirmed = Unconfirmed]
          /\ UNCHANGED <<session, db, active, jobs, chain, torn>>
        BY DEF Scan
    <1>7. QED
        BY <1>1, <1>5, <1>6 DEF ScannedNow, Shapes

\* A batch is committed: the plan goes on with the rest.
BatchDone ==
    /\ job.kind # "none" /\ todo # <<>> /\ todo' = Tail(todo)
    /\ Head(todo) \in Batch /\ Tail(todo) \in Seq(Batch)
    /\ Head(todo).op # "scan" /\ todo # ScanFirst
    /\ Planned = {Head(todo)} \cup ToSet(Tail(todo))
    /\ job' \in Job /\ job'.kind = job.kind
    /\ job'.found = job.found /\ job'.unconfirmed = job.unconfirmed
    /\ job'.delete = job.delete /\ job'.stats \in [Paths -> Nat]
    /\ UNCHANGED <<session, active, jobs, chain, torn>>

LEMMA BatchStepIs ==
    ASSUME TypeOK, Shapes, BatchStep
    PROVE  BatchDone
    <1>1. PICK op : HeadIs(op) /\ op # "scan"
        <2>1. \/ HeadIs("cancel") \/ HeadIs("unspend") \/ HeadIs("delete") \/ HeadIs("restore")
              \/ HeadIs("label") \/ HeadIs("entry") \/ HeadIs("index")
            BY DEF BatchStep, CancelEntry, UnspendOutput, DeleteOutput, RestoreForCheck,
                   RestoreForRestore, SetAcctPath, SaveEntry, SaveChildIndex
        <2>2. QED
            BY <2>1
    <1>2. /\ Head(todo) \in Batch /\ Head(todo).op = op /\ todo # <<>>
          /\ Tail(todo) \in Seq(Batch)
          /\ Planned = {Head(todo)} \cup ToSet(Tail(todo))
        BY <1>1, HeadOfPlan
    <1>3. todo # ScanFirst
        BY <1>1, <1>2 DEF ScanFirst
    <1>4. Committed
        BY DEF BatchStep, CancelEntry, UnspendOutput, DeleteOutput, RestoreForCheck,
               RestoreForRestore, SetAcctPath, SaveEntry, SaveChildIndex
    <1>5. /\ job' \in Job /\ job'.kind = job.kind
          /\ job'.found = job.found /\ job'.unconfirmed = job.unconfirmed
          /\ job'.delete = job.delete /\ job'.stats \in [Paths -> Nat]
        <2>1. CASE RestoreForRestore
            BY <2>1, RestoreForRestoreIs DEF RestoredByRestore
        <2>2. CASE ~RestoreForRestore
            <3>1. job' = job
                BY <2>2 DEF BatchStep, CancelEntry, UnspendOutput, DeleteOutput,
                            RestoreForCheck, SetAcctPath, SaveEntry, SaveChildIndex
            <3>2. job \in Job /\ job.stats \in [Paths -> Nat]
                BY <1>1 DEF HeadIs, Shapes
            <3>3. QED
                BY <3>1, <3>2
        <2>3. QED
            BY <2>1, <2>2
    <1>6. QED
        BY <1>1, <1>2, <1>3, <1>4, <1>5 DEF BatchDone, HeadIs, Committed

\* A restore or a check begins.
Begun(kind, delete) ==
    /\ kind \in {"check", "restore"} /\ delete \in BOOLEAN
    /\ job' = [kind |-> kind, delete |-> delete, found |-> {}, unconfirmed |-> {},
               stats |-> Unused]
    /\ todo' = ScanFirst

JobShape ==
    /\ job' \in Job /\ todo' \in Seq(Batch) /\ job'.found \subseteq made'
    /\ job'.kind = "none" => todo' = <<>> /\ job'.found = {}
    /\ job'.kind # "none" => job'.stats \in [Paths -> Nat]

LEMMA BegunShape ==
    ASSUME NEW kind, NEW delete, Begun(kind, delete)
    PROVE  JobShape
    <1>1. ScanFirst \in Seq(Batch)
        BY DEF ScanFirst, Batch
    <1>2. Unused \in [Paths -> Nat]
        BY DEF Unused
    <1> HIDE DEF Unused, ScanFirst
    <1>3. QED
        BY <1>1, <1>2 DEF Begun, JobShape, Job

LEMMA JobTyped ==
    ASSUME TypeOK, Shapes, SessionInv, Next
    PROVE  JobShape
    <1>0. made \subseteq made' /\ job.found \subseteq made /\ made' \subseteq Output
        BY ChainKept DEF TypeOK
    <1>1. CASE UNCHANGED <<job, todo>>
        BY <1>0, <1>1 DEF Shapes, JobShape
    <1>2. CASE JobEnds
        <2>1. <<>> \in Seq(Batch)
            OBVIOUS
        <2>2. QED
            BY <1>2, <2>1 DEF JobEnds, Idle, JobShape, Job
    <1>3. ASSUME NEW delete \in BOOLEAN, CheckRepair(delete)
          PROVE  JobShape
        <2>1. Begun("check", delete)
            BY <1>3 DEF CheckRepair, Begin, Begun
        <2>2. QED
            BY <2>1, BegunShape
    <1>4. ASSUME Begin("restore", FALSE) PROVE JobShape
        <2>1. Begun("restore", FALSE)
            BY <1>4 DEF Begin, Begun
        <2>2. QED
            BY <2>1, BegunShape
    <1>5. CASE Scan
        <2>1. ScannedNow
            BY <1>5, ScanIs
        <2>2. /\ job \in Job
              /\ job' = [job EXCEPT !.found = MyOutputs, !.unconfirmed = Unconfirmed]
              /\ job.kind # "none" /\ todo' \in Seq(Batch) /\ MyOutputs \subseteq made
              /\ MyOutputs \subseteq Output
            BY <1>0, <2>1 DEF ScannedNow, PlanOf
        <2>3. Unconfirmed \subseteq Output /\ job.stats \in [Paths -> Nat]
            BY <2>2 DEF Unconfirmed, TypeOK, Shapes
        <2>4. job' \in Job /\ job'.kind = job.kind /\ job'.found = MyOutputs
              /\ job'.stats = job.stats
            BY <2>2, <2>3 DEF Job
        <2>5. QED
            BY <1>0, <2>2, <2>3, <2>4 DEF JobShape
    <1>6. CASE BatchStep
        <2>1. BatchDone
            BY <1>6, BatchStepIs
        <2>2. QED
            BY <1>0, <2>1 DEF BatchDone, JobShape
    <1>7. QED
        BY <1>1, <1>2, <1>3, <1>4, <1>5, <1>6, JobFrame

LEMMA RestTyped ==
    ASSUME TypeOK, Shapes, SessionInv, Next
    PROVE  active' \in Paths /\ jobs' \in 0 .. MaxJobs /\ torn' \in BOOLEAN
    <1>0. /\ active \in Paths /\ jobs \in 0 .. MaxJobs /\ torn \in BOOLEAN
          /\ \A l \in DOMAIN labels : labels[l] \in Paths
          /\ 0 \in Paths /\ MaxJobs \in Nat
        BY RecoveryAssumption DEF RecoveryAssumption, TypeOK, Paths
    <1>1. CASE UseStep
        BY <1>0, <1>1 DEF UseStep, Receive, LockCoin, Refresh, CreateAccount, SetActiveAccount
    <1>2. ASSUME NEW kind, NEW delete, Begin(kind, delete)
          PROVE  jobs' \in 0 .. MaxJobs
        BY <1>0, <1>2 DEF Begin
    <1>3. CASE JobStep
        <2>1. UNCHANGED <<active, torn>>
            BY <1>3 DEF JobStep, CheckRepair, Restore, Scan, CancelEntry, UnspendOutput,
                        DeleteOutput, RestoreForCheck, RestoreForRestore, SetAcctPath,
                        SaveEntry, SaveChildIndex, Committed, Finish
        <2>2. jobs' = jobs \/ \E kind, delete : Begin(kind, delete)
            BY <1>3 DEF JobStep, CheckRepair, Restore, RestoreRefused, Scan, CancelEntry,
                        UnspendOutput, DeleteOutput, RestoreForCheck, RestoreForRestore,
                        SetAcctPath, SaveEntry, SaveChildIndex, Committed, Finish
        <2>3. QED
            BY <1>0, <1>2, <2>1, <2>2
    <1>4. QED
        BY <1>0, <1>1, <1>3
           DEF Next, OutputMined, OutputLeaves, SessionStep, Clear, RecoverGivesUp,
               JobFails, Crash

LEMMA TypesKept ==
    ASSUME TypeOK, Shapes, SessionInv, DefaultIsLabelled, PlanInv, Next
    PROVE  TypeOK' /\ Shapes'
    <1>1. SessionTypeOK'
        BY SessionKept DEF TypeOK
    <1>2. made' \subseteq Output /\ utxo' \subseteq made' /\ IsFiniteSet(made')
        BY ChainKept
    <1>3. DOMAIN outs' \subseteq made' /\ \A o \in DOMAIN outs' : outs'[o] \in OutputData
        BY OutsTyped
    <1>4. log' \in [Paths -> Seq(TxLogEntry)]
        BY LogTyped
    <1>5. idx' \in [Paths -> 0 .. MaxKeys]
        BY IndexTyped
    <1>6. DOMAIN labels' \subseteq Labels /\ \A l \in DOMAIN labels' : labels'[l] \in Paths
        BY LabelsTyped
    <1>7. JobShape
        BY JobTyped
    <1>8. active' \in Paths /\ jobs' \in 0 .. MaxJobs /\ torn' \in BOOLEAN
        BY RestTyped
    <1>9. \A a \in Paths : log'[a] \in Seq(TxLogEntry)
        BY <1>4
    <1>10. job' \in Job /\ job'.found \subseteq made' /\ todo' \in Seq(Batch)
        BY <1>7 DEF JobShape
    <1>11. TypeOK'
        BY <1>1, <1>2, <1>3, <1>5, <1>6, <1>8, <1>9, <1>10 DEF TypeOK
    <1>12. Shapes'
        BY <1>2, <1>4, <1>7 DEF Shapes, JobShape
    <1>13. QED
        BY <1>11, <1>12

-----------------------------------------------------------------------------
(* The database is of the seed.                                            *)

\* What a step adds to the outputs is of the seed, and there is a seed to add to.
LEMMA OutsOfSeed ==
    ASSUME TypeOK, Shapes, SessionInv, SeedInv, PlanInv, Next
    PROVE  /\ \A o \in DOMAIN outs' : o \in DOMAIN outs \/ o.seed = seedFile.seed
           /\ ~HasSeed => UNCHANGED outs \/ outs' = <<>>
    <1> DEFINE OfSeed == \A o \in DOMAIN outs' : o \in DOMAIN outs \/ o.seed = seedFile.seed
    <1>1. ASSUME Free PROVE HasSeed
        BY <1>1 DEF Free, CanOpen, Decrypts, HasSeed
    <1>2. ASSUME job.kind # "none" PROVE HasSeed
        BY <1>2 DEF SessionInv, Decrypts, HasSeed
    <1>3. ASSUME NEW p \in Paths, Receive(p) PROVE OfSeed /\ HasSeed
        <2>1. PICK o : Received(o, p)
            BY <1>3, ReceiveIs
        <2>2. DOMAIN outs' \subseteq DOMAIN outs \cup {o} /\ o.seed = seedFile.seed
            BY <2>1 DEF Received
        <2>3. HasSeed
            BY <1>1, <1>3 DEF Receive
        <2>4. QED
            BY <2>2, <2>3
    <1>4. ASSUME NEW o \in DOMAIN outs, LockCoin(o) PROVE OfSeed /\ HasSeed
        <2>1. DOMAIN outs' = DOMAIN outs
            BY <1>4, LockCoinIs
        <2>2. HasSeed
            BY <1>1, <1>4 DEF LockCoin
        <2>3. QED
            BY <2>1, <2>2
    <1>5. ASSUME Refresh \/ \E delete \in BOOLEAN : CheckRepair(delete) PROVE OfSeed /\ HasSeed
        <2>1. Free /\ \E all \in BOOLEAN : RefreshOutputs(active, all)
            BY <1>5 DEF Refresh, CheckRepair
        <2>2. OutsKept
            BY <2>1, RefreshKeeps DEF TypeOK
        <2>3. QED
            BY <1>1, <2>1, <2>2 DEF OutsKept
    <1>6. ASSUME UnspendOutput \/ DeleteOutput PROVE OfSeed /\ HasSeed
        <2>1. job.kind # "none"
            BY <1>6 DEF UnspendOutput, DeleteOutput, HeadIs
        <2>2. DOMAIN outs' \subseteq DOMAIN outs
            BY <1>6, UnspendIs DEF DeleteOutput
        <2>3. QED
            BY <1>2, <2>1, <2>2
    <1>7. ASSUME RestoreForCheck \/ RestoreForRestore PROVE OfSeed /\ HasSeed
        <2>1. HeadIs("restore")
            BY <1>7 DEF RestoreForCheck, RestoreForRestore
        <2>2. job.kind # "none" /\ Head(todo).out \in job.found
            BY <2>1, RestoredWasFound DEF HeadIs
        <2>3. DOMAIN outs' = DOMAIN outs \cup {Head(todo).out}
            BY <1>7, RestoreForCheckIs, RestoreForRestoreIs DEF RestoredByCheck, RestoredByRestore
        <2>4. QED
            BY <1>2, <2>2, <2>3 DEF SeedInv
    <1>8. CASE Clear
        BY <1>8 DEF Clear
    <1>9. QED
        BY <1>3, <1>4, <1>5, <1>6, <1>7, <1>8, OutsFrame

LEMMA FoundOfSeed ==
    ASSUME TypeOK, Shapes, SessionInv, SeedInv, Next
    PROVE  \A o \in job'.found : o.seed = seedFile'.seed
    <1>1. CASE UNCHANGED job
        <2>1. CASE job.kind = "none"
            <3>1. job.found = {}
                BY <2>1 DEF Shapes
            <3>2. QED
                BY <1>1, <3>1
        <2>2. CASE job.kind # "none"
            <3>1. cli.at \in {"ready", "restore"}
                BY <2>2 DEF SessionInv
            <3>2. UNCHANGED seedFile
                BY <1>1, <2>2, <3>1, SessionMoves
                   DEF SessionStays, BackAtPrompt, SessionStep, Clear, RecoverGivesUp, Crash,
                       session, TypeOK, Start, StartRefused, PhraseRefused, InitWallet,
                       RecoverAtStart, SeedRecover, WriteSeed, Connect, GiveUp, SessionLost
            <3>3. QED
                BY <1>1, <3>2 DEF SeedInv
        <2>3. QED
            BY <2>1, <2>2
    <1>2. ASSUME job'.found = {}
          PROVE  \A o \in job'.found : o.seed = seedFile'.seed
        BY <1>2
    <1>3. CASE Scan
        <2>1. ScannedNow
            BY <1>3, ScanIs
        <2>2. job'.found = MyOutputs /\ seedFile' = seedFile
            BY <2>1 DEF ScannedNow, session, Job
        <2>3. QED
            BY <2>2 DEF MyOutputs
    <1>4. CASE BatchStep
        <2>1. BatchDone
            BY <1>4, BatchStepIs
        <2>2. job'.found = job.found /\ seedFile' = seedFile
            BY <2>1 DEF BatchDone, session
        <2>3. QED
            BY <2>2 DEF SeedInv
    <1>5. ASSUME JobEnds \/ (\E kind, delete : Begin(kind, delete))
          PROVE  job'.found = {}
        BY <1>5 DEF JobEnds, Idle, Begin
    <1>6. \A delete : CheckRepair(delete) => Begin("check", delete)
        BY DEF CheckRepair
    <1>7. QED
        BY <1>1, <1>2, <1>3, <1>4, <1>5, <1>6, JobFrame

LEMMA SeedKept ==
    ASSUME TypeOK, Shapes, SessionInv, SeedInv, PlanInv, Next
    PROVE  SeedInv'
    <1> DEFINE S1 == ~HasSeed \/ cli.at \in {"write_new", "connect_new"} => outs = <<>>
               S2 == ~torn /\ cli.at \notin {"write", "connect", "clear"} =>
                        \A o \in DOMAIN outs : o.seed = seedFile.seed
    <1>0. S1 /\ S2
        BY DEF SeedInv
    <1>1. ASSUME S1' /\ S2' PROVE SeedInv'
        BY <1>1, FoundOfSeed DEF SeedInv
    <1>2. /\ \A o \in DOMAIN outs' : o \in DOMAIN outs \/ o.seed = seedFile.seed
          /\ ~HasSeed => UNCHANGED outs \/ outs' = <<>>
        BY OutsOfSeed
    <1>3. ASSUME outs' = <<>> PROVE S1' /\ S2'
        BY <1>3
    <1>4. CASE SessionStays
        <2>1. UNCHANGED <<seedFile, cli>> /\ (torn => torn') /\ (HasSeed' <=> HasSeed)
            BY <1>4 DEF SessionStays, session, HasSeed
        <2>2. S2'
            BY <1>0, <1>2, <2>1
        <2>3. S1'
            <3>1. ASSUME ~HasSeed PROVE outs' = <<>>
                BY <1>0, <1>2, <3>1
            <3>2. ASSUME cli.at \in {"write_new", "connect_new"}, HasSeed PROVE outs' = <<>>
                <4>1. job.kind = "none" /\ ~Free /\ outs = <<>>
                    BY <1>0, <3>2 DEF SessionInv, Free, CanOpen
                <4>2. UNCHANGED outs
                    BY <3>2, <4>1, OutsFrame
                       DEF Receive, LockCoin, Refresh, CheckRepair, UnspendOutput,
                           DeleteOutput, RestoreForCheck, RestoreForRestore, HeadIs, Clear
                <4>3. QED
                    BY <4>1, <4>2
            <3>3. QED
                BY <2>1, <3>1, <3>2
        <2>4. QED
            BY <1>1, <2>2, <2>3
    <1>5. CASE BackAtPrompt
        <2>1. /\ UNCHANGED <<seedFile, outs, torn>> /\ cli'.at = "ready"
              /\ HasSeed' <=> HasSeed
            BY <1>5 DEF BackAtPrompt, Ready, db, HasSeed
        <2>2. cli.at \in {"ready", "restore"}
            BY <1>5 DEF BackAtPrompt, SessionInv
        <2>3. QED
            BY <1>0, <1>1, <2>1, <2>2
    <1>6. CASE SessionStep
        <2>0. UNCHANGED <<outs, torn>>
            BY <1>6 DEF SessionStep, db
        <2>1. ASSUME NEW p \in Passwords, Start(p) PROVE S1' /\ S2'
            <3>1. UNCHANGED seedFile /\ cli'.at = "ready" /\ cli.at = "off" /\ (HasSeed' <=> HasSeed)
                BY <2>1 DEF Start, Ready, HasSeed
            <3>2. QED
                BY <1>0, <2>0, <3>1
        <2>2. ASSUME NEW p \in Passwords, StartRefused(p) \/ PhraseRefused(p) PROVE S1' /\ S2'
            <3>1. UNCHANGED <<seedFile, cli>> /\ (HasSeed' <=> HasSeed)
                BY <2>2 DEF StartRefused, PhraseRefused, session, HasSeed
            <3>2. QED
                BY <1>0, <2>0, <3>1
        <2>3. ASSUME NEW x \in Seeds, NEW p \in Passwords, InitWallet(x, p) PROVE S1' /\ S2'
            <3>1. ~HasSeed
                BY <2>3 DEF InitWallet
            <3>2. QED
                BY <1>0, <1>3, <2>0, <3>1
        <2>4. ASSUME NEW x \in Seeds, NEW p \in Passwords,
                     RecoverAtStart(x, p) \/ SeedRecover(x, p)
              PROVE  S1' /\ S2'
            <3>1. seedFile' = TornFile /\ cli'.at = "write"
                BY <2>4 DEF RecoverAtStart, SeedRecover, SetSeed, TypeOK, SessionTypeOK
            <3>2. HasSeed'
                BY <3>1 DEF HasSeed, TornFile
            <3>3. QED
                BY <3>1, <3>2
        <2>5. ASSUME WriteSeed PROVE S1' /\ S2'
            <3>1. /\ seedFile'.form = "sealed"
                  /\ \/ cli.at = "write" /\ cli'.at = "connect"
                     \/ cli.at = "write_new" /\ cli'.at = "connect_new"
                BY <2>5 DEF WriteSeed, TypeOK, SessionTypeOK
            <3>2. HasSeed'
                BY <3>1 DEF HasSeed
            <3>3. cli.at = "write_new" => outs' = <<>>
                BY <1>0, <2>0
            <3>4. QED
                BY <1>3, <3>1, <3>2, <3>3
        <2>6. ASSUME Connect PROVE S1' /\ S2'
            <3>1. /\ UNCHANGED seedFile /\ Decrypts(password)
                  /\ \/ cli.at = "connect" /\ cli'.at = "clear"
                     \/ cli.at = "connect_new" /\ cli'.at = "ready"
                BY <2>6 DEF Connect, TypeOK, SessionTypeOK, SessionInv, Ready
            <3>2. HasSeed'
                BY <3>1 DEF HasSeed, Decrypts
            <3>3. cli.at = "connect_new" => outs' = <<>>
                BY <1>0, <2>0
            <3>4. QED
                BY <1>3, <3>1, <3>2, <3>3
        <2> HIDE DEF S1, S2
        <2>7. S1' /\ S2'
            BY <1>6, <2>1, <2>2, <2>3, <2>4, <2>5, <2>6 DEF SessionStep
        <2>8. QED
            BY <1>1, <2>7
    <1>7. CASE Clear
        <2>1. outs' = <<>>
            BY <1>7 DEF Clear
        <2>2. QED
            BY <1>1, <1>3, <2>1
    <1>8. CASE RecoverGivesUp
        <2>1. torn' = TRUE /\ UNCHANGED <<outs, seedFile>> /\ cli'.at = "ready"
            BY <1>8 DEF RecoverGivesUp, GiveUp, Ready, db
        <2>2. S1'
            BY <1>0, <2>1 DEF HasSeed
        <2>3. S2'
            BY <2>1
        <2>4. QED
            BY <1>1, <2>2, <2>3
    <1>9. CASE Crash
        <2>1. /\ UNCHANGED <<outs, seedFile>> /\ cli'.at = "off"
              /\ torn' = (torn \/ Recovering)
            BY <1>9 DEF Crash, SessionLost, Off, db
        <2>2. S1'
            BY <1>0, <2>1 DEF HasSeed
        <2>3. S2'
            BY <1>0, <2>1 DEF Recovering
        <2>4. QED
            BY <1>1, <2>2, <2>3
    <1>10. QED
        BY <1>4, <1>5, <1>6, <1>7, <1>8, <1>9, SessionMoves DEF TypeOK

-----------------------------------------------------------------------------
(* Outputs and entries agree.                                              *)

\* Nothing is left to do when the plan is empty.
LEMMA EndOfPlan ==
    ASSUME todo = <<>>
    PROVE  Planned = {} /\ todo # ScanFirst
    <1>1. Planned = {}
        BY DEF Planned, ToSet
    <1>2. Len(todo) # Len(ScanFirst)
        BY DEF ScanFirst
    <1>3. QED
        BY <1>1, <1>2

LEMMA RestoreEnds ==
    ASSUME RestoreInv, job.kind = "restore", todo = <<>>
    PROVE  /\ DOMAIN outs = job.found
           /\ \A o \in job.found :
                /\ outs[o].status = "Unspent" /\ EntrySaved(o)
                /\ log[o.path][outs[o].entry].confirmed
                /\ o.n < idx[o.path]
                /\ \E l \in DOMAIN labels : labels[l] = o.path
    <1>1. Planned = {} /\ Scanned
        BY EndOfPlan DEF Scanned
    <1>2. RestoredInv
        BY DEF RestoreInv
    <1>3. DOMAIN outs = job.found
        BY <1>1, <1>2 DEF RestoreInv, RestoredInv, OutputDue
    <1> SUFFICES ASSUME NEW o \in job.found
                 PROVE  /\ outs[o].status = "Unspent" /\ EntrySaved(o)
                        /\ log[o.path][outs[o].entry].confirmed
                        /\ o.n < idx[o.path]
                        /\ \E l \in DOMAIN labels : labels[l] = o.path
        BY <1>3
    <1>4. /\ outs[o].root = o.path /\ outs[o].status = "Unspent"
          /\ outs[o].entry = job.stats[o.path]
        BY <1>2, <1>3 DEF RestoredInv
    <1>5. /\ job.stats[o.path] \in DOMAIN log[o.path]
          /\ log[o.path][job.stats[o.path]].type # "reserved"
          /\ log[o.path][job.stats[o.path]].confirmed
          /\ o.n < idx[o.path]
          /\ \E l \in DOMAIN labels : labels[l] = o.path
        BY <1>1 DEF RestoreInv, EntryDue, IndexDue, LabelDue
    <1>6. QED
        BY <1>4, <1>5 DEF EntrySaved

\* A restore that is over and was not cut short has finished.
LEMMA RestoreFinishes ==
    ASSUME TypeOK, Shapes, SessionInv, Next,
           job.kind = "restore", job'.kind # "restore", ~torn'
    PROVE  Finish
    <1>1. CASE UseStep
        BY <1>1 DEF UseStep, Receive, LockCoin, Refresh, CreateAccount, SetActiveAccount, Free
    <1>2. CASE JobStep
        <2>1. job.kind # "none"
            OBVIOUS
        <2>2. \A delete : ~CheckRepair(delete)
            BY <2>1 DEF CheckRepair, Free
        <2>3. ~Restore
            BY <2>1 DEF Restore, Free
        <2>4. ~Scan
            <3>1. ASSUME Scan PROVE job'.kind = job.kind
                BY <3>1, ScanIs DEF ScannedNow, Job
            <3>2. QED
                BY <3>1
        <2>5. ~BatchStep
            <3>1. ASSUME BatchStep PROVE job'.kind = job.kind
                BY <3>1, BatchStepIs DEF BatchDone
            <3>2. QED
                BY <3>1
        <2>6. QED
            BY <1>2, <2>2, <2>3, <2>4, <2>5 DEF JobStep, BatchStep
    <1>3. CASE Clear
        BY <1>3 DEF Clear
    <1>4. QED
        BY <1>1, <1>2, <1>3 DEF Next, OutputMined, OutputLeaves, SessionStep, RecoverGivesUp,
                                JobFails, Crash, Recovering

LEMMA TornStays ==
    ASSUME SessionTypeOK, Next, torn
    PROVE  torn' \/ Clear
    BY SessionMoves DEF SessionStays, BackAtPrompt, SessionStep, RecoverGivesUp, Crash

LEMMA SavedStays ==
    ASSUME TypeOK, LogGrows, NEW o \in DOMAIN outs, EntrySaved(o),
           outs'[o].root = outs[o].root, outs'[o].entry = outs[o].entry
    PROVE  EntrySaved(o)'
    <1>1. outs[o].root \in Paths
        BY DEF TypeOK, OutputData
    <1>2. QED
        BY <1>1 DEF EntrySaved, LogGrows

LEMMA EntriesKept ==
    ASSUME TypeOK, Shapes, SessionInv, RestoreInv, EntriesResolve, Next
    PROVE  EntriesResolve'
    <1>0. ASSUME Clear PROVE EntriesResolve'
        <2>1. outs' = <<>>
            BY <1>0 DEF Clear
        <2>2. DOMAIN outs' = {}
            BY <2>1
        <2>3. QED
            BY <2>2 DEF EntriesResolve
    <1> SUFFICES ASSUME job'.kind # "restore", ~torn', ~Clear
                 PROVE  \A o \in DOMAIN outs' : EntrySaved(o)'
        BY <1>0 DEF EntriesResolve
    <1>1. LogGrows
        BY LogTyped
    <1>2. ~torn
        BY TornStays DEF TypeOK
    <1>3. CASE job.kind = "restore"
        <2>1. Finish
            BY <1>3, RestoreFinishes
        <2>2. todo = <<>> /\ UNCHANGED <<outs, log>>
            BY <2>1 DEF Finish, db
        <2>3. \A o \in DOMAIN outs : EntrySaved(o)
            BY <1>3, <2>2, RestoreEnds
        <2>4. QED
            BY <2>2, <2>3 DEF EntrySaved
    <1>4. CASE job.kind # "restore"
        <2>0. \A o \in DOMAIN outs : EntrySaved(o)
            BY <1>2, <1>4 DEF EntriesResolve
        <2> DEFINE Goal == \A o \in DOMAIN outs' : EntrySaved(o)'
        <2>1. ASSUME /\ DOMAIN outs' \subseteq DOMAIN outs
                     /\ \A o \in DOMAIN outs' :
                            outs'[o].root = outs[o].root /\ outs'[o].entry = outs[o].entry
              PROVE  Goal
            BY <1>1, <2>0, <2>1, SavedStays
        <2>2. ASSUME NEW o, NEW a \in Paths, DOMAIN outs' \subseteq DOMAIN outs \cup {o},
                     \A x \in DOMAIN outs' \ {o} : outs'[x] = outs[x],
                     outs'[o].root = a, outs'[o].entry \in DOMAIN log'[a],
                     log'[a][outs'[o].entry].type # "reserved"
              PROVE  Goal
            <3>1. \A x \in DOMAIN outs' \ {o} : EntrySaved(x)'
                BY <1>1, <2>0, <2>2, SavedStays
            <3>2. EntrySaved(o)'
                BY <2>2 DEF EntrySaved
            <3>3. QED
                BY <3>1, <3>2
        <2>3. CASE UNCHANGED outs
            BY <2>1, <2>3
        <2>4. ASSUME NEW p \in Paths, Receive(p) PROVE Goal
            <3>1. PICK o : Received(o, p)
                BY <2>4, ReceiveIs
            <3> HIDE DEF Goal
            <3>2. QED
                BY <2>2, <3>1 DEF Received
        <2>5. ASSUME NEW o \in DOMAIN outs, LockCoin(o) PROVE Goal
            <3> HIDE DEF Goal
            <3>1. QED
                BY <2>2, <2>5, LockCoinIs
        <2>6. ASSUME Refresh \/ \E delete \in BOOLEAN : CheckRepair(delete) PROVE Goal
            <3>1. \E all \in BOOLEAN : RefreshOutputs(active, all)
                BY <2>6 DEF Refresh, CheckRepair
            <3>2. OutsKept
                BY <3>1, RefreshKeeps DEF TypeOK
            <3> HIDE DEF Goal
            <3>3. QED
                BY <2>1, <3>2 DEF OutsKept
        <2>7. ASSUME UnspendOutput PROVE Goal
            <3> HIDE DEF Goal
            <3>1. QED
                BY <2>1, <2>7, UnspendIs
        <2>8. ASSUME DeleteOutput PROVE Goal
            <3> HIDE DEF Goal
            <3>1. QED
                BY <2>1, <2>8 DEF DeleteOutput
        <2>9. ASSUME RestoreForCheck PROVE Goal
            <3>1. RestoredByCheck(Head(todo).out)
                BY <2>9, RestoreForCheckIs
            <3> HIDE DEF Goal
            <3>2. QED
                BY <2>2, <3>1 DEF RestoredByCheck
        <2>10. ~RestoreForRestore
            BY <1>4 DEF RestoreForRestore
        <2> HIDE DEF Goal
        <2>11. Goal
            BY <2>3, <2>4, <2>5, <2>6, <2>7, <2>8, <2>9, <2>10, OutsFrame DEF Goal
        <2>12. QED
            BY <2>11 DEF Goal
    <1>5. QED
        BY <1>3, <1>4

-----------------------------------------------------------------------------
(* The plan is kept.                                                       *)

\* A check begins, or a restore of an empty database.
RestoreBegins == Restore /\ outs = <<>> /\ Begin("restore", FALSE)

LEMMA TailIsOrdered ==
    ASSUME NEW q \in Seq(Batch), q # <<>>, FinishLast(q)
    PROVE  FinishLast(Tail(q))
    <1>1. /\ Len(q) \in Nat \ {0} /\ DOMAIN q = 1 .. Len(q)
          /\ DOMAIN Tail(q) = 1 .. Len(q) - 1
          /\ \A i \in 1 .. Len(q) - 1 : Tail(q)[i] = q[i + 1]
        BY EmptySeq, LenProperties, HeadTailProperties
    <1>2. ASSUME NEW i \in DOMAIN Tail(q), NEW j \in DOMAIN Tail(q), i < j,
                 Tail(q)[i].op \in FinishOps
          PROVE  Tail(q)[j].op \in FinishOps
        <2>1. /\ i + 1 \in DOMAIN q /\ j + 1 \in DOMAIN q /\ i + 1 < j + 1
              /\ Tail(q)[i] = q[i + 1] /\ Tail(q)[j] = q[j + 1]
            BY <1>1, <1>2
        <2>2. QED
            BY <1>2, <2>1 DEF FinishLast
    <1>3. QED
        BY <1>2 DEF FinishLast

\* After the first batch that finishes an account, all do.
LEMMA HeadIsOrdered ==
    ASSUME NEW q \in Seq(Batch), q # <<>>, FinishLast(q), Head(q).op \in FinishOps
    PROVE  \A b \in ToSet(q) : b.op \in FinishOps
    <1>1. Len(q) \in Nat \ {0} /\ DOMAIN q = 1 .. Len(q) /\ Head(q) = q[1]
        BY EmptySeq, LenProperties
    <1>2. ASSUME NEW j \in DOMAIN q PROVE q[j].op \in FinishOps
        <2>1. 1 \in DOMAIN q /\ (j = 1 \/ 1 < j)
            BY <1>1
        <2>2. QED
            BY <1>1, <2>1 DEF FinishLast
    <1>3. QED
        BY <1>2 DEF ToSet

LEMMA PlanKept ==
    ASSUME TypeOK, Shapes, SessionInv, PlanInv, Next
    PROVE  PlanInv'
    <1>1. CASE UNCHANGED <<job, todo>>
        BY <1>1 DEF PlanInv, Scanned, Planned
    <1>2. CASE JobEnds
        BY <1>2 DEF JobEnds, Idle, PlanInv, Scanned
    <1>3. ASSUME NEW kind, NEW delete, Begin(kind, delete)
          PROVE  PlanInv'
        BY <1>3 DEF Begin, PlanInv, Scanned
    <1>4. CASE Scan
        <2>1. PlanOf(todo', MyOutputs) /\ job'.found = MyOutputs
            BY <1>4, ScanIs DEF ScannedNow, Job
        <2>2. QED
            BY <2>1 DEF PlanOf, PlanInv, Planned, Missing
    <1>5. CASE BatchStep
        <2>1. BatchDone
            BY <1>5, BatchStepIs
        <2>2. Scanned /\ job'.found = job.found /\ todo' = Tail(todo) /\ todo # <<>>
              /\ Planned' \subseteq Planned
            BY <2>1 DEF BatchDone, Scanned, Planned
        <2>3. FinishLast(todo')
            <3>1. todo \in Seq(Batch) /\ FinishLast(todo)
                BY <2>2 DEF PlanInv, Shapes
            <3>2. QED
                BY <2>2, <3>1, TailIsOrdered
        <2>4. QED
            BY <2>2, <2>3 DEF PlanInv, LabelsAgree
    <1>6. QED
        BY <1>1, <1>2, <1>3, <1>4, <1>5, JobFrame DEF CheckRepair

-----------------------------------------------------------------------------
(* What a restore has not done yet is planned.                             *)

LEMMA RestoreStarts ==
    ASSUME RestoreBegins
    PROVE  RestoreInv'
    <1>1. outs' = <<>> /\ job'.stats = Unused /\ todo' = ScanFirst
        BY DEF RestoreBegins, Restore, Begin, db
    <1>2. DOMAIN outs' = {}
        BY <1>1
    <1>3. \A p \in Paths : job'.stats[p] = 0
        BY <1>1 DEF Unused
    <1>4. QED
        BY <1>1, <1>2, <1>3 DEF RestoreInv, RestoredInv, Scanned

LEMMA RestorePlanned ==
    ASSUME TypeOK, Shapes, DefaultIsLabelled, RestoreInv, Scan
    PROVE  RestoreInv'
    <1> SUFFICES ASSUME job'.kind = "restore" PROVE RestoreInv'
        BY DEF RestoreInv
    <1>1. ScannedNow
        BY ScanIs
    <1>2. /\ job.kind = "restore" /\ job'.found = MyOutputs /\ job'.stats = job.stats
          /\ UNCHANGED <<outs, log, idx, labels>>
        BY <1>1 DEF ScannedNow, Job, db
    <1>3. outs = <<>> /\ RestoredInv /\ PlanOf(todo', MyOutputs)
        BY <1>1, <1>2 DEF ScannedNow, RestoreInv
    <1>4. DOMAIN outs = {} /\ Missing(MyOutputs) = MyOutputs
        BY <1>3 DEF Missing
    <1>5. RestoredInv'
        BY <1>2, <1>3, <1>4 DEF RestoredInv
    <1>6. Planned' = ToSet(todo') /\ todo' \in Seq(Batch) /\ Planned' \subseteq Batch
        BY <1>3, ToSetOfSeq DEF PlanOf, Planned
    <1>7. \A b \in Planned' : b.op \in {"restore", "label", "entry", "index"}
        <2>1. \A b \in Batch : b.op \in {"scan", "cancel", "unspend", "delete", "restore",
                                        "label", "entry", "index"}
                               /\ (b.op = "scan" => b = [op |-> "scan"])
            BY DEF Batch
        <2>2. /\ \A b \in Planned' : b.op \notin {"cancel", "unspend", "delete"}
              /\ [op |-> "scan"] \notin Planned'
            BY <1>3, <1>4, <1>6 DEF PlanOf
        <2>3. QED
            BY <1>6, <2>1, <2>2
    <1>8. ASSUME NEW o \in MyOutputs
          PROVE  OutputDue(o)' /\ EntryDue(o)' /\ IndexDue(o)' /\ LabelDue(o)'
        <2>1. /\ [op |-> "restore", out |-> o] \in Planned'
              /\ o.path = 0 \/ \E b \in Planned' : b.op = "label" /\ b.path = o.path
              /\ [op |-> "entry", path |-> o.path] \in Planned'
              /\ \E b \in Planned' : b.op = "index" /\ b.path = o.path
              /\ \A b \in Planned' : b.op = "index" /\ b.path = o.path => o.n < b.next
            BY <1>2, <1>3, <1>4, <1>6 DEF PlanOf
        <2>2. LabelDue(o)'
            <3>1. CASE \E b \in Planned' : b.op = "label" /\ b.path = o.path
                BY <3>1 DEF LabelDue
            <3>2. CASE o.path = 0
                <4>1. DefaultLabel \in DOMAIN labels' /\ labels'[DefaultLabel] = o.path
                    BY <1>2, <3>2 DEF DefaultIsLabelled
                <4>2. \A b \in Batch : b.op = "label" => b.label # DefaultLabel
                    BY DEF Batch, RestoredLabel, DefaultLabel
                <4>3. \A b \in Planned' : b.op = "label" => b.label # DefaultLabel
                    BY <1>6, <4>2
                <4>4. QED
                    BY <4>1, <4>3 DEF LabelDue
            <3>3. QED
                BY <2>1, <3>1, <3>2
        <2>3. QED
            BY <2>1, <2>2 DEF OutputDue, EntryDue, IndexDue
    <1>9. QED
        BY <1>2, <1>3, <1>4, <1>5, <1>7, <1>8 DEF RestoreInv

\* What is planned stays planned, but for the batch that is committed.
LEMMA RestPlanned ==
    ASSUME BatchDone, NEW b \in Planned
    PROVE  b = Head(todo) \/ b \in Planned'
    BY DEF BatchDone, Planned

\* An output is restored.
LEMMA RestoreGoesOn ==
    ASSUME TypeOK, Shapes, PlanInv, RestoreInv, RestoreForRestore,
           NEW p, NEW id, RestoredByRestore(Head(todo).out, p, id)
    PROVE  /\ RestoredInv'
           /\ \A o \in job.found :
                OutputDue(o)' /\ EntryDue(o)' /\ IndexDue(o)' /\ LabelDue(o)'
    <1> DEFINE new == Head(todo).out
    <1>1. /\ job.kind = "restore" /\ HeadIs("restore")
          /\ UNCHANGED <<idx, labels>>
        BY DEF RestoreForRestore
    <1>2. /\ BatchDone /\ new \in job.found /\ Head(todo).op = "restore"
        BY <1>1, BatchStepIs, RestoredWasFound DEF BatchStep, HeadIs
    <1>3. RestoredInv /\ Planned' \subseteq Planned
        BY <1>1, <1>2 DEF RestoreInv, BatchDone, Planned
    <1>4. \A o \in job.found : OutputDue(o) /\ EntryDue(o) /\ IndexDue(o) /\ LabelDue(o)
        BY <1>1, <1>2 DEF RestoreInv, BatchDone, Scanned
    <1>5. /\ p \in Paths /\ p = new.path /\ id \in Nat
          /\ id = IF job.stats[p] = 0 THEN Len(log[p]) + 1 ELSE job.stats[p]
          /\ DOMAIN outs' = DOMAIN outs \cup {new}
          /\ outs'[new].root = p /\ outs'[new].status = "Unspent" /\ outs'[new].entry = id
          /\ \A x \in DOMAIN outs \ {new} : outs'[x] = outs[x]
          /\ LogGrows
          /\ job.stats[p] = 0 => id \in DOMAIN log'[p] /\ id # 0
          /\ job.stats[p] # 0 => log' = log
          /\ \A b \in Paths \ {p} : log'[b] = log[b]
          /\ job'.found = job.found /\ job'.stats[p] = id
          /\ \A b \in Paths \ {p} : job'.stats[b] = job.stats[b]
        BY DEF RestoredByRestore
    <1>6. job.found \subseteq Output /\ \A o \in job.found : o.path \in Paths
        BY DEF Shapes, Job, TypeOK, Output
    <1> HIDE DEF new
    <1>7. id # 0
        BY <1>5
    <1>8. RestoredInv'
        <2>1. DOMAIN outs' \subseteq job'.found
            BY <1>2, <1>3, <1>5 DEF RestoredInv
        <2>2. ASSUME NEW a \in Paths, job'.stats[a] # 0
              PROVE  job'.stats[a] \in DOMAIN log'[a]
            <3>1. CASE a = p
                <4>1. CASE job.stats[p] = 0
                    BY <1>5, <3>1, <4>1
                <4>2. CASE job.stats[p] # 0
                    BY <1>3, <1>5, <3>1, <4>2 DEF RestoredInv
                <4>3. QED
                    BY <4>1, <4>2
            <3>2. CASE a # p
                BY <1>3, <1>5, <2>2, <3>2 DEF RestoredInv
            <3>3. QED
                BY <3>1, <3>2
        <2>3. ASSUME NEW o \in DOMAIN outs'
              PROVE  /\ outs'[o].root = o.path /\ outs'[o].status = "Unspent"
                     /\ outs'[o].entry = job'.stats[o.path] /\ job'.stats[o.path] # 0
            <3>1. CASE o = new
                BY <1>5, <1>7, <3>1
            <3>2. CASE o # new
                <4>1. o \in DOMAIN outs /\ outs'[o] = outs[o] /\ o.path \in Paths
                    BY <1>3, <1>5, <1>6, <3>2 DEF RestoredInv
                <4>2. /\ outs[o].root = o.path /\ outs[o].status = "Unspent"
                      /\ outs[o].entry = job.stats[o.path] /\ job.stats[o.path] # 0
                    BY <1>3, <4>1 DEF RestoredInv
                <4>3. job'.stats[o.path] = job.stats[o.path]
                    BY <1>5, <4>1, <4>2
                <4>4. QED
                    BY <4>1, <4>2, <4>3
            <3>3. QED
                BY <3>1, <3>2
        <2>4. QED
            BY <2>1, <2>2, <2>3 DEF RestoredInv
    <1> SUFFICES ASSUME NEW o \in job.found
                 PROVE  OutputDue(o)' /\ EntryDue(o)' /\ IndexDue(o)' /\ LabelDue(o)'
        BY <1>8
    <1>9. OutputDue(o)'
        <2>1. CASE o \in DOMAIN outs
            BY <1>5, <2>1 DEF OutputDue
        <2>2. CASE [op |-> "restore", out |-> o] \in Planned
            <3>1. [op |-> "restore", out |-> o] \in Planned' \/ o = new
                BY <1>2, <2>2, RestPlanned DEF new
            <3>2. QED
                BY <1>5, <3>1 DEF OutputDue
        <2>3. QED
            BY <1>4, <2>1, <2>2 DEF OutputDue
    <1>10. EntryDue(o)'
        <2>1. CASE [op |-> "entry", path |-> o.path] \in Planned
            <3>1. [op |-> "entry", path |-> o.path] \in Planned'
                BY <1>2, <2>1, RestPlanned
            <3>2. QED
                BY <3>1 DEF EntryDue
        <2>2. CASE LET i == job.stats[o.path] IN
                    /\ i \in DOMAIN log[o.path]
                    /\ log[o.path][i].type # "reserved" /\ log[o.path][i].confirmed
            <3>1. o.path \in Paths /\ log[o.path] \in Seq(TxLogEntry)
                BY <1>6 DEF TypeOK
            <3>2. job.stats[o.path] # 0
                BY <2>2, <3>1
            <3>3. job'.stats[o.path] = job.stats[o.path] /\ log'[o.path] = log[o.path]
                BY <1>5, <3>1, <3>2
            <3>4. QED
                BY <2>2, <3>3 DEF EntryDue
        <2>3. QED
            BY <1>4, <2>1, <2>2 DEF EntryDue
    <1>11. IndexDue(o)'
        <2>1. \A b \in Planned : b.op = "index" => b \in Planned'
            BY <1>2, RestPlanned
        <2>2. QED
            BY <1>1, <1>3, <1>4, <2>1 DEF IndexDue
    <1>12. LabelDue(o)'
        <2>1. \A b \in Planned : b.op = "label" => b \in Planned'
            BY <1>2, RestPlanned
        <2>2. QED
            BY <1>1, <1>3, <1>4, <2>1 DEF LabelDue
    <1>13. QED
        BY <1>9, <1>10, <1>11, <1>12

\* An account is labelled.
LEMMA LabelIsSet ==
    ASSUME TypeOK, Shapes, PlanInv, SetAcctPath, NEW o, LabelDue(o)
    PROVE  LabelDue(o)'
    <1> DEFINE b0 == Head(todo)
    <1>1. /\ BatchDone /\ b0.op = "label" /\ b0 \in Planned
          /\ labels' = Put(labels, b0.label, b0.path)
        BY BatchStepIs DEF BatchStep, SetAcctPath, HeadIs, BatchDone
    <1>2. LabelsAgree(Planned) /\ Planned' \subseteq Planned
        BY <1>1 DEF PlanInv, Scanned, BatchDone, Planned
    <1>3. /\ DOMAIN labels' = DOMAIN labels \cup {b0.label} /\ labels'[b0.label] = b0.path
          /\ \A l \in DOMAIN labels \ {b0.label} : labels'[l] = labels[l]
        BY <1>1 DEF Put
    <1> HIDE DEF b0
    <1>4. CASE o.path = b0.path
        <2>1. \A b \in Planned' : b.op = "label" /\ b.label = b0.label => b.path = o.path
            BY <1>1, <1>2, <1>4 DEF LabelsAgree
        <2>2. QED
            BY <1>3, <1>4, <2>1 DEF LabelDue
    <1>5. CASE o.path # b0.path
        <2>1. CASE \E b \in Planned : b.op = "label" /\ b.path = o.path
            <3>1. PICK b \in Planned : b.op = "label" /\ b.path = o.path
                BY <2>1
            <3>2. b \in Planned'
                BY <1>1, <1>5, <3>1, RestPlanned DEF b0
            <3>3. QED
                BY <3>1, <3>2 DEF LabelDue
        <2>2. CASE \E l \in DOMAIN labels :
                    /\ labels[l] = o.path
                    /\ \A b \in Planned : b.op = "label" /\ b.label = l => b.path = o.path
            <3>1. PICK l \in DOMAIN labels :
                    /\ labels[l] = o.path
                    /\ \A b \in Planned : b.op = "label" /\ b.label = l => b.path = o.path
                BY <2>2
            <3>2. l # b0.label
                BY <1>1, <1>5, <3>1
            <3>3. l \in DOMAIN labels' /\ labels'[l] = o.path
                BY <1>3, <3>1, <3>2
            <3>4. QED
                BY <1>2, <3>1, <3>3 DEF LabelDue
        <2>3. QED
            BY <2>1, <2>2 DEF LabelDue
    <1>6. QED
        BY <1>4, <1>5

\* The entry of an account is saved: all its outputs are there.
LEMMA EntryIsSaved ==
    ASSUME TypeOK, Shapes, PlanInv, RestoreInv, SaveEntry, job.kind = "restore",
           NEW o \in job.found
    PROVE  EntryDue(o)'
    <1> DEFINE p == Head(todo).path
    <1>1. /\ BatchDone /\ Head(todo).op = "entry" /\ job' = job /\ todo # <<>>
          /\ Scanned /\ todo \in Seq(Batch)
        BY BatchStepIs DEF BatchStep, SaveEntry, HeadIs, BatchDone, Scanned, Shapes
    <1>2. p \in Paths /\ LogGrows
        BY SaveEntryIs
    <1>3. RestoredInv /\ OutputDue(o) /\ EntryDue(o)
        BY <1>1 DEF RestoreInv
    <1>4. o.path \in Paths
        BY DEF Shapes, Job, Output
    <1>5. CASE o.path = p
        <2>1. \A b \in Planned : b.op \in FinishOps
            BY <1>1, HeadIsOrdered DEF PlanInv, Planned, FinishOps
        <2>2. [op |-> "restore", out |-> o] \notin Planned
            BY <2>1 DEF FinishOps
        <2>3. o \in DOMAIN outs
            BY <1>3, <2>2 DEF OutputDue
        <2>4. job.stats[p] \in DOMAIN log[p]
            BY <1>2, <1>3, <1>5, <2>3 DEF RestoredInv
        <2>5. log'[p][job.stats[p]] = [type |-> "TxReceived", confirmed |-> TRUE]
            BY <2>4, SaveEntryIs
        <2>6. job.stats[p] \in DOMAIN log'[p]
            BY <1>2, <2>4 DEF LogGrows
        <2>7. /\ log'[p][job.stats[p]].type # "reserved"
              /\ log'[p][job.stats[p]].confirmed
            BY <2>5
        <2> HIDE DEF p
        <2>8. QED
            BY <1>1, <1>5, <2>6, <2>7 DEF EntryDue
    <1>6. CASE o.path # p
        <2>1. CASE [op |-> "entry", path |-> o.path] \in Planned
            <3>1. [op |-> "entry", path |-> o.path] \in Planned'
                BY <1>1, <1>6, <2>1, RestPlanned
            <3>2. QED
                BY <3>1 DEF EntryDue
        <2>2. CASE LET i == job.stats[o.path] IN
                    /\ i \in DOMAIN log[o.path]
                    /\ log[o.path][i].type # "reserved" /\ log[o.path][i].confirmed
            BY <1>1, <1>2, <1>4, <2>2 DEF EntryDue, LogGrows
        <2>3. QED
            BY <1>3, <2>1, <2>2 DEF EntryDue
    <1>7. QED
        BY <1>5, <1>6

LEMMA RestoreAdvances ==
    ASSUME TypeOK, Shapes, PlanInv, RestoreInv, BatchStep
    PROVE  RestoreInv'
    <1> SUFFICES ASSUME job'.kind = "restore" PROVE RestoreInv'
        BY DEF RestoreInv
    <1>1. BatchDone /\ job.kind = "restore"
        BY BatchStepIs DEF BatchDone
    <1>2. Scanned /\ job'.found = job.found /\ Planned' \subseteq Planned
          /\ Head(todo) \in Planned
        BY <1>1 DEF BatchDone, Scanned, Planned
    <1>3. /\ RestoredInv
          /\ \A b \in Planned : b.op \in {"restore", "label", "entry", "index"}
          /\ \A o \in job.found : OutputDue(o) /\ EntryDue(o) /\ IndexDue(o) /\ LabelDue(o)
        BY <1>1, <1>2 DEF RestoreInv
    <1>4. ScanFirst # todo'
        <2>1. [op |-> "scan"] \notin Planned
            BY <1>2 DEF PlanInv
        <2>2. [op |-> "scan"] \in ToSet(ScanFirst)
            BY DEF ScanFirst, ToSet
        <2>3. QED
            BY <1>2, <2>1, <2>2 DEF Planned
    <1> DEFINE Goal == /\ RestoredInv'
                       /\ \A o \in job.found :
                            OutputDue(o)' /\ EntryDue(o)' /\ IndexDue(o)' /\ LabelDue(o)'
    <1>5. CASE RestoreForRestore
        <2>1. PICK p, id : RestoredByRestore(Head(todo).out, p, id)
            BY <1>5, RestoreForRestoreIs
        <2>2. Goal
            BY <1>5, <2>1, RestoreGoesOn
        <2>3. QED
            BY <1>2, <1>3, <1>4, <2>2 DEF RestoreInv
    <1>6. ASSUME SetAcctPath \/ SaveEntry \/ SaveChildIndex PROVE Goal
        <2>1. job' = job /\ outs' = outs /\ Head(todo).op \in FinishOps
            BY <1>6 DEF SetAcctPath, SaveEntry, SaveChildIndex, HeadIs, FinishOps
        <2>2. LogGrows
            BY <1>6, SaveEntryIs, SameLogGrows DEF SetAcctPath, SaveChildIndex
        <2>3. RestoredInv'
            BY <1>3, <2>1, <2>2 DEF RestoredInv, LogGrows
        <2> SUFFICES ASSUME NEW o \in job.found
                     PROVE  OutputDue(o)' /\ EntryDue(o)' /\ IndexDue(o)' /\ LabelDue(o)'
            BY <2>3
        <2>4. OutputDue(o) /\ EntryDue(o) /\ IndexDue(o) /\ LabelDue(o) /\ o.path \in Paths
            BY <1>3 DEF Shapes, Job, Output
        <2>5. OutputDue(o)'
            <3>1. [op |-> "restore", out |-> o] # Head(todo)
                BY <2>1 DEF FinishOps
            <3>2. QED
                BY <1>1, <2>1, <2>4, <3>1, RestPlanned DEF OutputDue
        <2>6. EntryDue(o)'
            <3>1. CASE SaveEntry
                BY <1>1, <3>1, EntryIsSaved
            <3>2. CASE ~SaveEntry
                <4>1. [op |-> "entry", path |-> o.path] # Head(todo) /\ log' = log
                    BY <1>6, <3>2 DEF SetAcctPath, SaveChildIndex, HeadIs
                <4>2. QED
                    BY <1>1, <2>1, <2>4, <4>1, RestPlanned DEF EntryDue
            <3>3. QED
                BY <3>1, <3>2
        <2>7. IndexDue(o)'
            <3>1. CASE SaveChildIndex
                <4>1. /\ Head(todo).op = "index" /\ Head(todo).path \in Paths
                      /\ idx' = [idx EXCEPT ![Head(todo).path] = Head(todo).next]
                    BY <3>1, HeadOfPlan DEF SaveChildIndex, HeadIs, FinishOps
                <4>2. CASE o.path = Head(todo).path
                    <5>1. o.n < Head(todo).next
                        BY <1>2, <2>4, <4>1, <4>2 DEF IndexDue
                    <5>2. idx'[o.path] = Head(todo).next
                        BY <4>1, <4>2 DEF TypeOK
                    <5>3. QED
                        BY <1>2, <2>4, <5>1, <5>2 DEF IndexDue
                <4>3. CASE o.path # Head(todo).path
                    <5>1. idx'[o.path] = idx[o.path]
                        BY <2>4, <4>1, <4>3 DEF TypeOK
                    <5>2. \A b \in Planned : b.path = o.path => b \in Planned'
                        BY <1>1, <4>3, RestPlanned
                    <5>3. QED
                        BY <1>2, <2>4, <5>1, <5>2 DEF IndexDue
                <4>4. QED
                    BY <4>2, <4>3
            <3>2. CASE ~SaveChildIndex
                <4>1. Head(todo).op # "index" /\ idx' = idx
                    BY <1>6, <3>2 DEF SetAcctPath, SaveEntry, HeadIs
                <4>2. \A b \in Planned : b.op = "index" => b \in Planned'
                    BY <1>1, <4>1, RestPlanned
                <4>3. QED
                    BY <1>2, <2>4, <4>1, <4>2 DEF IndexDue
            <3>3. QED
                BY <3>1, <3>2
        <2>8. LabelDue(o)'
            <3>1. CASE SetAcctPath
                BY <2>4, <3>1, LabelIsSet
            <3>2. CASE ~SetAcctPath
                <4>1. Head(todo).op # "label" /\ labels' = labels
                    BY <1>6, <3>2 DEF SaveEntry, SaveChildIndex, HeadIs
                <4>2. \A b \in Planned : b.op = "label" => b \in Planned'
                    BY <1>1, <4>1, RestPlanned
                <4>3. QED
                    BY <1>2, <2>4, <4>1, <4>2 DEF LabelDue
            <3>3. QED
                BY <3>1, <3>2
        <2>9. QED
            BY <2>5, <2>6, <2>7, <2>8
    <1>7. CASE SetAcctPath \/ SaveEntry \/ SaveChildIndex
        <2>1. Goal
            BY <1>6, <1>7
        <2>2. QED
            BY <1>2, <1>3, <1>4, <2>1 DEF RestoreInv
    <1>8. ~CancelEntry /\ ~UnspendOutput /\ ~DeleteOutput /\ ~RestoreForCheck
        <2>1. Head(todo).op \notin {"cancel", "unspend", "delete"}
            BY <1>2, <1>3
        <2>2. QED
            BY <1>1, <2>1 DEF CancelEntry, UnspendOutput, DeleteOutput, RestoreForCheck, HeadIs
    <1>9. QED
        BY <1>5, <1>7, <1>8 DEF BatchStep

LEMMA RestoreKept ==
    ASSUME TypeOK, Shapes, SessionInv, DefaultIsLabelled, PlanInv, RestoreInv, Next
    PROVE  RestoreInv'
    <1>1. CASE UNCHANGED <<job, todo>> /\ (job.kind = "none" \/ UNCHANGED db)
        <2>1. CASE job.kind = "none"
            BY <1>1, <2>1 DEF RestoreInv
        <2>2. CASE UNCHANGED db
            BY <1>1, <2>2 DEF RestoreInv, RestoredInv, Scanned, Planned, OutputDue, EntryDue,
                              IndexDue, LabelDue, db
        <2>3. QED
            BY <1>1, <2>1, <2>2
    <1>2. CASE JobEnds
        BY <1>2 DEF JobEnds, Idle, RestoreInv
    <1>3. ASSUME NEW delete \in BOOLEAN, CheckRepair(delete) PROVE RestoreInv'
        BY <1>3 DEF CheckRepair, Begin, RestoreInv
    <1>4. CASE Restore /\ outs = <<>> /\ Begin("restore", FALSE)
        BY <1>4, RestoreStarts DEF RestoreBegins
    <1>5. CASE Scan
        BY <1>5, RestorePlanned
    <1>6. CASE BatchStep
        BY <1>6, RestoreAdvances
    <1>7. QED
        BY <1>1, <1>2, <1>3, <1>4, <1>5, <1>6, JobFrame

-----------------------------------------------------------------------------
(* What a check has not done yet is planned.                               *)

LEMMA CheckPlanned ==
    ASSUME TypeOK, Shapes, Scan
    PROVE  CheckInv'
    <1>1. /\ PlanOf(todo', MyOutputs) /\ job'.delete = job.delete
          /\ job'.found = MyOutputs /\ job'.unconfirmed = Unconfirmed
          /\ UNCHANGED outs
        BY ScanIs DEF ScannedNow, Job, db
    <1>2. Planned' = ToSet(todo') /\ Unconfirmed' = Unconfirmed
        BY <1>1 DEF Planned, Unconfirmed
    <1>3. \A b \in Planned' : b.op = "delete" => job.delete /\ b.out \in Unconfirmed
        BY <1>1, <1>2 DEF PlanOf
    <1>4. \A o \in MyOutputs : o \in DOMAIN outs \/ [op |-> "restore", out |-> o] \in Planned'
        BY <1>1, <1>2 DEF PlanOf, Missing
    <1>5. \A o \in MyOutputs \cap DOMAIN outs :
            outs[o].status = "Spent" \/ (job.delete /\ outs[o].status = "Locked")
            => [op |-> "unspend", out |-> o] \in Planned'
        BY <1>1, <1>2 DEF PlanOf, Marked
    <1>6. job.delete => \A o \in Unconfirmed : [op |-> "delete", out |-> o] \in Planned'
        BY <1>1, <1>2 DEF PlanOf
    <1>7. QED
        BY <1>1, <1>2, <1>3, <1>4, <1>5, <1>6 DEF CheckInv

LEMMA CheckAdvances ==
    ASSUME TypeOK, Shapes, PlanInv, CheckInv, BatchStep
    PROVE  CheckInv'
    <1> SUFFICES ASSUME job'.kind = "check" PROVE CheckInv'
        BY DEF CheckInv
    <1> DEFINE h == Head(todo)
    <1>1. BatchDone /\ job.kind = "check"
        BY BatchStepIs DEF BatchDone
    <1>2. /\ Scanned /\ job'.found = job.found /\ job'.delete = job.delete
          /\ job'.unconfirmed = job.unconfirmed
          /\ Planned' \subseteq Planned /\ h \in Planned
        BY <1>1 DEF BatchDone, Scanned, Planned
    <1>3. /\ \A b \in Planned : b.op = "delete" => job.delete /\ b.out \in job.unconfirmed
          /\ \A o \in job.found :
                \/ o \in DOMAIN outs
                \/ [op |-> "restore", out |-> o] \in Planned
                \/ job.delete /\ o \in job.unconfirmed
          /\ \A o \in job.found \cap DOMAIN outs :
                outs[o].status = "Spent" \/ (job.delete /\ outs[o].status = "Locked")
                => [op |-> "unspend", out |-> o] \in Planned
          /\ job.delete => \A o \in Unconfirmed : [op |-> "delete", out |-> o] \in Planned
        BY <1>1, <1>2 DEF CheckInv
    <1>4. \A b \in Planned : b = h \/ b \in Planned'
        BY <1>1, RestPlanned
    <1>5. \A b \in Planned' : b.op = "delete" => job.delete /\ b.out \in job.unconfirmed
        BY <1>2, <1>3
    <1> DEFINE Found == \A o \in job.found :
                            \/ o \in DOMAIN outs'
                            \/ [op |-> "restore", out |-> o] \in Planned'
                            \/ job.delete /\ o \in job.unconfirmed
               Marks == \A o \in job.found \cap DOMAIN outs' :
                            outs'[o].status = "Spent" \/ (job.delete /\ outs'[o].status = "Locked")
                            => [op |-> "unspend", out |-> o] \in Planned'
               Deletes == job.delete => \A o \in DOMAIN outs' : outs'[o].status = "Unconfirmed"
                                            => [op |-> "delete", out |-> o] \in Planned'
    <1>6. ASSUME Found, Marks, Deletes PROVE CheckInv'
        BY <1>2, <1>5, <1>6 DEF CheckInv, Unconfirmed
    <1> HIDE DEF h
    <1>7. ASSUME CancelEntry \/ SetAcctPath \/ SaveEntry \/ SaveChildIndex PROVE CheckInv'
        <2>1. outs' = outs /\ h.op \in {"cancel", "label", "entry", "index"}
            BY <1>7 DEF CancelEntry, SetAcctPath, SaveEntry, SaveChildIndex, HeadIs, h
        <2>2. \A b \in Planned : b.op \in {"restore", "unspend", "delete"} => b \in Planned'
            BY <1>4, <2>1
        <2>3. QED
            BY <1>3, <1>6, <2>1, <2>2 DEF Unconfirmed
    <1>8. ASSUME UnspendOutput PROVE CheckInv'
        <2>1. h.op = "unspend"
            BY <1>8 DEF UnspendOutput, HeadIs, h
        <2>2. /\ DOMAIN outs' = DOMAIN outs
              /\ \A x \in DOMAIN outs :
                    outs'[x].status = IF x = h.out THEN "Unspent" ELSE outs[x].status
            BY <1>8, UnspendIs DEF h
        <2>3. \A b \in Planned : b.op \in {"restore", "delete"} => b \in Planned'
            BY <1>4, <2>1
        <2>4. \A b \in Planned : b.out # h.out => b \in Planned'
            BY <1>4
        <2>5. Found
            BY <1>3, <2>2, <2>3
        <2>6. Marks
            BY <1>3, <2>2, <2>4
        <2>7. Deletes
            BY <1>3, <2>2, <2>3 DEF Unconfirmed
        <2>8. QED
            BY <1>6, <2>5, <2>6, <2>7
    <1>9. ASSUME DeleteOutput PROVE CheckInv'
        <2>1. h.op = "delete"
            BY <1>9 DEF DeleteOutput, HeadIs, h
        <2>2. outs' = [o \in DOMAIN outs \ {h.out} |-> outs[o]]
            BY <1>9 DEF DeleteOutput, h
        <2>3. job.delete /\ h.out \in job.unconfirmed
            BY <1>2, <1>3, <2>1
        <2>4. \A b \in Planned : b.out # h.out => b \in Planned'
            BY <1>4
        <2>5. \A o \in DOMAIN outs' : o \in DOMAIN outs /\ o # h.out /\ outs'[o] = outs[o]
            BY <2>2
        <2>6. Marks
            BY <1>3, <2>4, <2>5
        <2>7. Deletes
            BY <1>3, <2>4, <2>5 DEF Unconfirmed
        <2>8. Found
            <3>1. \A o \in DOMAIN outs : o = h.out \/ o \in DOMAIN outs'
                BY <2>2
            <3>2. \A b \in Planned : b.op = "restore" => b \in Planned'
                BY <1>4, <2>1
            <3>3. QED
                BY <1>3, <2>3, <3>1, <3>2
        <2>9. QED
            BY <1>6, <2>6, <2>7, <2>8
    <1>10. ASSUME RestoreForCheck PROVE CheckInv'
        <2>1. h.op = "restore" /\ RestoredByCheck(h.out)
            BY <1>10, RestoreForCheckIs DEF RestoreForCheck, HeadIs, h
        <2>2. /\ DOMAIN outs' = DOMAIN outs \cup {h.out} /\ outs'[h.out].status = "Unspent"
              /\ \A x \in DOMAIN outs \ {h.out} : outs'[x] = outs[x]
            BY <2>1 DEF RestoredByCheck
        <2>3. \A b \in Planned : b.op \in {"unspend", "delete"} => b \in Planned'
            BY <1>4, <2>1
        <2>4. \A b \in Planned : b.out # h.out => b \in Planned'
            BY <1>4
        <2>5. Found
            BY <1>3, <2>2, <2>4
        <2>6. Marks
            BY <1>3, <2>2, <2>3
        <2>7. Deletes
            BY <1>3, <2>2, <2>3 DEF Unconfirmed
        <2>8. QED
            BY <1>6, <2>5, <2>6, <2>7
    <1>11. ~RestoreForRestore
        BY <1>1 DEF RestoreForRestore
    <1>12. QED
        BY <1>7, <1>8, <1>9, <1>10, <1>11 DEF BatchStep

LEMMA CheckKept ==
    ASSUME TypeOK, Shapes, SessionInv, PlanInv, CheckInv, Next
    PROVE  CheckInv'
    <1>1. CASE UNCHANGED <<job, todo>> /\ (job.kind = "none" \/ UNCHANGED db)
        BY <1>1 DEF CheckInv, Scanned, Planned, Unconfirmed, db
    <1>2. CASE JobEnds
        BY <1>2 DEF JobEnds, Idle, CheckInv
    <1>3. ASSUME NEW kind, NEW delete, Begin(kind, delete) PROVE CheckInv'
        BY <1>3 DEF Begin, CheckInv, Scanned
    <1>4. CASE Scan
        BY <1>4, CheckPlanned
    <1>5. CASE BatchStep
        BY <1>5, CheckAdvances
    <1>6. QED
        BY <1>1, <1>2, <1>3, <1>4, <1>5, JobFrame DEF CheckRepair

\* Nothing is planned any more when a check is over.
LEMMA CheckEnds ==
    ASSUME CheckInv, TypeOK
    PROVE  CheckIsComplete
    <1> SUFFICES ASSUME job.kind = "check", todo = <<>> PROVE CheckIsComplete
        BY DEF CheckIsComplete
    <1>1. Planned = {} /\ Scanned
        BY EndOfPlan DEF Scanned
    <1>2. \A o \in DOMAIN outs : outs[o].status \in Status
        BY DEF TypeOK, OutputData
    <1>3. QED
        BY <1>1, <1>2 DEF CheckInv, CheckIsComplete, Unconfirmed, Status

-----------------------------------------------------------------------------
(* The invariant.                                                          *)

LEMMA InitIInv ==
    ASSUME Init
    PROVE  IInv
    <1>1. /\ outs = <<>> /\ log = NoLog /\ idx = Unused /\ labels = DefaultLabels
          /\ active = 0 /\ job = Idle /\ todo = <<>> /\ jobs = 0
          /\ made \in Histories /\ utxo = made /\ torn = FALSE
          /\ seedFile = NoFile /\ password = NoPassword /\ connected = FALSE
          /\ cli = Off /\ written = 0
        BY DEF Init, SessionInit
    <1>2. /\ made \subseteq Output /\ IsFiniteSet(made) /\ 0 \in Paths
          /\ MaxJobs \in Nat /\ MaxKeys \in Nat
        BY <1>1, RecoveryAssumption DEF RecoveryAssumption, Paths
    <1>3. DOMAIN outs = {}
        BY <1>1
    <1>4. job.kind = "none" /\ job.found = {} /\ cli.at = "off"
        BY <1>1 DEF Idle, Off
    <1>5. log \in [Paths -> Seq(TxLogEntry)]
        <2>1. <<>> \in Seq(TxLogEntry)
            OBVIOUS
        <2>2. QED
            BY <1>1, <2>1 DEF NoLog
    <1>6. /\ DOMAIN labels = {DefaultLabel} /\ labels[DefaultLabel] = 0
        BY <1>1 DEF DefaultLabels
    <1>7. SessionTypeOK
        <2>1. seedFile \in SeedFile
            BY <1>1 DEF SeedFile, NoFile
        <2>2. cli \in [at : Places, seed : Seeds \cup {NoSeed}, loop : BOOLEAN]
            BY <1>1 DEF Off, Places
        <2>3. written \in 0 .. MaxSeedFiles
            BY <1>1, SessionAssumption DEF SessionAssumption
        <2>4. QED
            BY <1>1, <2>1, <2>2, <2>3 DEF SessionTypeOK
    <1>8. TypeOK
        <2>1. idx \in [Paths -> 0 .. MaxKeys]
            BY <1>1, <1>2 DEF Unused
        <2>2. DOMAIN labels \subseteq Labels /\ \A l \in DOMAIN labels : labels[l] \in Paths
            BY <1>2, <1>6 DEF Labels
        <2>3. jobs \in 0 .. MaxJobs
            BY <1>1, <1>2
        <2>4. <<>> \in Seq(Batch) /\ job \in Job
            BY <1>1 DEF Idle, Job
        <2>5. QED
            BY <1>1, <1>2, <1>3, <1>4, <1>5, <1>7, <2>1, <2>2, <2>3, <2>4 DEF TypeOK
    <1>9. Shapes
        BY <1>1, <1>2, <1>4, <1>5, <1>8 DEF Shapes, TypeOK
    <1>10. SessionInv
        BY <1>1, <1>4 DEF SessionInv, SessionCanOpen, NoFile
    <1>11. DefaultIsLabelled /\ SeedInv
        BY <1>1, <1>3, <1>4, <1>6 DEF DefaultIsLabelled, SeedInv
    <1>12. PlanInv /\ RestoreInv /\ CheckInv /\ EntriesResolve
        BY <1>3, <1>4 DEF PlanInv, RestoreInv, CheckInv, EntriesResolve, Scanned
    <1>13. QED
        BY <1>8, <1>9, <1>10, <1>11, <1>12 DEF IInv

LEMMA NextIInv ==
    ASSUME IInv, Next
    PROVE  IInv'
    <1>1. /\ TypeOK /\ Shapes /\ SessionInv /\ DefaultIsLabelled /\ SeedInv
          /\ PlanInv /\ RestoreInv /\ CheckInv /\ EntriesResolve
        BY DEF IInv
    <1>2. TypeOK' /\ Shapes'
        BY <1>1, TypesKept
    <1>3. SessionInv'
        BY <1>1, SessionKept DEF TypeOK
    <1>4. DefaultIsLabelled'
        BY <1>1, LabelsTyped
    <1>5. SeedInv'
        BY <1>1, SeedKept
    <1>6. PlanInv'
        BY <1>1, PlanKept
    <1>7. RestoreInv'
        BY <1>1, RestoreKept
    <1>8. CheckInv'
        BY <1>1, CheckKept
    <1>9. EntriesResolve'
        BY <1>1, EntriesKept
    <1>10. QED
        BY <1>2, <1>3, <1>4, <1>5, <1>6, <1>7, <1>8, <1>9 DEF IInv

LEMMA StutterIInv ==
    ASSUME IInv, UNCHANGED vars
    PROVE  IInv'
    <1>1. UNCHANGED <<seedFile, password, connected, cli, written, outs, log, idx, labels,
                      active, job, todo, jobs, made, utxo, torn>>
        BY DEF vars, session, db, chain
    <1>2. TypeOK' /\ Shapes' /\ DefaultIsLabelled'
        BY <1>1 DEF IInv, TypeOK, SessionTypeOK, Shapes, DefaultIsLabelled
    <1>3. SessionInv' /\ SeedInv'
        BY <1>1 DEF IInv, SessionInv, SessionCanOpen, Decrypts, SeedInv, HasSeed
    <1>4. PlanInv' /\ CheckInv'
        BY <1>1 DEF IInv, PlanInv, CheckInv, Scanned, Planned, Unconfirmed
    <1>5. RestoreInv'
        BY <1>1, SMTT(30) DEF IInv, RestoreInv, RestoredInv, Scanned, Planned, OutputDue, EntryDue,
                    IndexDue, LabelDue
    <1>6. EntriesResolve'
        BY <1>1 DEF IInv, EntriesResolve, EntrySaved
    <1>7. QED
        BY <1>2, <1>3, <1>4, <1>5, <1>6 DEF IInv

\* The inductive invariant holds in every state the wallet can reach: what the
\* theorems below read off.
LEMMA IInvHolds == Spec => []IInv
    <1>1. Init => IInv
        BY InitIInv
    <1>2. IInv /\ [Next]_vars => IInv'
        BY NextIInv, StutterIInv
    <1>3. QED
        BY <1>1, <1>2, PTL DEF Spec

\* The records, the plan and the log ids keep their shapes: every call, every batch
\* of a restore or a check (internal/restore.rs) and every way to lose the process
\* leave outputs, log entries, indices and labels well formed, and the batches that
\* are left are of the kinds that file commits, for outputs and accounts that exist.
THEOREM RecoveryTyped == Spec => []TypeOK
    <1>1. IInv => TypeOK
        BY DEF IInv
    <1>2. QED
        BY <1>1, IInvHolds, PTL

\* No order of `init`, `recover`, passwords and crashes leaves the prompt with an
\* open database whose seed file the remembered password does not open.
THEOREM SessionOpens == Spec => []SessionCanOpen
    <1>1. IInv => SessionCanOpen
        BY DEF IInv, SessionInv
    <1>2. QED
        BY <1>1, IInvHolds, PTL

\* The owner API never works with outputs of a seed that `seed recover` replaced,
\* unless a recovery was cut short.
THEOREM DatabaseIsOfSeed == Spec => []DbIsOfSeed
    <1>1. IInv => DbIsOfSeed
        BY DEF IInv, SeedInv, DbIsOfSeed, CanOpen
    <1>2. QED
        BY <1>1, IInvHolds, PTL

\* Outside a restore each output names a log entry that is saved in its account,
\* unless a recovery was cut short: a restore saves the entries it reserves.
THEOREM EntriesAreSaved == Spec => []EntriesResolve
    <1>1. IInv => EntriesResolve
        BY DEF IInv
    <1>2. QED
        BY <1>1, IInvHolds, PTL

\* Whatever the scan found and in whatever order the accounts came, a restore that
\* has committed its batches holds just these outputs, unspent, each with its
\* confirmed entry, an account that has a label, and a next child above it.
THEOREM RestoreCompletes == Spec => []RestoreIsComplete
    <1>1. IInv => RestoreIsComplete
        BY RestoreEnds DEF IInv, RestoreIsComplete
    <1>2. QED
        BY <1>1, IInvHolds, PTL

\* A check that has committed its batches has lost nothing that it found but what
\* delete_unconfirmed names: an output the scan found is among the outputs, and not
\* spent, unless it was unconfirmed at that scan (check_repair deletes such an
\* output on the chain or not).  With delete_unconfirmed nothing is left
\* unconfirmed, and nothing on the chain locked.
THEOREM CheckCompletes == Spec => []CheckIsComplete
    <1>1. IInv => CheckIsComplete
        BY CheckEnds DEF IInv
    <1>2. QED
        BY <1>1, IInvHolds, PTL
=============================================================================
