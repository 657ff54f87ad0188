---------------------------- MODULE SequenceFacts ----------------------------
(***************************************************************************)
(* Induction over numbers stated with a set, which the provers can         *)
(* instantiate, and what it says of the sequence operators that more than  *)
(* one proof needs.                                                        *)
(***************************************************************************)
EXTENDS SequencesExt, SequenceTheorems, FiniteSetTheorems, WellFoundedInduction,
        TLAPS

\* A set of numbers with 0 and every successor is all of them.
LEMMA NatSetInduction ==
    ASSUME NEW T \in SUBSET Nat, 0 \in T, \A n \in T : n + 1 \in T
    PROVE  T = Nat
    <1> SUFFICES ASSUME Nat \ T # {} PROVE FALSE
        OBVIOUS
    <1>1. PICK n \in Nat \ T : \A m \in Nat \ T : ~(<<m, n>> \in OpToRel(<, Nat))
        BY NatLessThanWellFounded, WFMin
    <1>2. n # 0 /\ n - 1 \in Nat
        OBVIOUS
    <1>3. <<n - 1, n>> \in OpToRel(<, Nat)
        BY <1>2 DEF OpToRel
    <1>4. n - 1 \in T
        BY <1>1, <1>2, <1>3
    <1>5. QED
        BY <1>2, <1>4

\* A set of numbers that is not empty has a least one.
LEMMA NatSetHasMin ==
    ASSUME NEW T \in SUBSET Nat, T # {}
    PROVE  \E n \in T : \A m \in T : n <= m
    <1>1. PICK n \in T : \A m \in T : ~(<<m, n>> \in OpToRel(<, Nat))
        BY NatLessThanWellFounded, WFMin
    <1>2. \A m \in T : ~(m < n)
        BY <1>1 DEF OpToRel
    <1>3. QED
        BY <1>2

\* A set of numbers with a bound that is not empty has a greatest one.
LEMMA BoundedSetHasMax ==
    ASSUME NEW T \in SUBSET Nat, T # {}, NEW N \in Nat, \A m \in T : m <= N
    PROVE  \E n \in T : \A m \in T : m <= n
    <1> DEFINE U == {k \in Nat : \A m \in T : m <= k}
    <1>1. U # {} /\ U \in SUBSET Nat
        OBVIOUS
    <1>2. PICK n \in U : \A m \in U : n <= m
        BY <1>1, NatSetHasMin
    <1>3. CASE n \in T
        BY <1>3
    <1>4. CASE n \notin T
        <2>1. \A m \in T : m <= n - 1 /\ n - 1 \in Nat
            BY <1>4
        <2>2. n - 1 \in U
            BY <2>1
        <2>3. QED
            BY <1>2, <2>2
    <1>5. QED
        BY <1>3, <1>4

-----------------------------------------------------------------------------
(* The elements of sequences.                                              *)

LEMMA ToSetOfSeq ==
    ASSUME NEW S, NEW s \in Seq(S)
    PROVE  ToSet(s) \subseteq S /\ (s # <<>> => Head(s) \in ToSet(s))
    BY DEF ToSet

LEMMA ExceptInSeq ==
    ASSUME NEW S, NEW s \in Seq(S), NEW i, NEW e \in S
    PROVE  /\ [s EXCEPT ![i] = e] \in Seq(S)
           /\ DOMAIN [s EXCEPT ![i] = e] = DOMAIN s
           /\ \A j \in DOMAIN s : [s EXCEPT ![i] = e][j] = IF j = i THEN e ELSE s[j]
    <1> DEFINE t == [s EXCEPT ![i] = e]
    <1>1. Len(s) \in Nat /\ s \in [1 .. Len(s) -> S]
        BY LenProperties
    <1>2. t \in [1 .. Len(s) -> S]
        BY <1>1
    <1>3. DOMAIN t = DOMAIN s /\ \A j \in DOMAIN s : t[j] = IF j = i THEN e ELSE s[j]
        BY <1>1
    <1> HIDE DEF t
    <1>4. t \in Seq(S)
        BY <1>1, <1>2, SeqDef
    <1>5. QED
        BY <1>3, <1>4 DEF t

LEMMA ToSetOfConcat ==
    ASSUME NEW S, NEW s \in Seq(S), NEW t \in Seq(S)
    PROVE  ToSet(s \o t) = ToSet(s) \cup ToSet(t)
    <1>1. /\ s \o t \in Seq(S) /\ Len(s \o t) = Len(s) + Len(t)
          /\ \A i \in 1 .. Len(s) + Len(t) : (s \o t)[i] =
                IF i <= Len(s) THEN s[i] ELSE t[i - Len(s)]
        BY ConcatProperties
    <1>2. Len(s) \in Nat /\ Len(t) \in Nat
        OBVIOUS
    <1>3. /\ DOMAIN (s \o t) = 1 .. Len(s) + Len(t)
          /\ DOMAIN s = 1 .. Len(s) /\ DOMAIN t = 1 .. Len(t)
        BY <1>1
    <1>4. \A x \in ToSet(s \o t) : x \in ToSet(s) \cup ToSet(t)
        <2> SUFFICES ASSUME NEW i \in 1 .. Len(s) + Len(t)
                     PROVE  (s \o t)[i] \in ToSet(s) \cup ToSet(t)
            BY <1>3 DEF ToSet
        <2>1. CASE i <= Len(s)
            BY <1>1, <1>2, <1>3, <2>1 DEF ToSet
        <2>2. CASE ~(i <= Len(s))
            <3>1. i - Len(s) \in 1 .. Len(t)
                BY <1>2, <2>2
            <3>2. QED
                BY <1>1, <1>3, <2>2, <3>1 DEF ToSet
        <2>3. QED
            BY <2>1, <2>2
    <1>5. \A x \in ToSet(s) : x \in ToSet(s \o t)
        <2> SUFFICES ASSUME NEW i \in 1 .. Len(s)
                     PROVE  s[i] \in ToSet(s \o t)
            BY <1>3 DEF ToSet
        <2>1. i \in 1 .. Len(s) + Len(t) /\ i <= Len(s)
            BY <1>2
        <2>2. QED
            BY <1>1, <1>3, <2>1 DEF ToSet
    <1>6. \A x \in ToSet(t) : x \in ToSet(s \o t)
        <2> SUFFICES ASSUME NEW i \in 1 .. Len(t)
                     PROVE  t[i] \in ToSet(s \o t)
            BY <1>3 DEF ToSet
        <2>1. /\ i + Len(s) \in 1 .. Len(s) + Len(t)
              /\ ~(i + Len(s) <= Len(s)) /\ (i + Len(s)) - Len(s) = i
            BY <1>2
        <2>2. (s \o t)[i + Len(s)] = t[i]
            BY <1>1, <2>1
        <2>3. QED
            BY <1>3, <2>1, <2>2 DEF ToSet
    <1>7. QED
        BY <1>4, <1>5, <1>6

LEMMA ToSetOfTail ==
    ASSUME NEW S, NEW s \in Seq(S), s # <<>>
    PROVE  ToSet(s) = {Head(s)} \cup ToSet(Tail(s))
    <1>1. /\ Tail(s) \in Seq(S) /\ Len(Tail(s)) = Len(s) - 1
          /\ \A i \in 1 .. Len(Tail(s)) : Tail(s)[i] = s[i + 1]
        BY HeadTailProperties
    <1>2. Len(s) \in Nat \ {0} /\ Head(s) = s[1]
        BY EmptySeq
    <1>3. DOMAIN s = 1 .. Len(s) /\ DOMAIN Tail(s) = 1 .. Len(s) - 1
        BY <1>1
    <1>4. \A i \in 1 .. Len(s) : s[i] \in {Head(s)} \cup ToSet(Tail(s))
        <2> TAKE i \in 1 .. Len(s)
        <2>1. CASE i = 1
            BY <1>2, <2>1
        <2>2. CASE i # 1
            <3>1. i - 1 \in 1 .. Len(s) - 1 /\ (i - 1) + 1 = i
                BY <1>2, <2>2
            <3>2. QED
                BY <1>1, <1>3, <3>1 DEF ToSet
        <2>3. QED
            BY <2>1, <2>2
    <1>5. \A i \in 1 .. Len(s) - 1 : Tail(s)[i] = s[i + 1] /\ i + 1 \in 1 .. Len(s)
        BY <1>1, <1>2
    <1>6. ToSet(Tail(s)) \subseteq ToSet(s)
        BY <1>3, <1>5 DEF ToSet
    <1>7. Head(s) \in ToSet(s)
        BY ToSetOfSeq
    <1>8. ToSet(s) \subseteq {Head(s)} \cup ToSet(Tail(s))
        BY <1>3, <1>4 DEF ToSet
    <1>9. QED
        BY <1>6, <1>7, <1>8

\* A sequence of elements of a finite set, as long as the set has elements and
\* without repetition, has all of them.
LEMMA SequenceOfAll ==
    ASSUME NEW S, IsFiniteSet(S), NEW f \in [1 .. Cardinality(S) -> S],
           \A i, j \in 1 .. Cardinality(S) : f[i] = f[j] => i = j
    PROVE  f \in Seq(S) /\ \A x \in S : \E i \in DOMAIN f : f[i] = x
    <1> DEFINE n == Cardinality(S)
    <1>1. n \in Nat
        BY FS_CardinalityType
    <1>2. f \in Injection(1 .. n, S)
        BY DEF Injection, IsInjective
    <1>3. IsFiniteSet(1 .. n) /\ Cardinality(1 .. n) = n
        BY <1>1, FS_Interval
    <1>4. f \in Surjection(1 .. n, S)
        <2>1. Cardinality(1 .. n) = Cardinality(S) <=> f \in Surjection(1 .. n, S)
            BY <1>2, FS_Injection
        <2>2. QED
            BY <1>3, <2>1
    <1>5. f \in Seq(S)
        BY <1>1, IsASeq
    <1>6. QED
        BY <1>4, <1>5 DEF Surjection

\* The sequence of a finite set has each element in one place.
LEMMA SetToSeqIsBijective ==
    ASSUME NEW S, IsFiniteSet(S)
    PROVE  /\ SetToSeq(S) \in Seq(S)
           /\ \A i, j \in DOMAIN SetToSeq(S) : SetToSeq(S)[i] = SetToSeq(S)[j] => i = j
           /\ \A x \in S : \E i \in DOMAIN SetToSeq(S) : SetToSeq(S)[i] = x
    <1> DEFINE n == Cardinality(S)
               f == SetToSeq(S)
    <1>1. n \in Nat /\ ExistsBijection(1 .. n, S)
        BY FS_CardinalityType
    <1>2. \E g \in [1 .. n -> S] : IsInjective(g)
        BY <1>1 DEF ExistsBijection, Bijection, Injection
    <1>3. f \in [1 .. n -> S] /\ IsInjective(f)
        BY <1>2 DEF SetToSeq
    <1> HIDE DEF f
    <1>4. \A i, j \in DOMAIN f : f[i] = f[j] => i = j
        BY <1>3 DEF IsInjective
    <1>5. f \in Seq(S) /\ \A x \in S : \E i \in DOMAIN f : f[i] = x
        BY <1>3, <1>4, SequenceOfAll
    <1>6. QED
        BY <1>4, <1>5 DEF f

\* So has each sequence of all its elements without repetition.
LEMMA SetToSeqsAreBijective ==
    ASSUME NEW S, IsFiniteSet(S), NEW f \in SetToSeqs(S)
    PROVE  /\ f \in Seq(S)
           /\ \A i, j \in DOMAIN f : f[i] = f[j] => i = j
           /\ \A x \in S : \E i \in DOMAIN f : f[i] = x
    <1>1. /\ f \in [1 .. Cardinality(S) -> S]
          /\ \A i, j \in 1 .. Cardinality(S) : f[i] = f[j] => i = j
        BY DEF SetToSeqs
    <1>2. QED
        BY <1>1, SequenceOfAll

-----------------------------------------------------------------------------
(* Flattening a sequence of sequences.                                     *)

\* f holds what FlattenSeq has of the first m sequences of q after each of them.
Flattens(f, q, m) ==
    f = [i \in 1 .. m |-> IF i = 1 THEN q[i] ELSE f[i - 1] \o q[i]]

LEMMA FlattensExists ==
    ASSUME NEW q, NEW n \in Nat
    PROVE  \E f : Flattens(f, q, n)
    <1> DEFINE T == {m \in Nat : \E f : Flattens(f, q, m)}
    <1>1. 0 \in T
        <2>1. Flattens([i \in 1 .. 0 |-> 0], q, 0)
            BY DEF Flattens
        <2>2. QED
            BY <2>1
    <1>2. ASSUME NEW m \in T PROVE m + 1 \in T
        <2>1. PICK f : Flattens(f, q, m)
            OBVIOUS
        <2> DEFINE new == [i \in 1 .. m + 1 |->
                            IF i = m + 1 THEN (IF i = 1 THEN q[i] ELSE f[i - 1] \o q[i])
                                         ELSE f[i]]
        <2>2. ASSUME NEW i \in 1 .. m + 1
              PROVE  new[i] = IF i = 1 THEN q[i] ELSE new[i - 1] \o q[i]
            <3>1. CASE i = m + 1
                <4>1. i # 1 => new[i - 1] = f[i - 1]
                    BY <3>1
                <4>2. QED
                    BY <3>1, <4>1
            <3>2. CASE i # m + 1
                <4>1. i \in 1 .. m /\ new[i] = f[i]
                    BY <3>2
                <4>2. f[i] = IF i = 1 THEN q[i] ELSE f[i - 1] \o q[i]
                    BY <2>1, <4>1 DEF Flattens
                <4>3. i # 1 => new[i - 1] = f[i - 1]
                    BY <4>1
                <4>4. QED
                    BY <4>1, <4>2, <4>3
            <3>3. QED
                BY <3>1, <3>2
        <2>3. new = [i \in 1 .. m + 1 |-> new[i]]
            OBVIOUS
        <2> HIDE DEF new
        <2>4. Flattens(new, q, m + 1)
            BY <2>2, <2>3 DEF Flattens
        <2>5. QED
            BY <2>4
    <1> HIDE DEF T
    <1>3. T = Nat
        <2>1. T \in SUBSET Nat
            BY DEF T
        <2>2. QED
            BY <1>1, <1>2, <2>1, NatSetInduction
    <1>4. QED
        BY <1>3 DEF T

\* The elements of the flat sequence are those of its parts.
LEMMA FlattenSeqIs ==
    ASSUME NEW S, NEW q \in Seq(Seq(S))
    PROVE  /\ FlattenSeq(q) \in Seq(S)
           /\ ToSet(FlattenSeq(q)) = UNION {ToSet(q[i]) : i \in DOMAIN q}
    <1> DEFINE n == Len(q)
    <1>1. n \in Nat /\ DOMAIN q = 1 .. n
        OBVIOUS
    <1>2. CASE n = 0
        <2>1. q = <<>>
            BY <1>2, EmptySeq
        <2>2. FlattenSeq(q) = <<>>
            BY <2>1 DEF FlattenSeq
        <2>3. ToSet(<<>>) = {} /\ DOMAIN q = {}
            BY <2>1 DEF ToSet
        <2>4. QED
            BY <2>2, <2>3
    <1>3. CASE n # 0
        <2> DEFINE f == CHOOSE g : Flattens(g, q, n)
                   Parts(m) == UNION {ToSet(q[i]) : i \in 1 .. m}
                   T == {m \in Nat : m + 1 <= n =>
                            f[m + 1] \in Seq(S) /\ ToSet(f[m + 1]) = Parts(m + 1)}
        <2>1. Flattens(f, q, n)
            BY <1>1, FlattensExists
        <2>2. FlattenSeq(q) = f[n]
            BY <1>3 DEF FlattenSeq, Flattens
        <2> HIDE DEF f
        <2>3. \A i \in 1 .. n : f[i] = IF i = 1 THEN q[i] ELSE f[i - 1] \o q[i]
            BY <2>1 DEF Flattens
        <2>4. 0 \in T
            <3>1. f[1] = q[1] /\ 1 \in DOMAIN q
                BY <1>1, <1>3, <2>3
            <3>2. Parts(1) = ToSet(q[1])
                <4>1. 1 .. 1 = {1}
                    OBVIOUS
                <4>2. QED
                    BY <4>1
            <3>3. f[0 + 1] \in Seq(S) /\ ToSet(f[0 + 1]) = Parts(0 + 1)
                BY <1>1, <1>3, <3>1, <3>2
            <3> HIDE DEF Parts
            <3>4. QED
                BY <3>3
        <2>5. ASSUME NEW m \in T PROVE m + 1 \in T
            <3> SUFFICES ASSUME (m + 1) + 1 <= n
                         PROVE  /\ f[(m + 1) + 1] \in Seq(S)
                                /\ ToSet(f[(m + 1) + 1]) = Parts((m + 1) + 1)
                OBVIOUS
            <3> DEFINE k == (m + 1) + 1
            <3>1. k \in 1 .. n /\ k # 1 /\ k - 1 = m + 1 /\ m + 1 <= n /\ m \in Nat
                BY <1>1
            <3>2. f[k] = f[m + 1] \o q[k]
                BY <2>3, <3>1
            <3>3. f[m + 1] \in Seq(S) /\ ToSet(f[m + 1]) = Parts(m + 1)
                BY <3>1
            <3>4. q[k] \in Seq(S)
                BY <1>1, <3>1
            <3>5. ToSet(f[k]) = ToSet(f[m + 1]) \cup ToSet(q[k])
                <4>1. \A s, t \in Seq(S) : ToSet(s \o t) = ToSet(s) \cup ToSet(t)
                    BY ToSetOfConcat
                <4> HIDE DEF k
                <4>2. QED
                    BY <3>2, <3>3, <3>4, <4>1, Zenon
            <3>6. Parts(k) = Parts(m + 1) \cup ToSet(q[k])
                <4>1. 1 .. k = (1 .. m + 1) \cup {k}
                    BY <3>1
                <4> HIDE DEF k
                <4>2. QED
                    BY <4>1
            <3>7. f[k] \in Seq(S)
                <4> HIDE DEF k
                <4>1. QED
                    BY <3>2, <3>3, <3>4, ConcatProperties, Zenon
            <3>8. QED
                BY <3>3, <3>5, <3>6, <3>7
        <2> HIDE DEF T
        <2>6. T = Nat
            <3>1. T \in SUBSET Nat
                BY DEF T
            <3>2. QED
                BY <2>4, <2>5, <3>1, NatSetInduction
        <2>7. n - 1 \in Nat /\ (n - 1) + 1 = n
            BY <1>1, <1>3
        <2>8. f[n] \in Seq(S) /\ ToSet(f[n]) = Parts(n)
            <3>1. n - 1 \in T
                BY <2>6, <2>7
            <3>2. QED
                BY <2>7, <3>1 DEF T
        <2>9. QED
            BY <1>1, <2>2, <2>8
    <1>4. QED
        BY <1>2, <1>3

\* What F gives for each element of a finite set, one after the other.
FlatOver(F, S) ==
    LET q == SetToSeq(S) IN FlattenSeq([i \in DOMAIN q |-> F[q[i]]])

LEMMA FlatOverIs ==
    ASSUME NEW T, NEW S, IsFiniteSet(S), NEW F \in [S -> Seq(T)]
    PROVE  /\ FlatOver(F, S) \in Seq(T)
           /\ ToSet(FlatOver(F, S)) = UNION {ToSet(F[x]) : x \in S}
    <1> DEFINE q == SetToSeq(S)
               r == [i \in DOMAIN q |-> F[q[i]]]
    <1>1. q \in Seq(S) /\ \A x \in S : \E i \in DOMAIN q : q[i] = x
        BY SetToSeqIsBijective
    <1>2. FlatOver(F, S) = FlattenSeq(r)
        BY DEF FlatOver
    <1> HIDE DEF q
    <1>3. r \in Seq(Seq(T))
        <2>1. Len(q) \in Nat /\ DOMAIN q = 1 .. Len(q)
            BY <1>1
        <2>2. r \in [1 .. Len(q) -> Seq(T)]
            BY <1>1, <2>1
        <2> HIDE DEF r
        <2>3. QED
            BY <2>1, <2>2, SeqDef
    <1>4. DOMAIN r = DOMAIN q /\ \A i \in DOMAIN q : r[i] = F[q[i]] /\ q[i] \in S
        BY <1>1
    <1> HIDE DEF r
    <1>5. /\ FlattenSeq(r) \in Seq(T)
          /\ ToSet(FlattenSeq(r)) = UNION {ToSet(r[i]) : i \in DOMAIN r}
        BY <1>3, FlattenSeqIs
    <1>6. UNION {ToSet(r[i]) : i \in DOMAIN r} = UNION {ToSet(F[x]) : x \in S}
        BY <1>1, <1>4
    <1>7. QED
        BY <1>2, <1>5, <1>6
=============================================================================
