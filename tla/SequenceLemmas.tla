--------------------------- MODULE SequenceLemmas ---------------------------
(***************************************************************************)
(* What the proofs need to know of the operators on sequences.             *)
(*                                                                         *)
(* The induction principles of the library take a predicate as their       *)
(* parameter; SetInduction takes the set of the numbers that have the      *)
(* property instead, and follows from NatLessThanWellFounded: a set of     *)
(* numbers without a least element is empty.  With it a function defined   *)
(* by recursion is shown to exist and to meet its equation.                *)
(***************************************************************************)
EXTENDS Naturals, Sequences, SequencesExt, SequenceTheorems, WellFoundedInduction, TLAPS

(* A set with 0 and the successor of each of its numbers has them all. *)
LEMMA SetInduction ==
    ASSUME NEW S, 0 \in S, \A n \in Nat : n \in S => n + 1 \in S
    PROVE  Nat \subseteq S
<1>1. SUFFICES ASSUME Nat \ S # {} PROVE FALSE
    OBVIOUS
<1>2. PICK x \in Nat \ S : \A y \in Nat \ S : ~(<<y, x>> \in OpToRel(<, Nat))
    BY <1>1, WFMin, NatLessThanWellFounded, Zenon
<1>3. x # 0 /\ x - 1 \in Nat /\ x - 1 < x /\ (x - 1) + 1 = x
    OBVIOUS
<1>4. <<x - 1, x>> \in OpToRel(<, Nat)
    BY <1>3, Zenon DEF OpToRel
<1>5. x - 1 \in S
    BY <1>2, <1>3, <1>4, Zenon
<1> QED BY <1>3, <1>5

(* To append to the second of two sequences is to append to both. *)
LEMMA ConcatAppend ==
    ASSUME NEW S, NEW s \in Seq(S), NEW t \in Seq(S), NEW e \in S
    PROVE  s \o Append(t, e) = Append(s \o t, e)
<1>1. s \o t \in Seq(S) /\ <<e>> \in Seq(S)
  BY ConcatProperties
<1>2. Append(t, e) = t \o <<e>> /\ Append(s \o t, e) = (s \o t) \o <<e>>
  BY <1>1, AppendIsConcat
<1>3. (s \o t) \o <<e>> = s \o (t \o <<e>>)
  BY <1>1, ConcatAssociative
<1> QED BY <1>2, <1>3, Zenon

(* The first element of a sequence that follows another may as well be     *)
(* the last of that one.                                                   *)
LEMMA ConcatHeadTail ==
    ASSUME NEW S, NEW s \in Seq(S), NEW t \in Seq(S), t # <<>>
    PROVE  s \o t = Append(s, Head(t)) \o Tail(t)
<1>1. Head(t) \in S /\ Tail(t) \in Seq(S)
  BY HeadTailProperties
<1>2. t = <<Head(t)>> \o Tail(t)
  <2>1. Len(t) \in 1..Len(t) /\ 1 \in 1..Len(t)
    BY EmptySeq
  <2>2. SubSeq(t, 1, Len(t)) = <<t[1]>> \o SubSeq(t, 2, Len(t))
    BY <2>1, SubSeqRecursiveFirst
  <2>3. SubSeq(t, 1, Len(t)) = t /\ SubSeq(t, 2, Len(t)) = Tail(t) /\ Head(t) = t[1]
    BY SubSeqFull, TailIsSubSeq
  <2> QED BY <2>2, <2>3
<1>3. <<Head(t)>> \in Seq(S)
  BY <1>1
<1>4. (s \o <<Head(t)>>) \o Tail(t) = s \o (<<Head(t)>> \o Tail(t))
  BY <1>1, <1>3, ConcatAssociative
<1>5. Append(s, Head(t)) = s \o <<Head(t)>>
  BY <1>1, AppendIsConcat
<1> QED BY <1>2, <1>4, <1>5, Zenon

(* The first of two sequences, cut out of both by the length of the second. *)
LEMMA ConcatPrefix ==
    ASSUME NEW S, NEW s \in Seq(S), NEW t \in Seq(S)
    PROVE  SubSeq(s \o t, 1, Len(s \o t) - Len(t)) = s
<1>1. /\ s \o t \in Seq(S) /\ Len(s \o t) = Len(s) + Len(t)
      /\ Len(s) \in Nat /\ Len(t) \in Nat
      /\ \A i \in 1..Len(s) : (s \o t)[i] = s[i]
  BY ConcatProperties
<1>2. Len(s \o t) - Len(t) = Len(s)
  BY <1>1
<1> DEFINE both == s \o t
<1> HIDE DEF both
<1>3. \A i \in 1..Len(s) : both[i] \in S
  BY <1>1 DEF both
<1>4. /\ SubSeq(both, 1, Len(s)) \in Seq(S)
      /\ Len(SubSeq(both, 1, Len(s))) = Len(s)
      /\ \A i \in 1..Len(s) : SubSeq(both, 1, Len(s))[i] = both[i]
  BY <1>1, <1>3, SubSeqProperties
<1>5. SubSeq(both, 1, Len(s)) = s
  BY <1>1, <1>4, SeqEqual DEF both
<1> QED BY <1>2, <1>5 DEF both

-----------------------------------------------------------------------------
(* FlattenSeq of SequencesExt: the function f it defines over the first n  *)
(* sequences, and \o by a name, which keeps it apart from the arithmetic   *)
(* on the indices.                                                         *)
Joined(s, t) == s \o t
IsFlatten(f, seqs, n) == f = [i \in 1..n |-> IF i = 1 THEN seqs[i] ELSE Joined(f[i - 1], seqs[i])]

(* The first sequence is taken as it is, each other one is appended. *)
LEMMA FlattenSteps ==
    ASSUME NEW f, NEW seqs, NEW n \in Nat, IsFlatten(f, seqs, n)
    PROVE  /\ n > 0 => f[1] = seqs[1]
           /\ \A k \in 1..n : k + 1 <= n => f[k + 1] = Joined(f[k], seqs[k + 1])
<1>1. n > 0 => f[1] = seqs[1]
  BY DEF IsFlatten
<1>2. ASSUME NEW k \in 1..n, k + 1 <= n PROVE f[k + 1] = Joined(f[k], seqs[k + 1])
  <2>1. k + 1 \in 1..n /\ k + 1 # 1 /\ (k + 1) - 1 = k
    BY <1>2
  <2>2. f[k + 1] = Joined(f[(k + 1) - 1], seqs[k + 1])
    BY <2>1, Zenon DEF IsFlatten
  <2> QED BY <2>1, <2>2
<1> QED BY <1>1, <1>2

(* There is such a function for every number of sequences. *)
LEMMA FlattenExists == ASSUME NEW seqs, NEW n \in Nat PROVE \E f : IsFlatten(f, seqs, n)
<1> DEFINE S == {k \in Nat : \E f : IsFlatten(f, seqs, k)}
<1>1. 0 \in S
  <2>1. IsFlatten([i \in 1..0 |-> <<>>], seqs, 0)
    BY DEF IsFlatten
  <2> QED BY <2>1
<1>2. ASSUME NEW k \in Nat, k \in S PROVE k + 1 \in S
  <2>1. PICK f : IsFlatten(f, seqs, k)
    BY <1>2
  <2> DEFINE g == [i \in 1..k + 1 |-> IF i \in 1..k THEN f[i]
                                      ELSE IF i = 1 THEN seqs[i] ELSE Joined(f[k], seqs[i])]
  <2>2. ASSUME NEW i \in 1..k + 1 
        PROVE  g[i] = IF i = 1 THEN seqs[i] ELSE Joined(g[i - 1], seqs[i])
    <3>1. CASE i = 1 /\ k = 0
      BY <3>1
    <3>2. CASE i = 1 /\ k # 0
      BY <2>1, <3>2, FlattenSteps
    <3>3. CASE i # 1 /\ i <= k
      <4>1. i - 1 \in 1..k /\ (i - 1) + 1 = i /\ i \in 1..k
        BY <3>3
      <4>2. f[i] = Joined(f[i - 1], seqs[i])
        BY <2>1, <4>1, FlattenSteps
      <4> QED BY <3>3, <4>1, <4>2
    <3>4. CASE i # 1 /\ i = k + 1
      <4>1. i - 1 = k /\ k \in 1..k /\ i \notin 1..k
        BY <3>4
      <4> QED BY <3>4, <4>1
    <3> QED BY <3>1, <3>2, <3>3, <3>4
  <2>3. IsFlatten(g, seqs, k + 1)
    BY <2>2, Zenon DEF IsFlatten
  <2> QED BY <2>3
<1> HIDE DEF S
<1>3. Nat \subseteq S
    BY <1>1, <1>2, SetInduction
<1> QED BY <1>3 DEF S

(* It gives what FlattenSeq returns. *)
LEMMA FlattenIsFlatten ==
    ASSUME NEW seqs, Len(seqs) \in Nat \ {0}
    PROVE  \E f : IsFlatten(f, seqs, Len(seqs)) /\ FlattenSeq(seqs) = f[Len(seqs)]
<1>1. \E f : IsFlatten(f, seqs, Len(seqs))
  BY FlattenExists
<1>2. IsFlatten(CHOOSE f : IsFlatten(f, seqs, Len(seqs)), seqs, Len(seqs))
  BY <1>1
<1>3. FlattenSeq(seqs) = (CHOOSE f : IsFlatten(f, seqs, Len(seqs)))[Len(seqs)]
  <2>1. Len(seqs) # 0
    OBVIOUS
  <2> QED BY <2>1, Zenon DEF FlattenSeq, IsFlatten, Joined
<1> QED BY <1>2, <1>3

(* FlattenSeq of nothing is empty. *)
LEMMA FlattenEmpty == FlattenSeq(<<>>) = <<>>
BY DEF FlattenSeq

(* FlattenSeq of one sequence more is what it was, and that sequence. *)
LEMMA FlattenAppend ==
    ASSUME NEW S, NEW seqs \in Seq(Seq(S)), NEW s \in Seq(S)
    PROVE  FlattenSeq(Append(seqs, s)) = FlattenSeq(seqs) \o s
<1> DEFINE n == Len(seqs)
           more == Append(seqs, s)
<1>1. /\ n \in Nat /\ more \in Seq(Seq(S)) /\ Len(more) = n + 1
      /\ \A i \in 1..n : more[i] = seqs[i]
      /\ more[n + 1] = s
  BY AppendProperties
<1>2. PICK g : IsFlatten(g, more, n + 1) /\ FlattenSeq(more) = g[n + 1]
  <2>1. Len(more) \in Nat \ {0}
    BY <1>1
  <2> HIDE DEF more
  <2> QED BY <1>1, <2>1, FlattenIsFlatten
<1>3. \A k \in 1..n : g[k + 1] = Joined(g[k], more[k + 1])
  <2> HIDE DEF more
  <2>1. \A k \in 1..n + 1 : k + 1 <= n + 1 => g[k + 1] = Joined(g[k], more[k + 1])
    <3>1. n + 1 \in Nat
      BY <1>1
    <3> QED BY <1>2, <3>1, FlattenSteps
  <2> QED BY <1>1, <2>1
<1>4. CASE n = 0
  <2>1. seqs = <<>>
    BY <1>4
  <2>2. g[n + 1] = s
    BY <1>1, <1>2, <1>4 DEF IsFlatten
  <2>3. <<>> \o s = s
    OBVIOUS
  <2> QED BY <1>2, <2>1, <2>2, <2>3, FlattenEmpty
<1>5. CASE n # 0
  <2>1. PICK f : IsFlatten(f, seqs, n) /\ FlattenSeq(seqs) = f[n]
    BY <1>1, <1>5, FlattenIsFlatten
  <2> DEFINE P == {k \in Nat : k + 1 <= n => f[k + 1] = g[k + 1]}
  <2>2. 0 \in P
    BY <1>1, <1>2, <1>5, <2>1 DEF IsFlatten
  <2>3. ASSUME NEW k \in Nat, k \in P PROVE k + 1 \in P
    <3>1. SUFFICES ASSUME k + 2 <= n PROVE f[k + 2] = g[k + 2]
      OBVIOUS
    <3>2. f[k + 1] = g[k + 1] /\ k + 1 \in 1..n /\ k + 2 \in 1..n /\ (k + 1) + 1 = k + 2
      BY <1>1, <2>3, <3>1
    <3>3. f[k + 2] = Joined(f[k + 1], seqs[k + 2])
      BY <1>1, <2>1, <3>1, <3>2, FlattenSteps
    <3>4. g[k + 2] = Joined(g[k + 1], more[k + 2])
      BY <1>3, <3>2, Zenon
    <3>5. more[k + 2] = seqs[k + 2]
      BY <1>1, <3>2, Zenon
    <3> QED BY <3>2, <3>3, <3>4, <3>5, Zenon
  <2> HIDE DEF P
  <2>4. n - 1 \in P
    <3>1. Nat \subseteq P
      BY <2>2, <2>3, SetInduction
    <3> QED BY <1>1, <1>5, <3>1
  <2>5. f[n] = g[n]
    BY <1>1, <1>5, <2>4 DEF P
  <2>6. g[n + 1] = Joined(g[n], s)
    BY <1>1, <1>3, <1>5
  <2> QED BY <1>2, <2>1, <2>5, <2>6, Zenon DEF Joined
<1> QED BY <1>4, <1>5

(* FlattenSeq of sequences over a set is a sequence over that set. *)
LEMMA FlattenType ==
    ASSUME NEW S, NEW seqs \in Seq(Seq(S))
    PROVE  FlattenSeq(seqs) \in Seq(S)
<1> DEFINE n == Len(seqs)
<1>1. CASE n = 0
  <2>1. seqs = <<>>
    BY <1>1
  <2>2. <<>> \in Seq(S)
    OBVIOUS
  <2> QED BY <2>1, <2>2, FlattenEmpty, Zenon
<1>2. CASE n # 0
  <2>1. PICK f : IsFlatten(f, seqs, n) /\ FlattenSeq(seqs) = f[n]
    BY <1>2, FlattenIsFlatten
  <2> DEFINE P == {k \in Nat : k + 1 <= n => f[k + 1] \in Seq(S)}
  <2>2. 0 \in P
    BY <2>1 DEF IsFlatten
  <2>3. ASSUME NEW k \in Nat, k \in P PROVE k + 1 \in P
    <3>1. SUFFICES ASSUME k + 2 <= n PROVE f[k + 2] \in Seq(S)
      OBVIOUS
    <3>2. f[k + 2] = Joined(f[k + 1], seqs[k + 2])
      <4>1. k + 1 \in 1..n /\ (k + 1) + 1 = k + 2 /\ n \in Nat
        BY <3>1
      <4> QED BY <2>1, <3>1, <4>1, FlattenSteps
    <3>3. f[k + 1] \in Seq(S) /\ seqs[k + 2] \in Seq(S)
      BY <2>3, <3>1
    <3> QED BY <3>2, <3>3 DEF Joined
  <2> HIDE DEF P
  <2>4. n - 1 \in P
    <3>1. Nat \subseteq P
      BY <2>2, <2>3, SetInduction
    <3> QED BY <1>2, <3>1
  <2> QED BY <1>2, <2>1, <2>4 DEF P
<1> QED BY <1>1, <1>2

(* FlattenSeq of one sequence of sequences and another. *)
LEMMA FlattenConcat ==
    ASSUME NEW S, NEW q1 \in Seq(Seq(S)), NEW q2 \in Seq(Seq(S))
    PROVE  FlattenSeq(q1 \o q2) = FlattenSeq(q1) \o FlattenSeq(q2)
<1> DEFINE first(k) == SubSeq(q2, 1, k)
           P == {k \in Nat : k <= Len(q2) =>
                   FlattenSeq(q1 \o first(k)) = FlattenSeq(q1) \o FlattenSeq(first(k))}
<1>1. 0 \in P
  <2>1. first(0) = <<>> /\ q1 \o <<>> = q1
    BY SubSeqEmpty, ConcatEmptySeq
  <2>2. FlattenSeq(q1) \o <<>> = FlattenSeq(q1)
    BY FlattenType, ConcatEmptySeq
  <2> QED BY <2>1, <2>2, FlattenEmpty
<1>2. ASSUME NEW k \in Nat, k \in P PROVE k + 1 \in P
  <2>1. SUFFICES ASSUME k + 1 <= Len(q2)
                 PROVE  FlattenSeq(q1 \o first(k + 1)) = FlattenSeq(q1) \o FlattenSeq(first(k + 1))
    OBVIOUS
  <2>2. /\ first(k) \in Seq(Seq(S)) /\ q2[k + 1] \in Seq(S)
        /\ first(k + 1) = Append(first(k), q2[k + 1])
    <3>1. k + 1 \in 1..Len(q2) /\ (k + 1) - 1 = k /\ 1 \in 1..Len(q2)
      BY <2>1
    <3>2. first(k) \in Seq(Seq(S))
      <4>1. \A i \in 1..k : q2[i] \in Seq(S)
        BY <3>1
      <4> QED BY <4>1, SubSeqProperties
    <3>3. q2[k + 1] \in Seq(S)
      BY <3>1
    <3>4. first(k + 1) = first(k) \o <<q2[k + 1]>>
      <4>1. 1 \in 1..Len(q2) /\ k + 1 \in 1..Len(q2)
        BY <3>1
      <4>2. SubSeq(q2, 1, k + 1) = SubSeq(q2, 1, (k + 1) - 1) \o <<q2[k + 1]>>
        BY <4>1, SubSeqRecursiveSecond
      <4> QED BY <3>1, <4>2
    <3>5. Append(first(k), q2[k + 1]) = first(k) \o <<q2[k + 1]>>
      BY <3>2, <3>3, AppendIsConcat
    <3> QED BY <3>2, <3>3, <3>4, <3>5
  <2> HIDE DEF first
  <2>3. q1 \o first(k + 1) = Append(q1 \o first(k), q2[k + 1]) /\ q1 \o first(k) \in Seq(Seq(S))
    <3>1. q1 \o Append(first(k), q2[k + 1]) = Append(q1 \o first(k), q2[k + 1])
      BY <2>2, ConcatAppend
    <3>2. q1 \o first(k) \in Seq(Seq(S))
      BY <2>2, ConcatProperties
    <3> QED BY <2>2, <3>1, <3>2, Zenon
  <2>4. FlattenSeq(q1 \o first(k + 1)) = FlattenSeq(q1 \o first(k)) \o q2[k + 1]
    BY <2>2, <2>3, FlattenAppend
  <2>5. FlattenSeq(first(k + 1)) = FlattenSeq(first(k)) \o q2[k + 1]
    BY <2>2, FlattenAppend
  <2>6. FlattenSeq(q1 \o first(k)) = FlattenSeq(q1) \o FlattenSeq(first(k))
    BY <1>2, <2>1
  <2>7. /\ FlattenSeq(q1) \in Seq(S) /\ FlattenSeq(first(k)) \in Seq(S)
        /\ q2[k + 1] \in Seq(S)
    BY <2>2, FlattenType
  <2> HIDE DEF P
  <2>8. (FlattenSeq(q1) \o FlattenSeq(first(k))) \o q2[k + 1]
           = FlattenSeq(q1) \o (FlattenSeq(first(k)) \o q2[k + 1])
    <3> DEFINE a == FlattenSeq(q1)
               b == FlattenSeq(first(k))
               c == q2[k + 1]
    <3>1. a \in Seq(S) /\ b \in Seq(S) /\ c \in Seq(S)
      BY <2>7
    <3> HIDE DEF a, b, c
    <3>2. (a \o b) \o c = a \o (b \o c)
      BY <3>1, ConcatAssociative
    <3> QED BY <3>2, Zenon DEF a, b, c
  <2> QED BY <2>4, <2>5, <2>6, <2>8
<1> HIDE DEF P
<1>3. Len(q2) \in P
  <2>1. Nat \subseteq P
    BY <1>1, <1>2, SetInduction
  <2> QED BY <2>1
<1>4. first(Len(q2)) = q2
  BY SubSeqFull
<1>5. FlattenSeq(q1 \o first(Len(q2))) = FlattenSeq(q1) \o FlattenSeq(first(Len(q2)))
  <2> HIDE DEF first
  <2> QED BY <1>3 DEF P
<1> QED BY <1>4, <1>5

(* FlattenSeq of a sequence that is not empty begins with its first. *)
LEMMA FlattenTail ==
    ASSUME NEW S, NEW seqs \in Seq(Seq(S)), seqs # <<>>
    PROVE  FlattenSeq(seqs) = Head(seqs) \o FlattenSeq(Tail(seqs))
<1> DEFINE h == Head(seqs)
           t == Tail(seqs)
<1>1. h \in Seq(S) /\ t \in Seq(Seq(S))
  BY HeadTailProperties
<1>2. seqs = Append(<<>>, h) \o t /\ <<>> \in Seq(Seq(S))
  <2>1. <<>> \in Seq(Seq(S)) /\ <<>> \o seqs = seqs
    BY ConcatEmptySeq
  <2>2. <<>> \o seqs = Append(<<>>, Head(seqs)) \o Tail(seqs)
    BY <2>1, ConcatHeadTail
  <2> QED BY <2>1, <2>2
<1> HIDE DEF h, t
<1>3. Append(<<>>, h) \in Seq(Seq(S))
  BY <1>1, <1>2, AppendProperties
<1>4. FlattenSeq(Append(<<>>, h) \o t) = FlattenSeq(Append(<<>>, h)) \o FlattenSeq(t)
  BY <1>1, <1>3, FlattenConcat
<1>5. FlattenSeq(Append(<<>>, h)) = FlattenSeq(<<>>) \o h
  BY <1>1, <1>2, FlattenAppend
<1>6. FlattenSeq(<<>>) \o h = h
  BY <1>1, FlattenEmpty, ConcatEmptySeq
<1> QED BY <1>2, <1>4, <1>5, <1>6 DEF h, t

=============================================================================
