------------------------------- MODULE DataLemmas -------------------------------
(***************************************************************************)
(* Lemmas about numbers and sequences that the proofs about the boot and   *)
(* the command line share.  Induction over data goes by the least          *)
(* counterexample: what holds of 0 and passes to each successor is a set   *)
(* of numbers, and AllNumbers says that it has every number.               *)
(***************************************************************************)
EXTENDS Integers, SequencesExt, FiniteSetTheorems, SequenceTheorems, WellFoundedInduction, TLAPS

(* A set of numbers that is not empty has a least one. *)
LEMMA Least ==
  ASSUME NEW S, S \subseteq Nat, S # {}
  PROVE  \E n \in S : \A m \in S : n <= m
PROOF
<1> DEFINE R == OpToRel(<, Nat)
<1>1. IsWellFoundedOn(R, Nat)
  BY NatLessThanWellFounded
<1>2. \E x \in S : \A y \in S : ~(<<y, x>> \in R)
  <2> HIDE DEF R
  <2> QED
    BY <1>1, WFMin, Zenon
<1>3. ASSUME NEW x \in S, NEW y \in S, ~(<<y, x>> \in R)
      PROVE  x <= y
  <2>1. x \in Nat /\ y \in Nat
    OBVIOUS
  <2>2. ~(y < x)
    BY <1>3, <2>1, Zenon DEF OpToRel
  <2> QED
    BY <2>1, <2>2
<1> QED
  BY <1>2, <1>3

(* A set of numbers that has 0 and every successor has every number: the   *)
(* least that it has not would follow one that it has.                     *)
LEMMA AllNumbers ==
  ASSUME NEW S, 0 \in S, \A n \in Nat : n \in S => n + 1 \in S
  PROVE  Nat \subseteq S
PROOF
<1> SUFFICES ASSUME Nat \ S # {}
             PROVE  FALSE
  OBVIOUS
<1>1. PICK n \in Nat \ S : \A m \in Nat \ S : n <= m
  BY Least
<1>2. n # 0 /\ n - 1 \in Nat /\ ~(n <= n - 1) /\ (n - 1) + 1 = n
  BY <1>1
<1> QED
  BY <1>1, <1>2

-------------------------------------------------------------------------------
(* Sequences, one after the other. *)

(* FlattenSeq is a recursive function, which exists for every length.      *)
LEMMA FlatsExist ==
  ASSUME NEW b, NEW n \in Nat
  PROVE  \E f : f = [i \in 1 .. n |-> IF i = 1 THEN b[i] ELSE f[i - 1] \o b[i]]
PROOF
<1> DEFINE Body(f, i) == IF i = 1 THEN b[i] ELSE f[i - 1] \o b[i]
           S == {k \in Nat : \E f : f = [i \in 1 .. k |-> Body(f, i)]}
<1>1. 0 \in S
  <2> DEFINE f == [i \in 1 .. 0 |-> b[i]]
  <2>1. f = [i \in 1 .. 0 |-> Body(f, i)]
    OBVIOUS
  <2> QED
    BY <2>1
<1>2. ASSUME NEW k \in Nat, k \in S
      PROVE  k + 1 \in S
  <2>1. PICK f : f = [i \in 1 .. k |-> Body(f, i)]
    BY <1>2
  <2> DEFINE h == [i \in 1 .. (k + 1) |-> IF i = k + 1 THEN Body(f, k + 1) ELSE f[i]]
  <2>2. ASSUME NEW i \in 1 .. (k + 1)
        PROVE  h[i] = Body(h, i)
    <3>1. CASE i = k + 1
      <4>1. h[i] = Body(f, i)
        BY <3>1
      <4>2. i # 1 => h[i - 1] = f[i - 1]
        BY <3>1
      <4> HIDE DEF h
      <4> QED
        BY <4>1, <4>2
    <3>2. CASE i # k + 1
      <4>1. i \in 1 .. k /\ h[i] = f[i] /\ (i # 1 => h[i - 1] = f[i - 1])
        BY <3>2
      <4>2. f[i] = Body(f, i)
        <5> HIDE DEF Body
        <5> QED
          BY <2>1, <4>1
      <4> HIDE DEF h
      <4> QED
        BY <4>1, <4>2
    <3> QED
      BY <3>1, <3>2
  <2>3. h = [i \in 1 .. (k + 1) |-> Body(h, i)]
    <3>1. h = [i \in 1 .. (k + 1) |-> h[i]]
      OBVIOUS
    <3> HIDE DEF h, Body
    <3> QED
      BY <2>2, <3>1
  <2> HIDE DEF h, Body
  <2> QED
    BY <2>3
<1> HIDE DEF S
<1>3. Nat \subseteq S
  BY <1>1, <1>2, AllNumbers
<1> QED
  BY <1>3 DEF S

(* One sequence more. *)
LEMMA Flattens ==
  ASSUME NEW S, NEW b, NEW n \in Nat, \A i \in 1 .. (n + 1) : b[i] \in Seq(S)
  PROVE  FlattenSeq([i \in 1 .. (n + 1) |-> b[i]]) =
           IF n = 0 THEN b[1] ELSE FlattenSeq([i \in 1 .. n |-> b[i]]) \o b[n + 1]
PROOF
<1> DEFINE Flat(k) == CHOOSE f : f = [i \in 1 .. k |-> IF i = 1 THEN b[i] ELSE f[i - 1] \o b[i]]
<1>1. \A k \in Nat : Flat(k) = [i \in 1 .. k |-> IF i = 1 THEN b[i] ELSE Flat(k)[i - 1] \o b[i]]
  <2>1. ASSUME NEW k \in Nat
        PROVE  \E f : f = [i \in 1 .. k |-> IF i = 1 THEN b[i] ELSE f[i - 1] \o b[i]]
    BY FlatsExist
  <2> QED
    BY <2>1
<1> DEFINE seqs(k) == [i \in 1 .. k |-> b[i]]
<1>2. ASSUME NEW k \in 1 .. (n + 1)
      PROVE  FlattenSeq(seqs(k)) = Flat(k)[k]
  <2>1. seqs(k) \in Seq(Seq(S)) /\ Len(seqs(k)) = k /\ k # 0
    OBVIOUS
  <2> DEFINE whole == CHOOSE f : f = [i \in 1 .. k |-> IF i = 1 THEN seqs(k)[i] ELSE f[i - 1] \o seqs(k)[i]]
  <2>2. FlattenSeq(seqs(k)) = whole[k]
    <3> HIDE DEF seqs
    <3> QED
      BY <2>1 DEF FlattenSeq
  <2>3. whole = Flat(k)
    <3>1. \A f : [i \in 1 .. k |-> IF i = 1 THEN seqs(k)[i] ELSE f[i - 1] \o seqs(k)[i]] =
                 [i \in 1 .. k |-> IF i = 1 THEN b[i] ELSE f[i - 1] \o b[i]]
      OBVIOUS
    <3> HIDE DEF seqs
    <3> QED
      BY <3>1
  <2> QED
    BY <2>2, <2>3
<1> HIDE DEF Flat
<1>3. ASSUME NEW k \in 1 .. (n + 1), NEW i \in 1 .. k
      PROVE  Flat(k)[i] = IF i = 1 THEN b[i] ELSE Flat(k)[i - 1] \o b[i]
  <2>1. k \in Nat
    OBVIOUS
  <2> DEFINE f == Flat(k)
  <2>2. f = [j \in 1 .. k |-> IF j = 1 THEN b[j] ELSE f[j - 1] \o b[j]]
    BY <1>1, <2>1
  <2> HIDE DEF f
  <2>3. f[i] = IF i = 1 THEN b[i] ELSE f[i - 1] \o b[i]
    BY <2>2
  <2> QED
    BY <2>3 DEF f
<1>4. CASE n = 0
  <2>1. Flat(1)[1] = b[1]
    BY <1>3, <1>4
  <2> QED
    BY <1>2, <1>4, <2>1
<1>5. CASE n # 0
  <2>1. Flat(n + 1)[n + 1] = Flat(n + 1)[n] \o b[n + 1]
    <3>1. n + 1 \in 1 .. (n + 1) /\ n + 1 # 1 /\ (n + 1) - 1 = n
      BY <1>5
    <3> QED
      BY <1>3, <3>1
  <2>2. Flat(n + 1)[n] = Flat(n)[n]
    <3> DEFINE Q == {k \in Nat : k + 1 <= n => Flat(n)[k + 1] = Flat(n + 1)[k + 1]}
    <3>1. n \in 1 .. (n + 1) /\ n + 1 \in 1 .. (n + 1)
      BY <1>5
    <3>2. 0 \in Q
      <4>1. 1 \in 1 .. n /\ 1 \in 1 .. (n + 1)
        BY <1>5
      <4> QED
        BY <1>3, <3>1, <4>1
    <3>3. ASSUME NEW k \in Nat, k \in Q
          PROVE  k + 1 \in Q
      <4> SUFFICES ASSUME k + 2 <= n
                   PROVE  Flat(n)[k + 2] = Flat(n + 1)[k + 2]
        OBVIOUS
      <4>1. /\ Flat(n)[k + 1] = Flat(n + 1)[k + 1]
            /\ k + 2 \in 1 .. n /\ k + 2 \in 1 .. (n + 1) /\ k + 2 # 1 /\ (k + 2) - 1 = k + 1
        BY <3>3
      <4>2. Flat(n)[k + 2] = Flat(n)[k + 1] \o b[k + 2]
        BY <1>3, <3>1, <4>1
      <4>3. Flat(n + 1)[k + 2] = Flat(n + 1)[k + 1] \o b[k + 2]
        BY <1>3, <3>1, <4>1
      <4> QED
        BY <4>1, <4>2, <4>3
    <3> HIDE DEF Q
    <3>4. Nat \subseteq Q
      BY <3>2, <3>3, AllNumbers
    <3>5. n - 1 \in Q /\ (n - 1) + 1 = n
      BY <1>5, <3>4
    <3> QED
      BY <3>5 DEF Q
  <2>3. FlattenSeq(seqs(n + 1)) = Flat(n + 1)[n + 1] /\ FlattenSeq(seqs(n)) = Flat(n)[n]
    BY <1>2, <1>5
  <2> QED
    BY <1>5, <2>1, <2>2, <2>3
<1> QED
  BY <1>4, <1>5

(* What FlattenSeq does, one sequence at a time. *)
LEMMA FlatNone ==
  ASSUME NEW b
  PROVE  FlattenSeq([i \in 1 .. 0 |-> b[i]]) = <<>>
PROOF
<1>1. [i \in 1 .. 0 |-> b[i]] = <<>>
  OBVIOUS
<1> QED
  BY <1>1 DEF FlattenSeq

LEMMA FlatNext ==
  ASSUME NEW S, NEW b, NEW n \in Nat, \A i \in 1 .. (n + 1) : b[i] \in Seq(S)
  PROVE  FlattenSeq([i \in 1 .. (n + 1) |-> b[i]]) = FlattenSeq([i \in 1 .. n |-> b[i]]) \o b[n + 1]
PROOF
<1>1. CASE n = 0
  <2>1. FlattenSeq([i \in 1 .. n |-> b[i]]) = <<>>
    BY <1>1, FlatNone
  <2>2. b[1] \in Seq(S) /\ <<>> \o b[1] = b[1]
    BY <1>1, ConcatEmptySeq
  <2> DEFINE whole == FlattenSeq([i \in 1 .. (n + 1) |-> b[i]])  front == FlattenSeq([i \in 1 .. n |-> b[i]])
  <2>3. whole = IF n = 0 THEN b[1] ELSE front \o b[n + 1]
    BY Flattens
  <2>4. front = <<>> /\ b[n + 1] = b[1]
    BY <1>1, <2>1
  <2> HIDE DEF whole, front
  <2>5. whole = front \o b[n + 1]
    BY <1>1, <2>2, <2>3, <2>4
  <2> QED
    BY <2>5 DEF whole, front
<1>2. CASE n # 0
  BY <1>2, Flattens
<1> QED
  BY <1>1, <1>2

LEMMA FlatAppend ==
  ASSUME NEW S, NEW f \in Seq(Seq(S)), NEW x \in Seq(S)
  PROVE  FlattenSeq(Append(f, x)) = FlattenSeq(f) \o x
PROOF
<1> DEFINE n == Len(f)  b == Append(f, x)
<1>1. n \in Nat /\ b \in Seq(Seq(S)) /\ Len(b) = n + 1 /\ b[n + 1] = x
      /\ \A i \in 1 .. n : b[i] = f[i]
  OBVIOUS
<1>2. \A i \in 1 .. (n + 1) : b[i] \in Seq(S)
  <2> HIDE DEF b, n
  <2> QED
    BY <1>1
<1>3. b = [i \in 1 .. (n + 1) |-> b[i]] /\ f = [i \in 1 .. n |-> b[i]]
  <2>1. b = [i \in 1 .. Len(b) |-> b[i]] /\ f = [i \in 1 .. Len(f) |-> f[i]]
    BY <1>1, LenProperties
  <2> HIDE DEF b
  <2> QED
    BY <1>1, <2>1
<1> HIDE DEF b, n
<1>4. FlattenSeq(b) = IF n = 0 THEN b[1] ELSE FlattenSeq(f) \o b[n + 1]
  <2>1. FlattenSeq([i \in 1 .. (n + 1) |-> b[i]]) =
          IF n = 0 THEN b[1] ELSE FlattenSeq([i \in 1 .. n |-> b[i]]) \o b[n + 1]
    BY <1>1, <1>2, Flattens
  <2> QED
    BY <1>3, <2>1
<1>5. CASE n = 0
  <2>1. f = <<>> /\ FlattenSeq(f) = <<>>
    <3>1. Len(f) = 0
      BY <1>5 DEF n
    <3> QED
      BY <3>1 DEF FlattenSeq
  <2> QED
    BY <1>1, <1>4, <1>5, <2>1 DEF b
<1>6. CASE n # 0
  BY <1>1, <1>4, <1>6 DEF b
<1> QED
  BY <1>5, <1>6

LEMMA FlatType ==
  ASSUME NEW S, NEW f \in Seq(Seq(S))
  PROVE  FlattenSeq(f) \in Seq(S)
PROOF
<1> DEFINE P == {n \in Nat : \A g \in Seq(Seq(S)) : Len(g) = n => FlattenSeq(g) \in Seq(S)}
<1>1. 0 \in P
  <2>1. ASSUME NEW g \in Seq(Seq(S)), Len(g) = 0
        PROVE  FlattenSeq(g) \in Seq(S)
    <3>1. g = <<>>
      BY <2>1
    <3> QED
      BY <2>1, <3>1 DEF FlattenSeq
  <2> QED
    BY <2>1
<1>2. ASSUME NEW n \in Nat, n \in P
      PROVE  n + 1 \in P
  <2>1. ASSUME NEW g \in Seq(Seq(S)), Len(g) = n + 1
        PROVE  FlattenSeq(g) \in Seq(S)
    <3> DEFINE front == SubSeq(g, 1, n)
    <3>1. front \in Seq(Seq(S)) /\ Len(front) = n /\ g[n + 1] \in Seq(S) /\ g = Append(front, g[n + 1])
      BY <2>1
    <3> HIDE DEF front
    <3>2. FlattenSeq(g) = FlattenSeq(front) \o g[n + 1] /\ FlattenSeq(front) \in Seq(S)
      BY <1>2, <3>1, FlatAppend
    <3> QED
      BY <3>1, <3>2
  <2> QED
    BY <2>1
<1> HIDE DEF P
<1>3. Nat \subseteq P
  BY <1>1, <1>2, AllNumbers
<1> QED
  BY <1>3 DEF P

(* A change of one element, before or after appending. *)
Put(s, i, x) == [s EXCEPT ![i] = x]

LEMMA ExceptBefore ==
  ASSUME NEW S, NEW s \in Seq(S), NEW t \in Seq(S), NEW x \in S, NEW i \in 1 .. Len(s)
  PROVE  Put(s, i, x) \o t = Put(s \o t, i, x)
PROOF
<1> DEFINE w == s \o t  u == [s EXCEPT ![i] = x]  v == [w EXCEPT ![i] = x]
<1>1. /\ w \in Seq(S) /\ Len(w) = Len(s) + Len(t) /\ Len(s) \in Nat /\ Len(t) \in Nat
      /\ \A j \in 1 .. Len(s) + Len(t) : w[j] = IF j <= Len(s) THEN s[j] ELSE t[j - Len(s)]
  BY ConcatProperties, LenProperties
<1>2. u \in Seq(S) /\ Len(u) = Len(s) /\ \A j \in 1 .. Len(s) : u[j] = IF j = i THEN x ELSE s[j]
  BY ExceptSeq
<1> HIDE DEF w
<1>3. i \in 1 .. Len(w)
  BY <1>1
<1>4. v \in Seq(S) /\ Len(v) = Len(w) /\ \A j \in 1 .. Len(w) : v[j] = IF j = i THEN x ELSE w[j]
  BY <1>1, <1>3, ExceptSeq
<1> HIDE DEF u, v
<1>5. /\ u \o t \in Seq(S) /\ Len(u \o t) = Len(u) + Len(t)
      /\ \A j \in 1 .. Len(u) + Len(t) : (u \o t)[j] = IF j <= Len(u) THEN u[j] ELSE t[j - Len(u)]
  BY <1>2, ConcatProperties
<1>6. ASSUME NEW j \in 1 .. Len(u \o t)
      PROVE  (u \o t)[j] = v[j]
  <2>1. CASE j <= Len(s)
    <3>1. j \in 1 .. Len(s)
      BY <1>1, <2>1
    <3> QED
      BY <1>1, <1>2, <1>4, <1>5, <2>1, <3>1
  <2>2. CASE ~(j <= Len(s))
    <3>1. j # i
      BY <1>1, <2>2
    <3> QED
      BY <1>1, <1>2, <1>4, <1>5, <2>2, <3>1
  <2> QED
    BY <2>1, <2>2
<1>7. Len(u \o t) = Len(v)
  BY <1>1, <1>2, <1>4, <1>5
<1>8. u \o t = v
  BY <1>4, <1>5, <1>6, <1>7, SeqEqual
<1> QED
  BY <1>8 DEF u, v, w, Put

LEMMA ExceptAfter ==
  ASSUME NEW S, NEW s \in Seq(S), NEW t \in Seq(S), NEW x \in S, NEW i \in 1 .. Len(t)
  PROVE  s \o Put(t, i, x) = Put(s \o t, Len(s) + i, x)
PROOF
<1> DEFINE w == s \o t  u == [t EXCEPT ![i] = x]  at == Len(s) + i  v == [w EXCEPT ![at] = x]
<1>1. /\ w \in Seq(S) /\ Len(w) = Len(s) + Len(t) /\ Len(s) \in Nat /\ Len(t) \in Nat
      /\ \A j \in 1 .. Len(s) + Len(t) : w[j] = IF j <= Len(s) THEN s[j] ELSE t[j - Len(s)]
  BY ConcatProperties, LenProperties
<1>2. u \in Seq(S) /\ Len(u) = Len(t) /\ \A j \in 1 .. Len(t) : u[j] = IF j = i THEN x ELSE t[j]
  BY ExceptSeq
<1> HIDE DEF w
<1>3. at \in 1 .. Len(w) /\ at = Len(s) + i
  BY <1>1
<1> HIDE DEF at
<1>4. v \in Seq(S) /\ Len(v) = Len(w) /\ \A j \in 1 .. Len(w) : v[j] = IF j = at THEN x ELSE w[j]
  BY <1>1, <1>3, ExceptSeq
<1> HIDE DEF u, v
<1>5. /\ s \o u \in Seq(S) /\ Len(s \o u) = Len(s) + Len(u)
      /\ \A j \in 1 .. Len(s) + Len(u) : (s \o u)[j] = IF j <= Len(s) THEN s[j] ELSE u[j - Len(s)]
  BY <1>2, ConcatProperties
<1>6. ASSUME NEW j \in 1 .. Len(s \o u)
      PROVE  (s \o u)[j] = v[j]
  <2>1. CASE j <= Len(s)
    <3>1. j # at
      BY <1>1, <1>3, <2>1
    <3> QED
      BY <1>1, <1>2, <1>4, <1>5, <2>1, <3>1
  <2>2. CASE ~(j <= Len(s))
    <3>1. j - Len(s) \in 1 .. Len(t) /\ (j - Len(s) = i <=> j = at)
      BY <1>1, <1>2, <1>3, <1>5, <2>2
    <3> QED
      BY <1>1, <1>2, <1>4, <1>5, <2>2, <3>1
  <2> QED
    BY <2>1, <2>2
<1>7. Len(s \o u) = Len(v)
  BY <1>1, <1>2, <1>4, <1>5
<1>8. s \o u = v
  BY <1>4, <1>5, <1>6, <1>7, SeqEqual
<1> QED
  BY <1>8 DEF u, v, w, at, Put
===============================================================================
