---------------------------- MODULE SequenceLemmas ----------------------------
(***************************************************************************)
(* What the sums and concatenations that the models are built from return, *)
(* for every sequence.  The library states induction for an operator that  *)
(* the provers cannot instantiate; here it is stated for a set, which they *)
(* can.                                                                    *)
(***************************************************************************)
EXTENDS Totals, Integers, SequencesExt, SequenceTheorems, WellFoundedInduction, TLAPS

\* A nonempty set of natural numbers has a least element.
LEMMA LeastNatural ==
    ASSUME NEW T, T \subseteq Nat, T # {}
    PROVE  \E n \in T : \A m \in T : n <= m
<1>1. IsWellFoundedOn(OpToRel(<, Nat), Nat)
  BY NatLessThanWellFounded
<1>2. PICK n \in T : \A m \in T : ~(<<m, n>> \in OpToRel(<, Nat))
  BY <1>1, WFMin
<1>3. \A m \in T : <<m, n>> \in OpToRel(<, Nat) <=> m < n
  BY DEF OpToRel
<1>4. \A m \in T : n \in Nat /\ m \in Nat /\ ~(m < n)
  BY <1>2, <1>3
<1>5. \A m \in T : n <= m
  BY <1>4
<1> QED
  BY <1>5

\* A set of numbers up to n has a greatest one.
LEMMA GreatestUpTo ==
    ASSUME NEW n \in Nat, NEW T, T \subseteq 0 .. n, T # {}
    PROVE  \E m \in T : \A k \in T : k <= m
<1> DEFINE R == {i \in Nat : n - i \in T}
<1>1. PICK t \in T : t \in 0 .. n
  OBVIOUS
<1>2. n - t \in R
  BY <1>1
<1>3. PICK i \in R : \A j \in R : i <= j
  BY <1>2, LeastNatural
<1>4. n - i \in T
  BY <1>3
<1>5. \A k \in T : k <= n - i
  <2> TAKE k \in T
  <2>1. k \in 0 .. n /\ n - k \in R
    OBVIOUS
  <2> QED
    BY <2>1, <1>3
<1> QED
  BY <1>4, <1>5

\* Induction.
LEMMA Induction ==
    ASSUME NEW S, S \subseteq Nat, 0 \in S, \A n \in Nat : n \in S => n + 1 \in S
    PROVE  S = Nat
<1>1. SUFFICES ASSUME Nat \ S # {} PROVE FALSE
  OBVIOUS
<1>2. PICK n \in Nat \ S : \A m \in Nat \ S : n <= m
  BY <1>1, LeastNatural
<1>3. n - 1 \in S
  BY <1>2
<1> QED
  BY <1>2, <1>3

\* Induction up to a number.
LEMMA UpTo ==
    ASSUME NEW n \in Nat, NEW S, 0 \in S, \A i \in 0 .. n - 1 : i \in S => i + 1 \in S
    PROVE  0 .. n \subseteq S
<1> DEFINE T == {i \in Nat : i <= n => i \in S}
<1>1. T = Nat
  <2>1. T \subseteq Nat /\ 0 \in T
    OBVIOUS
  <2>2. ASSUME NEW i \in Nat, i \in T PROVE i + 1 \in T
    BY <2>2
  <2> HIDE DEF T
  <2> QED
    BY <2>1, <2>2, Induction
<1> QED
  BY <1>1

(* f is a function on 0 .. n that begins with c and goes on by h.          *)
Goes(f, S, c, h, n) ==
    f \in [0 .. n -> S] /\ f[0] = c /\ \A i \in 1 .. n : f[i] = h[i][f[i - 1]]

\* There is such a function.
LEMMA Recursion ==
    ASSUME NEW S, NEW c \in S, NEW h \in [Nat -> [S -> S]], NEW n \in Nat
    PROVE  \E f : Goes(f, S, c, h, n)
<1> DEFINE Good == {k \in Nat : \E f : Goes(f, S, c, h, k)}
<1>1. 0 \in Good
  <2>1. Goes([i \in 0 .. 0 |-> c], S, c, h, 0)
    BY DEF Goes
  <2> QED
    BY <2>1
<1>2. ASSUME NEW k \in Nat, k \in Good PROVE k + 1 \in Good
  <2>1. PICK f : Goes(f, S, c, h, k)
    BY <1>2
  <2> DEFINE g == [i \in 0 .. k + 1 |-> IF i = k + 1 THEN h[k + 1][f[k]] ELSE f[i]]
  <2>2. h[k + 1][f[k]] \in S /\ \A i \in 0 .. k : f[i] \in S
    BY <2>1 DEF Goes
  <2>3. g \in [0 .. k + 1 -> S]
    BY <2>2
  <2>4. \A i \in 1 .. k + 1 : g[i] = h[i][g[i - 1]]
    <3>1. ASSUME NEW i \in 1 .. k PROVE g[i] = h[i][g[i - 1]]
      <4>1. i # k + 1 /\ i - 1 # k + 1 /\ i \in 0 .. k + 1 /\ i - 1 \in 0 .. k + 1
        OBVIOUS
      <4>2. g[i] = f[i] /\ g[i - 1] = f[i - 1]
        BY <4>1
      <4> QED
        BY <4>2, <2>1 DEF Goes
    <3>2. g[k + 1] = h[k + 1][f[k]] /\ g[k] = f[k]
      OBVIOUS
    <3> HIDE DEF g
    <3> QED
      BY <3>1, <3>2
  <2>5. g[0] = c
    BY <2>1 DEF Goes
  <2> HIDE DEF g
  <2>6. Goes(g, S, c, h, k + 1)
    BY <2>3, <2>4, <2>5 DEF Goes
  <2> QED
    BY <2>6
<1>3. Good = Nat
  <2> HIDE DEF Good
  <2>1. Good \subseteq Nat
    BY DEF Good
  <2> QED
    BY <1>1, <1>2, <2>1, Induction
<1> QED
  BY <1>3

\* Functions that go on alike are alike.
LEMMA Alike ==
    ASSUME NEW n \in Nat, NEW f, NEW g, f[0] = g[0],
           \A i \in 1 .. n : f[i - 1] = g[i - 1] => f[i] = g[i]
    PROVE  \A i \in 0 .. n : f[i] = g[i]
<1> DEFINE S == {i \in 0 .. n : f[i] = g[i]}
<1>1. 0 \in S /\ \A i \in 0 .. n - 1 : i \in S => i + 1 \in S
  OBVIOUS
<1> HIDE DEF S
<1>2. 0 .. n \subseteq S
  BY <1>1, UpTo
<1> QED
  BY <1>2 DEF S

-----------------------------------------------------------------------------
(* Sums.                                                                   *)

\* The partial sums of a sequence.
Sums(f, s) ==
    /\ f \in [0 .. Len(s) -> Nat] /\ f[0] = 0
    /\ \A i \in 1 .. Len(s) : f[i] = f[i - 1] + s[i]

\* The sums of a sequence are given by their recursion.
LEMMA TotalIsASum ==
    ASSUME NEW s \in Seq(Nat)
    PROVE  \E f : Sums(f, s) /\ Total(s) = f[Len(s)]
<1> DEFINE F == CHOOSE f : f = [n \in 0 .. Len(s) |-> IF n = 0 THEN 0 ELSE f[n - 1] + s[n]]
           h == [i \in Nat |-> [v \in Nat |-> IF i \in 1 .. Len(s) THEN v + s[i] ELSE 0]]
<1>1. PICK f : Goes(f, Nat, 0, h, Len(s))
  <2>1. h \in [Nat -> [Nat -> Nat]] /\ Len(s) \in Nat /\ 0 \in Nat
    OBVIOUS
  <2> HIDE DEF h
  <2> QED
    BY <2>1, Recursion
<1>2. f \in [0 .. Len(s) -> Nat] /\ f[0] = 0 /\ \A i \in 1 .. Len(s) : f[i] = f[i - 1] + s[i]
  <2>1. f \in [0 .. Len(s) -> Nat] /\ f[0] = 0 /\ \A i \in 1 .. Len(s) : f[i] = h[i][f[i - 1]]
    BY <1>1 DEF Goes
  <2>2. ASSUME NEW i \in 1 .. Len(s) PROVE f[i] = f[i - 1] + s[i]
    <3>1. f[i - 1] \in Nat /\ i \in Nat
      BY <2>1
    <3>2. h[i][f[i - 1]] = f[i - 1] + s[i]
      BY <3>1
    <3> QED
      BY <3>2, <2>1
  <2> QED
    BY <2>1, <2>2
<1>3. f = [n \in 0 .. Len(s) |-> IF n = 0 THEN 0 ELSE f[n - 1] + s[n]]
  BY <1>2
<1>4. F = [n \in 0 .. Len(s) |-> IF n = 0 THEN 0 ELSE F[n - 1] + s[n]]
  BY <1>3
<1>5. Total(s) = F[Len(s)]
  BY DEF Total
<1>6. F[0] = 0 /\ \A i \in 1 .. Len(s) : F[i] = F[i - 1] + s[i]
  <2> HIDE DEF F
  <2> QED
    BY <1>4
<1>7. \A i \in 0 .. Len(s) : F[i] = f[i]
  <2> HIDE DEF F
  <2>1. F[0] = f[0] /\ Len(s) \in Nat
    BY <1>2, <1>6
  <2>2. \A i \in 1 .. Len(s) : F[i - 1] = f[i - 1] => F[i] = f[i]
    BY <1>2, <1>6
  <2> QED
    BY <2>1, <2>2, Alike
<1> HIDE DEF F
<1>8. Total(s) = f[Len(s)]
  BY <1>5, <1>7
<1> QED
  BY <1>2, <1>8 DEF Sums

\* Two sequences that begin alike have the same sums so far.
LEMMA SumsAlike ==
    ASSUME NEW s \in Seq(Nat), NEW t \in Seq(Nat), NEW f, NEW g, Sums(f, s), Sums(g, t),
           NEW n \in Nat, n <= Len(s), n <= Len(t), \A i \in 1 .. n : s[i] = t[i]
    PROVE  f[n] = g[n]
<1>1. f[0] = g[0]
  BY DEF Sums
<1>2. \A i \in 1 .. n : f[i - 1] = g[i - 1] => f[i] = g[i]
  BY DEF Sums
<1>3. \A i \in 0 .. n : f[i] = g[i]
  BY ONLY n \in Nat, <1>1, <1>2, Alike
<1> QED
  BY <1>3

\* A sum of natural numbers is one.
LEMMA TotalType ==
    ASSUME NEW s \in Seq(Nat)
    PROVE  Total(s) \in Nat
BY TotalIsASum DEF Sums

\* The sum of no number.
LEMMA TotalEmpty == Total(<<>>) = 0
<1>1. <<>> \in Seq(Nat) /\ Len(<<>>) = 0
  OBVIOUS
<1> QED
  BY <1>1, TotalIsASum DEF Sums

\* A number more adds to the sum.
LEMMA TotalAppend ==
    ASSUME NEW s \in Seq(Nat), NEW n \in Nat
    PROVE  Total(Append(s, n)) = Total(s) + n
<1> DEFINE t == Append(s, n)
<1>1. t \in Seq(Nat) /\ Len(t) = Len(s) + 1 /\ t[Len(t)] = n /\ \A i \in 1 .. Len(s) : s[i] = t[i]
  BY AppendProperties
<1> HIDE DEF t
<1>2. PICK f : Sums(f, s) /\ Total(s) = f[Len(s)]
  BY TotalIsASum
<1>3. PICK g : Sums(g, t) /\ Total(t) = g[Len(t)]
  BY <1>1, TotalIsASum
<1>4. Len(s) \in Nat /\ Len(s) <= Len(s) /\ Len(s) <= Len(t)
  BY <1>1
<1>5. f[Len(s)] = g[Len(s)]
  <2>1. \A i \in 1 .. Len(s) : s[i] = t[i]
    BY <1>1
  <2>2. s \in Seq(Nat) /\ t \in Seq(Nat)
    BY <1>1
  <2> DEFINE k == Len(s)
  <2>3. k \in Nat /\ k <= Len(s) /\ k <= Len(t) /\ \A i \in 1 .. k : s[i] = t[i]
    BY <1>4, <2>1
  <2> HIDE DEF k
  <2>4. f[k] = g[k]
    BY ONLY <1>2, <1>3, <2>2, <2>3, SumsAlike
  <2> QED
    BY <2>4 DEF k
<1>6. g[Len(t)] = g[Len(t) - 1] + t[Len(t)]
  <2>1. Len(t) \in 1 .. Len(t)
    BY <1>1, <1>4
  <2> QED
    BY <2>1, <1>3 DEF Sums
<1>7. Total(t) = Total(s) + n
  BY <1>1, <1>2, <1>3, <1>4, <1>5, <1>6
<1> QED
  BY <1>7 DEF t

\* Induction over sequences.
LEMMA SequenceInduction ==
    ASSUME NEW A, NEW P, P \subseteq Seq(A), <<>> \in P,
           \A s \in P, a \in A : Append(s, a) \in P
    PROVE  P = Seq(A)
<1> DEFINE T == {n \in Nat : \A s \in Seq(A) : Len(s) = n => s \in P}
<1>1. 0 \in T
  <2>1. \A s \in Seq(A) : Len(s) = 0 => s = <<>>
    OBVIOUS
  <2> QED
    BY <2>1
<1>2. ASSUME NEW n \in Nat, n \in T PROVE n + 1 \in T
  <2>1. ASSUME NEW s \in Seq(A), Len(s) = n + 1 PROVE s \in P
    <3>1. s # <<>>
      BY <2>1
    <3>2. PICK r \in Seq(A), a \in A : s = Append(r, a)
      BY <3>1, SequenceEmptyOrAppend
    <3>3. Len(r) = n
      BY <2>1, <3>2, AppendProperties
    <3> QED
      BY <1>2, <3>2, <3>3
  <2> QED
    BY <2>1
<1>3. T = Nat
  <2>1. T \subseteq Nat
    OBVIOUS
  <2> HIDE DEF T
  <2> QED
    BY <1>1, <1>2, <2>1, Induction
<1>4. \A s \in Seq(A) : Len(s) \in Nat
  OBVIOUS
<1>5. \A s \in Seq(A) : s \in P
  BY <1>3, <1>4
<1> QED
  BY <1>5

\* The sum of two sequences one behind the other.
LEMMA TotalConcat ==
    ASSUME NEW s \in Seq(Nat), NEW t \in Seq(Nat)
    PROVE  Total(s \o t) = Total(s) + Total(t)
<1> DEFINE P == {r \in Seq(Nat) : Total(s \o r) = Total(s) + Total(r)}
<1>1. <<>> \in P
  BY TotalEmpty, TotalType, ConcatEmptySeq
<1>2. ASSUME NEW r \in P, NEW n \in Nat PROVE Append(r, n) \in P
  <2>1. s \o Append(r, n) = Append(s \o r, n) /\ s \o r \in Seq(Nat) /\ Append(r, n) \in Seq(Nat)
    OBVIOUS
  <2>2. Total(s \o Append(r, n)) = Total(s \o r) + n /\ Total(Append(r, n)) = Total(r) + n
    BY <2>1, TotalAppend
  <2>3. Total(s) \in Nat /\ Total(r) \in Nat
    BY TotalType
  <2>4. Total(s \o r) = Total(s) + Total(r)
    OBVIOUS
  <2>5. Total(s \o Append(r, n)) = Total(s) + Total(Append(r, n))
    BY <2>1, <2>2, <2>3, <2>4
  <2> QED
    BY <2>1, <2>5
<1>3. P = Seq(Nat)
  <2>1. P \subseteq Seq(Nat)
    OBVIOUS
  <2> HIDE DEF P
  <2> QED
    BY <1>1, <1>2, <2>1, SequenceInduction
<1> QED
  BY <1>3

\* The sum of one number.
LEMMA TotalSingle ==
    ASSUME NEW n \in Nat
    PROVE  Total(<<n>>) = n
<1>1. <<n>> = Append(<<>>, n) /\ <<>> \in Seq(Nat)
  OBVIOUS
<1>2. Total(Append(<<>>, n)) = Total(<<>>) + n
  BY ONLY <1>1, n \in Nat, TotalAppend, Zenon
<1> QED
  BY <1>1, <1>2, TotalEmpty

-----------------------------------------------------------------------------
(* Concatenations.                                                         *)

\* A value of a function.
LEMMA ValueIn ==
    ASSUME NEW n \in Nat, NEW S, NEW f \in [0 .. n -> S]
    PROVE  \A i \in 1 .. n : f[i - 1] \in S /\ f[i] \in S
OBVIOUS

\* What the first elements of a sequence of sequences make together.
Joins(f, ss, A) ==
    /\ f \in [0 .. Len(ss) -> Seq(A)] /\ f[0] = <<>>
    /\ \A i \in 1 .. Len(ss) : f[i] = f[i - 1] \o ss[i]

\* The joins of a sequence of sequences are given by their recursion.
LEMMA FlattenJoins ==
    ASSUME NEW A, NEW ss \in Seq(Seq(A))
    PROVE  \E f : Joins(f, ss, A) /\ FlattenSeq(ss) = f[Len(ss)]
<1> DEFINE F == CHOOSE f : f = [i \in 1 .. Len(ss) |-> IF i = 1 THEN ss[i] ELSE f[i - 1] \o ss[i]]
           h == [i \in Nat |-> [v \in Seq(A) |-> IF i \in 1 .. Len(ss) THEN v \o ss[i] ELSE v]]
<1>1. PICK f : Goes(f, Seq(A), <<>>, h, Len(ss))
  <2>1. h \in [Nat -> [Seq(A) -> Seq(A)]] /\ Len(ss) \in Nat /\ <<>> \in Seq(A)
    OBVIOUS
  <2> HIDE DEF h
  <2> QED
    BY <2>1, Recursion
<1>2. f \in [0 .. Len(ss) -> Seq(A)] /\ f[0] = <<>>
  BY <1>1 DEF Goes
<1>3. \A i \in 1 .. Len(ss) : f[i] = f[i - 1] \o ss[i]
  <2>1. ASSUME NEW i \in 1 .. Len(ss) PROVE f[i] = f[i - 1] \o ss[i]
    <3>1. f[i - 1] \in Seq(A) /\ i \in Nat
      <4>1. Len(ss) \in Nat /\ i \in Nat
        OBVIOUS
      <4> QED
        BY ONLY <4>1, <1>2, i \in 1 .. Len(ss), ValueIn, Zenon
    <3>2. h[i][f[i - 1]] = f[i - 1] \o ss[i]
      BY <3>1
    <3> HIDE DEF h
    <3> QED
      BY <3>2, <1>1 DEF Goes
  <2> QED
    BY <2>1
<1>4. Joins(f, ss, A)
  BY <1>2, <1>3 DEF Joins
<1>5. CASE Len(ss) = 0
  <2>1. ss = <<>> /\ FlattenSeq(ss) = ss
    BY <1>5 DEF FlattenSeq
  <2> QED
    BY <1>2, <1>4, <1>5, <2>1
<1>6. CASE Len(ss) # 0
  <2> DEFINE g == [i \in 1 .. Len(ss) |-> f[i]]
  <2>1. f[1] = ss[1]
    <3>1. 1 \in 1 .. Len(ss) /\ 1 - 1 = 0 /\ ss[1] \in Seq(A)
      BY <1>6
    <3>2. f[1] = f[1 - 1] \o ss[1]
      BY <1>3, <3>1, Zenon
    <3>3. f[1] = <<>> \o ss[1]
      BY <3>1, <3>2, <1>2
    <3> QED
      BY <3>1, <3>3
  <2>2. g = [i \in 1 .. Len(ss) |-> IF i = 1 THEN ss[i] ELSE g[i - 1] \o ss[i]]
    <3>1. ASSUME NEW i \in 1 .. Len(ss), i # 1 PROVE g[i] = g[i - 1] \o ss[i]
      <4>1. g[i] = f[i] /\ g[i - 1] = f[i - 1]
        BY <3>1
      <4> HIDE DEF g
      <4> QED
        BY <4>1, <1>3
    <3>2. ASSUME NEW i \in 1 .. Len(ss), i = 1 PROVE g[i] = ss[i]
      BY <3>2, <2>1
    <3>3. \A i \in 1 .. Len(ss) : g[i] = IF i = 1 THEN ss[i] ELSE g[i - 1] \o ss[i]
      <4> HIDE DEF g
      <4> QED
        BY <3>1, <3>2, Zenon
    <3> DEFINE e(i) == IF i = 1 THEN ss[i] ELSE g[i - 1] \o ss[i]
    <3>4. \A i \in 1 .. Len(ss) : f[i] = e(i)
      <4>1. \A i \in 1 .. Len(ss) : f[i] = g[i]
        OBVIOUS
      <4> HIDE DEF g
      <4> QED
        BY <4>1, <3>3, Zenon
    <3>5. g = [i \in 1 .. Len(ss) |-> e(i)]
      <4> HIDE DEF e
      <4> QED
        BY <3>4, Zenon DEF g
    <3> QED
      BY <3>5, Zenon
  <2>3. F = [i \in 1 .. Len(ss) |-> IF i = 1 THEN ss[i] ELSE F[i - 1] \o ss[i]]
    BY <2>2
  <2>4. FlattenSeq(ss) = F[Len(ss)]
    BY <1>6 DEF FlattenSeq
  <2> HIDE DEF F
  <2> DEFINE S == {i \in 0 .. Len(ss) : i = 0 \/ F[i] = f[i]}
  <2>5. 0 \in S /\ Len(ss) \in Nat
    OBVIOUS
  <2>6. \A i \in 0 .. Len(ss) - 1 : i \in S => i + 1 \in S
    <3>1. ASSUME NEW i \in 0 .. Len(ss) - 1, i \in S PROVE F[i + 1] = f[i + 1]
      <4>1. CASE i = 0
        BY <2>1, <2>3, <4>1, <1>6
      <4>2. CASE i # 0
        <5>1. i + 1 \in 1 .. Len(ss) /\ i + 1 # 1 /\ (i + 1) - 1 = i /\ F[i] = f[i]
          BY <3>1, <4>2
        <5>2. F[i + 1] = F[(i + 1) - 1] \o ss[i + 1]
          BY <5>1, <2>3, Zenon
        <5>3. f[i + 1] = f[(i + 1) - 1] \o ss[i + 1]
          BY <5>1, <1>3, Zenon
        <5> QED
          BY ONLY <5>1, <5>2, <5>3, Zenon
      <4> QED
        BY <4>1, <4>2
    <3> QED
      BY <3>1
  <2>7. 0 .. Len(ss) \subseteq S
    <3> HIDE DEF S
    <3> QED
      BY <2>5, <2>6, UpTo
  <2>8. F[Len(ss)] = f[Len(ss)]
    BY <1>6, <2>7
  <2> QED
    BY <1>4, <2>4, <2>8
<1> QED
  BY <1>5, <1>6

\* Two sequences of sequences that begin alike have the same joins so far.
LEMMA JoinsAlike ==
    ASSUME NEW A, NEW s, NEW t, NEW f, NEW g, Joins(f, s, A), Joins(g, t, A),
           NEW n \in Nat, n <= Len(s), n <= Len(t), Len(s) \in Nat, Len(t) \in Nat,
           \A i \in 1 .. n : s[i] = t[i]
    PROVE  f[n] = g[n]
<1>1. f[0] = g[0]
  BY DEF Joins
<1>2. ASSUME NEW i \in 1 .. n, f[i - 1] = g[i - 1] PROVE f[i] = g[i]
  <2>1. i \in 1 .. Len(s) /\ i \in 1 .. Len(t)
    OBVIOUS
  <2>2. f[i] = f[i - 1] \o s[i] /\ g[i] = g[i - 1] \o t[i]
    BY <2>1, Zenon DEF Joins
  <2>3. s[i] = t[i]
    OBVIOUS
  <2> QED
    BY ONLY <1>2, <2>2, <2>3, Zenon
<1>3. \A i \in 0 .. n : f[i] = g[i]
  BY ONLY n \in Nat, <1>1, <1>2, Alike
<1> QED
  BY <1>3

\* Joined sequences over a set are a sequence over it.
LEMMA FlattenType ==
    ASSUME NEW A, NEW ss \in Seq(Seq(A))
    PROVE  FlattenSeq(ss) \in Seq(A)
<1>1. PICK f : Joins(f, ss, A) /\ FlattenSeq(ss) = f[Len(ss)]
  BY FlattenJoins
<1>2. Len(ss) \in Nat /\ Len(ss) \in 0 .. Len(ss)
  OBVIOUS
<1>3. f \in [0 .. Len(ss) -> Seq(A)]
  BY <1>1 DEF Joins
<1> QED
  BY ONLY <1>1, <1>2, <1>3, Zenon

\* No sequence joined.
LEMMA FlattenEmpty == FlattenSeq(<<>>) = <<>>
BY DEF FlattenSeq

\* A sequence more is joined at the end.
LEMMA FlattenAppend ==
    ASSUME NEW A, NEW ss \in Seq(Seq(A)), NEW s \in Seq(A)
    PROVE  FlattenSeq(Append(ss, s)) = FlattenSeq(ss) \o s
<1> DEFINE t == Append(ss, s)
<1>1. /\ t \in Seq(Seq(A)) /\ Len(t) = Len(ss) + 1 /\ t[Len(t)] = s
      /\ \A i \in 1 .. Len(ss) : ss[i] = t[i]
  BY AppendProperties
<1> HIDE DEF t
<1>2. PICK f : Joins(f, ss, A) /\ FlattenSeq(ss) = f[Len(ss)]
  BY FlattenJoins
<1>3. PICK g : Joins(g, t, A) /\ FlattenSeq(t) = g[Len(t)]
  BY <1>1, FlattenJoins
<1>4. Len(ss) \in Nat /\ Len(ss) <= Len(ss) /\ Len(ss) <= Len(t) /\ Len(t) \in Nat
  BY <1>1
<1>5. f[Len(ss)] = g[Len(ss)]
  <2>1. \A i \in 1 .. Len(ss) : ss[i] = t[i]
    BY <1>1
  <2> HIDE DEF t
  <2> DEFINE n == Len(ss)
  <2>2. n \in Nat /\ n <= Len(ss) /\ n <= Len(t) /\ Len(ss) \in Nat /\ Len(t) \in Nat
    BY <1>4
  <2>3. \A i \in 1 .. n : ss[i] = t[i]
    BY <2>1
  <2> HIDE DEF n
  <2>4. f[n] = g[n]
    BY ONLY <2>2, <2>3, <1>2, <1>3, JoinsAlike
  <2> QED
    BY <2>4 DEF n
<1>6. g[Len(t)] = g[Len(t) - 1] \o t[Len(t)]
  <2>1. Len(t) \in 1 .. Len(t)
    BY <1>1, <1>4
  <2> QED
    BY <2>1, <1>3 DEF Joins
<1>7. Len(t) - 1 = Len(ss)
  BY <1>1, <1>4
<1>8. FlattenSeq(t) = FlattenSeq(ss) \o s
  BY <1>1, <1>2, <1>3, <1>5, <1>6, <1>7
<1> QED
  BY <1>8 DEF t

\* Joining two lists of sequences is joining each and then both.
LEMMA FlattenConcat ==
    ASSUME NEW A, NEW s \in Seq(Seq(A)), NEW t \in Seq(Seq(A))
    PROVE  FlattenSeq(s \o t) = FlattenSeq(s) \o FlattenSeq(t)
<1> DEFINE P == {r \in Seq(Seq(A)) : FlattenSeq(s \o r) = FlattenSeq(s) \o FlattenSeq(r)}
<1>1. <<>> \in P
  BY FlattenEmpty, FlattenType, ConcatEmptySeq
<1>2. ASSUME NEW r \in P, NEW a \in Seq(A) PROVE Append(r, a) \in P
  <2>1. s \o Append(r, a) = Append(s \o r, a) /\ s \o r \in Seq(Seq(A)) /\ Append(r, a) \in Seq(Seq(A))
    OBVIOUS
  <2>2. FlattenSeq(s \o Append(r, a)) = FlattenSeq(s \o r) \o a
        /\ FlattenSeq(Append(r, a)) = FlattenSeq(r) \o a
    BY <2>1, FlattenAppend
  <2>3. FlattenSeq(s) \in Seq(A) /\ FlattenSeq(r) \in Seq(A)
    BY FlattenType
  <2>4. FlattenSeq(s \o r) = FlattenSeq(s) \o FlattenSeq(r)
    OBVIOUS
  <2>5. (FlattenSeq(s) \o FlattenSeq(r)) \o a = FlattenSeq(s) \o (FlattenSeq(r) \o a)
    BY <2>3, ConcatAssociative
  <2> HIDE DEF P
  <2>6. FlattenSeq(s \o Append(r, a)) = FlattenSeq(s) \o FlattenSeq(Append(r, a))
    BY <2>2, <2>4, <2>5
  <2> QED
    BY <2>1, <2>6 DEF P
<1>3. P = Seq(Seq(A))
  <2>1. P \subseteq Seq(Seq(A))
    OBVIOUS
  <2> HIDE DEF P
  <2> QED
    BY <1>1, <1>2, <2>1, SequenceInduction
<1> QED
  BY <1>3

\* One sequence joined is itself.
LEMMA FlattenSingle ==
    ASSUME NEW A, NEW s \in Seq(A)
    PROVE  FlattenSeq(<<s>>) = s
<1>1. <<s>> = Append(<<>>, s) /\ <<>> \in Seq(Seq(A))
  OBVIOUS
<1>2. FlattenSeq(Append(<<>>, s)) = FlattenSeq(<<>>) \o s
  BY <1>1, FlattenAppend
<1> QED
  BY <1>1, <1>2, FlattenEmpty

\* The elements of a sequence and of two, one behind the other.
LEMMA ElementsOfConcat ==
    ASSUME NEW A, NEW s \in Seq(A), NEW t \in Seq(A)
    PROVE  ToSet(s \o t) = ToSet(s) \cup ToSet(t)
<1>1. \A x : x \in ToSet(s \o t) => x \in ToSet(s) \cup ToSet(t)
  BY ConcatProperties DEF ToSet
<1>2. \A i \in 1 .. Len(s) : (s \o t)[i] = s[i] /\ i \in DOMAIN (s \o t)
  OBVIOUS
<1>3. \A i \in DOMAIN t : \E k \in DOMAIN (s \o t) : (s \o t)[k] = t[i]
  <2>1. ASSUME NEW i \in 1 .. Len(t) PROVE \E k \in DOMAIN (s \o t) : (s \o t)[k] = t[i]
    <3>1. (s \o t)[Len(s) + i] = t[i] /\ Len(s) + i \in DOMAIN (s \o t)
      OBVIOUS
    <3> QED
      BY ONLY <3>1, Zenon
  <2> QED
    BY <2>1
<1>4. ToSet(s) \subseteq ToSet(s \o t)
  BY <1>2 DEF ToSet
<1>5. ToSet(t) \subseteq ToSet(s \o t)
  BY ONLY <1>3, Zenon DEF ToSet
<1> QED
  BY <1>1, <1>4, <1>5

\* The elements of joined sequences are those of each.
LEMMA ElementsOfFlatten ==
    ASSUME NEW A, NEW ss \in Seq(Seq(A))
    PROVE  ToSet(FlattenSeq(ss)) = UNION {ToSet(ss[i]) : i \in DOMAIN ss}
<1> DEFINE U(r) == UNION {ToSet(r[i]) : i \in DOMAIN r}
           P == {r \in Seq(Seq(A)) : ToSet(FlattenSeq(r)) = U(r)}
<1>1. <<>> \in P
  BY FlattenEmpty DEF ToSet
<1>2. ASSUME NEW r \in P, NEW a \in Seq(A) PROVE Append(r, a) \in P
  <2>1. r \in Seq(Seq(A)) /\ Append(r, a) \in Seq(Seq(A)) /\ ToSet(FlattenSeq(r)) = U(r)
    OBVIOUS
  <2> HIDE DEF P
  <2>2. FlattenSeq(Append(r, a)) = FlattenSeq(r) \o a /\ FlattenSeq(r) \in Seq(A)
    BY <2>1, FlattenAppend, FlattenType
  <2>3. ToSet(FlattenSeq(Append(r, a))) = U(r) \cup ToSet(a)
    <3> HIDE DEF U
    <3> QED
      BY <2>1, <2>2, ElementsOfConcat
  <2>4. U(Append(r, a)) = U(r) \cup ToSet(a)
    <3>1. DOMAIN r = 1 .. Len(r) /\ DOMAIN Append(r, a) = 1 .. Len(r) + 1 /\ Len(r) \in Nat
      BY <2>1
    <3>2. Append(r, a)[Len(r) + 1] = a /\ \A i \in 1 .. Len(r) : Append(r, a)[i] = r[i]
      BY <2>1
    <3> QED
      BY <3>1, <3>2
  <2> QED
    BY <2>1, <2>3, <2>4 DEF P
<1>3. P = Seq(Seq(A))
  <2>1. P \subseteq Seq(Seq(A))
    OBVIOUS
  <2> HIDE DEF P
  <2> QED
    BY <1>1, <1>2, <2>1, SequenceInduction
<1> QED
  BY <1>3

\* A function on 1 .. n is a sequence.
LEMMA FunctionIsSequence ==
    ASSUME NEW S, NEW n \in Nat, NEW f \in [1 .. n -> S]
    PROVE  f \in Seq(S) /\ Len(f) = n
OBVIOUS

\* A sequence in two parts.
LEMMA HeadAndRest ==
    ASSUME NEW S, NEW s \in Seq(S), NEW n \in 0 .. Len(s)
    PROVE  /\ SubSeq(s, 1, n) \in Seq(S) /\ SubSeq(s, n + 1, Len(s)) \in Seq(S)
           /\ Len(SubSeq(s, 1, n)) = n /\ Len(SubSeq(s, n + 1, Len(s))) = Len(s) - n
           /\ s = SubSeq(s, 1, n) \o SubSeq(s, n + 1, Len(s))
<1>1. Len(s) \in Nat
  OBVIOUS
<1>2. /\ SubSeq(s, 1, n) \in Seq(S) /\ SubSeq(s, n + 1, Len(s)) \in Seq(S)
      /\ Len(SubSeq(s, 1, n)) = n /\ Len(SubSeq(s, n + 1, Len(s))) = Len(s) - n
  BY <1>1
<1>3. /\ 1 \in 1 .. Len(s) + 1 /\ n \in 1 - 1 .. Len(s) /\ Len(s) \in n .. Len(s)
  BY <1>1
<1>4. SubSeq(s, 1, n) \o SubSeq(s, n + 1, Len(s)) = SubSeq(s, 1, Len(s))
  BY <1>3, ConcatAdjacentSubSeq
<1>5. SubSeq(s, 1, Len(s)) = s
  BY SubSeqFull
<1> QED
  BY <1>2, <1>4, <1>5

\* The first part, of one element.
LEMMA FirstAlone ==
    ASSUME NEW S, NEW s \in Seq(S), s # <<>>
    PROVE  SubSeq(s, 1, 1) = <<s[1]>>
<1>1. 1 \in 1 .. Len(s) /\ 1 \in 1 .. Len(s) /\ s[1] \in S
  OBVIOUS
<1>2. SubSeq(s, 1, 1) = <<s[1]>> \o SubSeq(s, 1 + 1, 1)
  BY <1>1, SubSeqRecursiveFirst
<1>3. SubSeq(s, 1 + 1, 1) = <<>>
  BY SubSeqEmpty
<1>4. <<s[1]>> \in Seq(S)
  BY <1>1
<1>5. <<s[1]>> \o <<>> = <<s[1]>>
  BY ONLY <1>4, ConcatEmptySeq
<1> QED
  BY ONLY <1>2, <1>3, <1>5

\* A sequence of two.
LEMMA TwoInARow ==
    ASSUME NEW S, NEW a \in S, NEW b \in S
    PROVE  <<a>> \in Seq(S) /\ <<b>> \in Seq(S) /\ <<a>> \o <<b>> = <<a, b>>
<1>1. <<a>> \in Seq(S) /\ <<b>> \in Seq(S) /\ Len(<<a>>) = 1 /\ Len(<<b>>) = 1
  OBVIOUS
<1>2. <<a, b>> \in Seq(S) /\ Len(<<a, b>>) = 2 /\ <<a, b>>[1] = a /\ <<a, b>>[2] = b
  OBVIOUS
<1>3. <<a>> \o <<b>> \in Seq(S) /\ Len(<<a>> \o <<b>>) = 2
  BY <1>1
<1>4. (<<a>> \o <<b>>)[1] = a /\ (<<a>> \o <<b>>)[2] = b
  BY <1>1
<1> DEFINE s == <<a>> \o <<b>> t == <<a, b>>
<1>5. \A i \in 1 .. 2 : s[i] = t[i]
  BY <1>2, <1>4
<1>6. s \in Seq(S) /\ t \in Seq(S) /\ Len(s) = Len(t) /\ \A i \in 1 .. Len(s) : s[i] = t[i]
  BY <1>2, <1>3, <1>5
<1> HIDE DEF s, t
<1>7. s = t
  BY ONLY <1>6, SeqEqual
<1> QED
  BY <1>1, <1>7 DEF s, t

=============================================================================
