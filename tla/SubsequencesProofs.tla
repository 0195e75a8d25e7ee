---- MODULE SubsequencesProofs ----
(***************************************************************************)
(* What Select returns, for every sequence and every set of positions.     *)
(*                                                                         *)
(* The library's theorems on induction take an operator; here induction is *)
(* over a set of numbers, from the well-foundedness of finite subsets.     *)
(***************************************************************************)
EXTENDS Subsequences, Integers, SequenceTheorems, FunctionTheorems,
        FiniteSetTheorems, WellFoundedInduction, TLAPS

----
(* Induction. *)

\* A finite set of numbers that is not empty has a least.
LEMMA LeastIsThere ==
  ASSUME NEW S \in SUBSET Nat, IsFiniteSet(S), S # {}
  PROVE  \E x \in S : \A y \in S : x <= y
<1> DEFINE HasLeast(A) == \E x \in A : \A y \in A : x <= y
           Without == {A \in SUBSET S : A # {} /\ ~HasLeast(A)}
<1>1. IsWellFoundedOn(StrictSubsetOrdering(S), SUBSET S)
  BY FS_StrictSubsetOrderingWellFounded, FS_FiniteSubsetsOfFinite
<1> SUFFICES ASSUME Without # {} PROVE FALSE
  OBVIOUS
<1>2. PICK A \in Without : \A B \in Without : <<B, A>> \notin StrictSubsetOrdering(S)
  BY <1>1, WFMin
<1>3. PICK x \in A : x \in Nat
  BY <1>2
<1>4. A \ {x} \notin Without
  BY <1>2, <1>3 DEF StrictSubsetOrdering
<1>5. CASE A \ {x} = {}
  <2>1. A = {x}
    BY <1>3, <1>5
  <2> QED BY <1>2, <1>3, <2>1
<1>6. CASE HasLeast(A \ {x})
  <2>1. PICK y \in A \ {x} : \A z \in A \ {x} : y <= z
    BY <1>6
  <2>2. y \in Nat /\ \A z \in A : z \in Nat /\ (z = x \/ y <= z)
    BY <1>2, <2>1
  <2>3. CASE y <= x
    BY <1>2, <2>1, <2>2, <2>3
  <2>4. CASE x <= y
    <3>1. \A z \in A : x <= z
      BY <1>3, <2>2, <2>4
    <3> QED BY <1>2, <1>3, <3>1
  <2> QED BY <1>3, <2>2, <2>3, <2>4
<1> QED BY <1>2, <1>4, <1>5, <1>6

\* Induction up to n.
LEMMA InductionUpTo ==
  ASSUME NEW n \in Nat, NEW S, 0 \in S,
         \A m \in 0 .. n - 1 : m \in S => m + 1 \in S
  PROVE  0 .. n \subseteq S
<1> DEFINE Failing == {m \in 0 .. n : m \notin S}
<1>1. IsFiniteSet(Failing) /\ Failing \in SUBSET Nat
  <2>1. IsFiniteSet(0 .. n)
    BY FS_Interval
  <2>2. Failing \in SUBSET (0 .. n)
    OBVIOUS
  <2> QED BY <2>1, <2>2, FS_Subset
<1> SUFFICES ASSUME Failing # {} PROVE FALSE
  OBVIOUS
<1>2. PICK m \in Failing : \A k \in Failing : m <= k
  BY <1>1, LeastIsThere
<1>3. m \in 1 .. n
  BY <1>2
<1>4. m - 1 \in 0 .. n /\ m - 1 \notin Failing /\ (m - 1) + 1 = m
  BY <1>2, <1>3
<1> QED BY <1>2, <1>3, <1>4

----
(* Select is well defined. *)

\* One more element.
NextOf(s, I, chosen, n) == IF n \in I THEN Append(chosen, s[n]) ELSE chosen

\* f is the function SelectUpTo stands for, up to k.
SelectsUpTo(f, s, I, k) ==
  f = [n \in 0 .. k |-> IF n = 0 THEN << >> ELSE NextOf(s, I, f[n - 1], n)]

\* That function exists.
LEMMA SelectUpToIsThere ==
  ASSUME NEW s, NEW I, Len(s) \in Nat
  PROVE  \E f : SelectsUpTo(f, s, I, Len(s))
<1> DEFINE Defines(f, k) == SelectsUpTo(f, s, I, k)
           S == {k \in Nat : \E f : Defines(f, k)}
<1>1. 0 \in S
  <2>1. Defines([n \in 0 .. 0 |-> << >>], 0)
    BY DEF SelectsUpTo
  <2> QED BY <2>1
<1>2. ASSUME NEW k \in 0 .. Len(s) - 1, k \in S PROVE k + 1 \in S
  <2>1. PICK f : Defines(f, k)
    BY <1>2
  <2>5. f = [n \in 0 .. k |-> IF n = 0 THEN << >> ELSE NextOf(s, I, f[n - 1], n)]
    BY <2>1 DEF SelectsUpTo
  <2> DEFINE g == [n \in 0 .. k + 1 |-> IF n = k + 1 THEN NextOf(s, I, f[k], n) ELSE f[n]]
  <2> HIDE DEF NextOf
  <2>2. ASSUME NEW n \in 0 .. k + 1
        PROVE  g[n] = IF n = 0 THEN << >> ELSE NextOf(s, I, g[n - 1], n)
    <3>1. CASE n = k + 1
      <4>1. n - 1 = k /\ k \in 0 .. k + 1 /\ k # k + 1 /\ n # 0
        BY <3>1
      <4>2. g[k] = f[k]
        BY <4>1
      <4> QED BY <3>1, <4>1, <4>2
    <3>2. CASE n # k + 1
      <4>1. n \in 0 .. k /\ g[n] = f[n]
        BY <3>2
      <4>2. f[n] = IF n = 0 THEN << >> ELSE NextOf(s, I, f[n - 1], n)
        BY <2>5, <4>1
      <4>3. n # 0 => n - 1 \in 0 .. k /\ g[n - 1] = f[n - 1]
        BY <4>1
      <4> QED BY <4>1, <4>2, <4>3
    <3> QED BY <3>1, <3>2
  <2>3. Defines(g, k + 1)
    <3> HIDE DEF NextOf
    <3> DEFINE h == [n \in 0 .. k + 1 |-> IF n = 0 THEN << >> ELSE NextOf(s, I, g[n - 1], n)]
    <3>1. \A n \in 0 .. k + 1 : g[n] = h[n]
      BY <2>2
    <3>2. g = [n \in 0 .. k + 1 |-> g[n]] /\ h = [n \in 0 .. k + 1 |-> h[n]]
      OBVIOUS
    <3> HIDE DEF g, h
    <3>3. g = h
      BY <3>1, <3>2
    <3> QED BY <3>3 DEF h, SelectsUpTo
  <2> HIDE DEF g, Defines
  <2>4. \E f0 : Defines(f0, k + 1)
    BY <2>3
  <2> QED BY <2>4
<1> HIDE DEF S
<1>3. 0 .. Len(s) \subseteq S
  BY <1>1, <1>2, InductionUpTo
<1> QED BY <1>3 DEF S

\* The equation that defines it.
LEMMA SelectUpToDef ==
  ASSUME NEW s, NEW I, Len(s) \in Nat
  PROVE  /\ SelectUpTo(s, I)[0] = << >>
         /\ \A n \in 1 .. Len(s) :
              SelectUpTo(s, I)[n] = NextOf(s, I, SelectUpTo(s, I)[n - 1], n)
<1> DEFINE f == SelectUpTo(s, I)
<1>1. f = CHOOSE h : SelectsUpTo(h, s, I, Len(s))
  BY DEF SelectUpTo, SelectsUpTo, NextOf
<1> HIDE DEF f
<1>2. SelectsUpTo(f, s, I, Len(s))
  BY <1>1, SelectUpToIsThere
<1>4. \A n \in 0 .. Len(s) : f[n] = IF n = 0 THEN << >> ELSE NextOf(s, I, f[n - 1], n)
  BY <1>2 DEF SelectsUpTo
<1>5. f[0] = << >>
  BY <1>4
<1>6. \A n \in 1 .. Len(s) : f[n] = NextOf(s, I, f[n - 1], n)
  BY <1>4
<1> QED BY <1>5, <1>6 DEF f

----
(* What is selected. *)

LEMMA SelectUpToType ==
  ASSUME NEW X, NEW s \in Seq(X), NEW I
  PROVE  \A n \in 0 .. Len(s) : SelectUpTo(s, I)[n] \in Seq(X)
<1> DEFINE f == SelectUpTo(s, I)
           S == {n \in 0 .. Len(s) : f[n] \in Seq(X)}
<1> HIDE DEF f
<1>1. Len(s) \in Nat /\ \A i \in 1 .. Len(s) : s[i] \in X
  BY LenProperties, ElementOfSeq
<1>2. f[0] = << >> /\ \A n \in 1 .. Len(s) : f[n] = NextOf(s, I, f[n - 1], n)
  BY <1>1, SelectUpToDef DEF f
<1>3. 0 \in S
  <2>1. 0 \in 0 .. Len(s) /\ f[0] \in Seq(X)
    BY <1>1, <1>2, EmptySeq
  <2> QED BY <2>1
<1>4. ASSUME NEW n \in 0 .. Len(s) - 1, n \in S PROVE n + 1 \in S
  <2>1. n + 1 \in 1 .. Len(s) /\ (n + 1) - 1 = n /\ f[n] \in Seq(X)
    BY <1>1, <1>4
  <2>2. f[n + 1] = NextOf(s, I, f[n], n + 1)
    BY <1>2, <2>1
  <2>3. Append(f[n], s[n + 1]) \in Seq(X)
    BY <1>1, <2>1, AppendProperties
  <2>4. n + 1 \in 0 .. Len(s) /\ f[n + 1] \in Seq(X)
    BY <1>1, <2>1, <2>2, <2>3 DEF NextOf
  <2> QED BY <2>4
<1> HIDE DEF S
<1>5. 0 .. Len(s) \subseteq S
  BY <1>1, <1>3, <1>4, InductionUpTo
<1> QED BY <1>5 DEF S, f

\* The elements selected and the positions they have in s correspond.
Corresponds(f, s, I, n, chosen) ==
  /\ f \in Bijection(1 .. Len(chosen), I \cap (1 .. n))
  /\ \A k \in 1 .. Len(chosen) : chosen[k] = s[f[k]]

LEMMA OneMoreCorresponds ==
  ASSUME NEW X, NEW s \in Seq(X), NEW I, NEW n \in 0 .. Len(s) - 1,
         NEW chosen \in Seq(X), NEW f, Corresponds(f, s, I, n, chosen)
  PROVE  \E g : Corresponds(g, s, I, n + 1, NextOf(s, I, chosen, n + 1))
<1>1. Len(s) \in Nat /\ \A i \in 1 .. Len(s) : s[i] \in X
  BY LenProperties, ElementOfSeq
<1>2. n + 1 \in 1 .. Len(s) /\ n \in Nat
  BY <1>1
<1>3. /\ f \in [1 .. Len(chosen) -> I \cap (1 .. n)]
      /\ \A a, b \in 1 .. Len(chosen) : f[a] = f[b] => a = b
      /\ \A i \in I \cap (1 .. n) : \E k \in 1 .. Len(chosen) : f[k] = i
  BY DEF Corresponds, Bijection, Injection, Surjection, IsInjective
<1>4. \A k \in 1 .. Len(chosen) : chosen[k] = s[f[k]]
  BY DEF Corresponds
<1>5. CASE n + 1 \notin I
  <2>1. I \cap (1 .. n + 1) = I \cap (1 .. n)
    BY <1>2, <1>5
  <2> QED BY <1>5, <2>1 DEF NextOf, Corresponds
<1>6. CASE n + 1 \in I
  <2> DEFINE longer == Append(chosen, s[n + 1])
             L == Len(chosen)
             g == [k \in 1 .. L + 1 |-> IF k = L + 1 THEN n + 1 ELSE f[k]]
  <2>1. /\ L \in Nat /\ Len(longer) = L + 1
        /\ \A k \in 1 .. L : longer[k] = chosen[k]
        /\ longer[L + 1] = s[n + 1]
    BY <1>1, <1>2, AppendProperties, LenProperties
  <2> HIDE DEF longer, L
  <2>2. \A k \in 1 .. L + 1 :
          \/ k = L + 1 /\ g[k] = n + 1
          \/ k \in 1 .. L /\ g[k] = f[k] /\ g[k] \in I \cap (1 .. n)
    BY <1>3, <2>1 DEF L
  <2>3. g \in [1 .. L + 1 -> I \cap (1 .. n + 1)]
    BY <1>2, <1>6, <2>2
  <2>4. \A a, b \in 1 .. L + 1 : g[a] = g[b] => a = b
    BY <1>2, <1>3, <2>1, <2>2 DEF L
  <2>5. ASSUME NEW i \in I \cap (1 .. n + 1) PROVE \E k \in 1 .. L + 1 : g[k] = i
    <3>1. CASE i = n + 1
      <4>1. L + 1 \in 1 .. L + 1 /\ g[L + 1] = n + 1
        BY <2>1
      <4> QED BY <3>1, <4>1
    <3>2. CASE i # n + 1
      <4>1. i \in I \cap (1 .. n)
        BY <1>2, <3>2
      <4>2. PICK k \in 1 .. L : f[k] = i
        BY <1>3, <4>1 DEF L
      <4>3. k \in 1 .. L + 1 /\ k # L + 1
        BY <2>1
      <4> QED BY <4>2, <4>3
    <3> QED BY <3>1, <3>2
  <2>6. \A k \in 1 .. L + 1 : longer[k] = s[g[k]]
    BY <1>4, <2>1, <2>2 DEF L
  <2> HIDE DEF g
  <2>7. g \in Bijection(1 .. Len(longer), I \cap (1 .. n + 1))
    BY <2>1, <2>3, <2>4, <2>5 DEF Bijection, Injection, Surjection, IsInjective
  <2>8. Corresponds(g, s, I, n + 1, longer)
    BY <2>1, <2>6, <2>7 DEF Corresponds
  <2> QED BY <1>6, <2>8 DEF NextOf, longer
<1> QED BY <1>5, <1>6

\* Select has the type of s; what it has are the elements of s at the
\* positions in I, each position once.
LEMMA SelectCorresponds ==
  ASSUME NEW X, NEW s \in Seq(X), NEW I
  PROVE  /\ Select(s, I) \in Seq(X)
         /\ \E f : Corresponds(f, s, I, Len(s), Select(s, I))
<1> DEFINE p == SelectUpTo(s, I)
           S == {n \in 0 .. Len(s) : \E f : Corresponds(f, s, I, n, p[n])}
<1> HIDE DEF p
<1>1. Len(s) \in Nat
  BY LenProperties
<1>2. p[0] = << >> /\ \A n \in 1 .. Len(s) : p[n] = NextOf(s, I, p[n - 1], n)
  BY <1>1, SelectUpToDef DEF p
<1>3. \A n \in 0 .. Len(s) : p[n] \in Seq(X)
  BY SelectUpToType DEF p
<1>4. 0 \in S
  <2> DEFINE f == [k \in {} |-> 0]
  <2>1. 1 .. Len(<< >>) = {} /\ I \cap (1 .. 0) = {}
    OBVIOUS
  <2>2. f \in Bijection(1 .. Len(<< >>), I \cap (1 .. 0))
    BY <2>1 DEF Bijection, Injection, Surjection, IsInjective
  <2> HIDE DEF f
  <2>3. Corresponds(f, s, I, 0, << >>)
    BY <2>1, <2>2 DEF Corresponds
  <2> QED BY <1>1, <1>2, <2>3
<1>5. ASSUME NEW n \in 0 .. Len(s) - 1, n \in S PROVE n + 1 \in S
  <2>1. PICK f : Corresponds(f, s, I, n, p[n])
    BY <1>5
  <2>2. n \in 0 .. Len(s) /\ n + 1 \in 1 .. Len(s) /\ (n + 1) - 1 = n
    BY <1>1
  <2>3. p[n] \in Seq(X) /\ p[n + 1] = NextOf(s, I, p[n], n + 1)
    BY <1>2, <1>3, <2>2
  <2>4. \E g : Corresponds(g, s, I, n + 1, p[n + 1])
    BY <2>1, <2>3, OneMoreCorresponds
  <2> QED BY <1>1, <2>2, <2>4
<1> HIDE DEF S
<1>6. 0 .. Len(s) \subseteq S
  BY <1>1, <1>4, <1>5, InductionUpTo
<1>7. Len(s) \in S
  BY <1>1, <1>6
<1> QED BY <1>1, <1>3, <1>7 DEF S, p, Select

\* Of two sequences one after the other, what is selected of each.
LEMMA SelectConcat ==
  ASSUME NEW X, NEW s \in Seq(X), NEW t \in Seq(X), NEW I, NEW J, NEW K,
         \A i \in 1 .. Len(s) : i \in I <=> i \in J,
         \A i \in 1 .. Len(t) : i + Len(s) \in I <=> i \in K
  PROVE  Select(s \o t, I) = Select(s, J) \o Select(t, K)
<1> DEFINE p == SelectUpTo(s \o t, I)
           q == SelectUpTo(s, J)
           r == SelectUpTo(t, K)
           S == {n \in 0 .. Len(s) : p[n] = q[n]}
           T == {n \in 0 .. Len(t) : p[n + Len(s)] = q[Len(s)] \o r[n]}
<1> HIDE DEF p, q, r
<1>1. /\ s \o t \in Seq(X) /\ Len(s \o t) = Len(s) + Len(t)
      /\ Len(s) \in Nat /\ Len(t) \in Nat
      /\ \A i \in 1 .. Len(s) + Len(t) : (s \o t)[i] =
           IF i <= Len(s) THEN s[i] ELSE t[i - Len(s)]
  BY ConcatProperties, LenProperties
<1>2. p[0] = << >> /\ \A n \in 1 .. Len(s) + Len(t) : p[n] = NextOf(s \o t, I, p[n - 1], n)
  <2> DEFINE st == s \o t
  <2> HIDE DEF st
  <2>1. Len(st) = Len(s) + Len(t) /\ Len(st) \in Nat /\ p = SelectUpTo(st, I)
    BY <1>1 DEF st, p
  <2>2. p[0] = << >> /\ \A n \in 1 .. Len(st) : p[n] = NextOf(st, I, p[n - 1], n)
    BY <2>1, SelectUpToDef
  <2> QED BY <2>1, <2>2 DEF st
<1>3. q[0] = << >> /\ \A n \in 1 .. Len(s) : q[n] = NextOf(s, J, q[n - 1], n)
  BY <1>1, SelectUpToDef DEF q
<1>4. r[0] = << >> /\ \A n \in 1 .. Len(t) : r[n] = NextOf(t, K, r[n - 1], n)
  BY <1>1, SelectUpToDef DEF r
<1>5. 0 \in S
  BY <1>1, <1>2, <1>3
<1>6. ASSUME NEW n \in 0 .. Len(s) - 1, n \in S PROVE n + 1 \in S
  <2>1. /\ n + 1 \in 1 .. Len(s) /\ n + 1 \in 1 .. Len(s) + Len(t)
        /\ n + 1 \in 0 .. Len(s) /\ (n + 1) - 1 = n /\ n + 1 <= Len(s)
    BY <1>1
  <2>2. p[n + 1] = NextOf(s \o t, I, p[n], n + 1) /\ q[n + 1] = NextOf(s, J, q[n], n + 1)
    BY <1>2, <1>3, <2>1
  <2>3. (s \o t)[n + 1] = s[n + 1] /\ (n + 1 \in I <=> n + 1 \in J)
    BY <1>1, <2>1
  <2>4. p[n] = q[n]
    BY <1>6
  <2>5. p[n + 1] = q[n + 1]
    BY <2>2, <2>3, <2>4 DEF NextOf
  <2> QED BY <2>1, <2>5
<1>7. p[Len(s)] = q[Len(s)] /\ q[Len(s)] \in Seq(X)
  <2> HIDE DEF S
  <2>1. 0 .. Len(s) \subseteq S
    BY <1>1, <1>5, <1>6, InductionUpTo
  <2>2. Len(s) \in S
    BY <1>1, <2>1
  <2>3. q[Len(s)] \in Seq(X)
    BY <1>1, SelectUpToType DEF q
  <2> QED BY <2>2, <2>3 DEF S
<1>8. 0 \in T
  <2>1. q[Len(s)] \o << >> = q[Len(s)]
    BY <1>7, ConcatEmptySeq
  <2>2. 0 + Len(s) = Len(s)
    BY <1>1
  <2>3. p[0 + Len(s)] = q[Len(s)] \o r[0]
    BY <1>4, <1>7, <2>1, <2>2
  <2>4. 0 \in 0 .. Len(t)
    BY <1>1
  <2> QED BY <2>3, <2>4
<1>9. ASSUME NEW n \in 0 .. Len(t) - 1, n \in T PROVE n + 1 \in T
  <2> DEFINE m == n + Len(s)
  <2>1. /\ n + 1 \in 1 .. Len(t) /\ m + 1 \in 1 .. Len(s) + Len(t)
        /\ n + 1 \in 0 .. Len(t) /\ (n + 1) - 1 = n /\ (m + 1) - 1 = m
        /\ ~(m + 1 <= Len(s)) /\ (m + 1) - Len(s) = n + 1 /\ (n + 1) + Len(s) = m + 1
        /\ n \in 0 .. Len(t)
    BY <1>1
  <2>2. p[m] = q[Len(s)] \o r[n]
    BY <1>9
  <2> HIDE DEF m
  <2>3. p[m + 1] = NextOf(s \o t, I, p[m], m + 1) /\ r[n + 1] = NextOf(t, K, r[n], n + 1)
    BY <1>2, <1>4, <2>1
  <2>4. (s \o t)[m + 1] = t[n + 1] /\ (m + 1 \in I <=> n + 1 \in K)
    BY <1>1, <2>1
  <2>5. r[n] \in Seq(X)
    BY <2>1, SelectUpToType DEF r
  <2>6. t[n + 1] \in X
    BY <2>1, ElementOfSeq
  <2>7. Append(q[Len(s)] \o r[n], t[n + 1]) = q[Len(s)] \o Append(r[n], t[n + 1])
    <3> DEFINE a == q[Len(s)]
               b == r[n]
               e == t[n + 1]
    <3> HIDE DEF a, b, e
    <3> SUFFICES Append(a \o b, e) = a \o Append(b, e)
      BY DEF a, b, e
    <3>1. a \in Seq(X) /\ b \in Seq(X) /\ e \in X /\ <<e>> \in Seq(X)
      BY <1>7, <2>5, <2>6 DEF a, b, e
    <3>2. a \o b \in Seq(X)
      BY <3>1, ConcatProperties
    <3>3. Append(a \o b, e) = (a \o b) \o <<e>> /\ Append(b, e) = b \o <<e>>
      BY <3>1, <3>2, AppendIsConcat
    <3>4. (a \o b) \o <<e>> = a \o (b \o <<e>>)
      BY <3>1, ConcatAssociative
    <3> QED BY <3>3, <3>4
  <2>8. p[m + 1] = q[Len(s)] \o r[n + 1]
    BY <2>2, <2>3, <2>4, <2>7 DEF NextOf
  <2> QED BY <2>1, <2>8
<1>10. p[Len(t) + Len(s)] = q[Len(s)] \o r[Len(t)]
  <2> HIDE DEF T
  <2>1. 0 .. Len(t) \subseteq T
    BY <1>1, <1>8, <1>9, InductionUpTo
  <2>2. Len(t) \in T
    BY <1>1, <2>1
  <2> QED BY <2>2 DEF T
<1>11. Len(t) + Len(s) = Len(s \o t)
  BY <1>1
<1> QED BY <1>10, <1>11 DEF Select, p, q, r
====
