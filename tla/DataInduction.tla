---------------------------- MODULE DataInduction ----------------------------
(***************************************************************************)
(* Induction over data in a form the provers can use: the induction        *)
(* theorems of the library take an operator as a parameter, these take a   *)
(* set or a function.  They rest on the library's theorem that the order   *)
(* of the natural numbers is well-founded.                                 *)
(***************************************************************************)
EXTENDS SequencesExt, SequenceTheorems, WellFoundedInduction, TLAPS

(* The natural numbers are well-founded: a set of them has a least one.    *)
LEMMA SmallestElement ==
  ASSUME NEW S \in SUBSET Nat, S # {}
  PROVE  \E m \in S : \A k \in S : m <= k
<1> DEFINE R == OpToRel(<, Nat)
<1>1. \A k, m \in Nat : k < m => <<k, m>> \in R
  BY DEF OpToRel
<1>2. IsWellFoundedOn(R, Nat)
  BY NatLessThanWellFounded
<1> HIDE DEF R
<1>3. PICK m \in S : \A k \in S : ~ (<<k, m>> \in R)
  BY <1>2, WFMin
<1>4. ASSUME NEW k \in S
      PROVE  m <= k
  <2>1. k \in Nat /\ m \in Nat
    OBVIOUS
  <2>2. ~ (k < m)
    BY <1>1, <1>3, <2>1, Zenon
  <2> QED
    BY <2>1, <2>2
<1> QED
  BY <1>4

(* Induction, for a set of natural numbers instead of a predicate.         *)
LEMMA SetInduction ==
  ASSUME NEW S \in SUBSET Nat, 0 \in S, \A n \in S : n + 1 \in S
  PROVE  S = Nat
<1>1. SUFFICES ASSUME Nat \ S # {}
               PROVE  FALSE
  OBVIOUS
<1>2. PICK m \in Nat \ S : \A k \in Nat \ S : m <= k
  BY <1>1, SmallestElement
<1>3. m # 0 /\ m - 1 \in Nat
  BY <1>2
<1>4. m - 1 \in S
  BY <1>2, <1>3
<1> QED
  BY <1>2, <1>3, <1>4

(* Two functions that begin alike and go on alike are alike.               *)
LEMMA Agreement ==
  ASSUME NEW n \in Nat, NEW f, NEW g, f[0] = g[0],
         \A i \in 0 .. n - 1 : f[i] = g[i] => f[i + 1] = g[i + 1]
  PROVE  \A i \in 0 .. n : f[i] = g[i]
<1> DEFINE P == {i \in Nat : i <= n => f[i] = g[i]}
<1>1. 0 \in P
  OBVIOUS
<1>2. ASSUME NEW i \in P
      PROVE  i + 1 \in P
  <2>1. i \in Nat /\ (i <= n => f[i] = g[i])
    OBVIOUS
  <2>2. ASSUME i + 1 <= n
        PROVE  f[i + 1] = g[i + 1]
    <3>1. i \in 0 .. n - 1 /\ f[i] = g[i]
      BY <2>1, <2>2
    <3> QED
      BY <3>1
  <2> QED
    BY <2>1, <2>2
<1> HIDE DEF P
<1>3. P = Nat
  <2>1. P \in SUBSET Nat
    BY DEF P
  <2> QED
    BY <1>1, <1>2, <2>1, SetInduction
<1> QED
  BY <1>3 DEF P

(* A chain of values, each made from the one before.                       *)
IsChain(f, n, S, a, h) ==
  /\ f \in [0 .. n -> S]
  /\ f[0] = a
  /\ \A i \in 0 .. n - 1 : f[i + 1] = h[<<i, f[i]>>]

(* There is one of any length: the function a recursive definition chooses *)
(* exists.                                                                 *)
LEMMA ChainExists ==
  ASSUME NEW S, NEW a \in S, NEW h \in [Nat \X S -> S], NEW n \in Nat
  PROVE  \E f : IsChain(f, n, S, a, h)
<1> DEFINE P == {m \in Nat : \E f : IsChain(f, m, S, a, h)}
<1>1. 0 \in P
  <2>1. IsChain([i \in 0 .. 0 |-> a], 0, S, a, h)
    BY DEF IsChain
  <2> QED
    BY <2>1
<1>2. ASSUME NEW m \in P
      PROVE  m + 1 \in P
  <2>1. m \in Nat /\ \E f : IsChain(f, m, S, a, h)
    OBVIOUS
  <2>2. PICK f : IsChain(f, m, S, a, h)
    BY <2>1
  <2> DEFINE g == [i \in 0 .. m + 1 |-> IF i <= m THEN f[i] ELSE h[<<m, f[m]>>]]
  <2>3. f[m] \in S /\ h[<<m, f[m]>>] \in S
    BY <2>1, <2>2 DEF IsChain
  <2>4. g \in [0 .. m + 1 -> S] /\ g[0] = a
    BY <2>1, <2>2, <2>3 DEF IsChain
  <2>5. ASSUME NEW i \in 0 .. (m + 1) - 1
        PROVE  g[i + 1] = h[<<i, g[i]>>]
    <3>1. CASE i = m
      <4>1. g[m] = f[m] /\ g[m + 1] = h[<<m, f[m]>>]
        BY <2>1
      <4> QED
        BY <3>1, <4>1
    <3>2. CASE i # m
      <4>1. i \in 0 .. m - 1 /\ g[i + 1] = f[i + 1] /\ g[i] = f[i]
        BY <2>1, <3>2
      <4>2. f[i + 1] = h[<<i, f[i]>>]
        BY <2>2, <4>1 DEF IsChain
      <4> QED
        BY <4>1, <4>2
    <3> QED
      BY <3>1, <3>2
  <2> HIDE DEF g
  <2>6. IsChain(g, m + 1, S, a, h)
    BY <2>4, <2>5 DEF IsChain
  <2> QED
    BY <2>1, <2>6
<1> HIDE DEF P
<1>3. P = Nat
  <2>1. P \in SUBSET Nat
    BY DEF P
  <2> QED
    BY <1>1, <1>2, <2>1, SetInduction
<1> QED
  BY <1>3 DEF P

-----------------------------------------------------------------------------
(* A sequence that is not empty is its front and its last element.         *)
LEMMA FrontLast ==
  ASSUME NEW S, NEW s \in Seq(S), s # <<>>
  PROVE  /\ Front(s) \in Seq(S) /\ Last(s) \in S
         /\ Len(Front(s)) = Len(s) - 1
         /\ \A i \in 1 .. Len(s) - 1 : Front(s)[i] = s[i]
         /\ s = Append(Front(s), Last(s))
<1>1. Len(s) \in Nat /\ Len(s) > 0
  OBVIOUS
<1>2. Last(s) \in S
  BY <1>1 DEF Last
<1>3. /\ Front(s) \in Seq(S) /\ Len(Front(s)) = Len(s) - 1
      /\ \A i \in 1 .. Len(s) - 1 : Front(s)[i] = s[i]
  <2>1. \A i \in 1 .. Len(s) - 1 : s[i] \in S
    OBVIOUS
  <2>2. /\ SubSeq(s, 1, Len(s) - 1) \in Seq(S)
        /\ Len(SubSeq(s, 1, Len(s) - 1)) = IF 1 <= Len(s) - 1 THEN Len(s) - 1 - 1 + 1 ELSE 0
        /\ \A i \in 1 .. Len(s) - 1 : SubSeq(s, 1, Len(s) - 1)[i] = s[1 + i - 1]
    BY <1>1, <2>1, SubSeqProperties
  <2>3. Len(SubSeq(s, 1, Len(s) - 1)) = Len(s) - 1
    <3>1. CASE 1 <= Len(s) - 1
      <4>1. Len(s) - 1 - 1 + 1 = Len(s) - 1
        BY <1>1
      <4> QED
        BY <2>2, <3>1, <4>1, Zenon
    <3>2. CASE ~ (1 <= Len(s) - 1)
      <4>1. Len(s) - 1 = 0
        <5>1. \A n \in Nat : n > 0 /\ ~ (1 <= n - 1) => n - 1 = 0
          OBVIOUS
        <5> QED
          BY <1>1, <3>2, <5>1, Zenon
      <4> QED
        BY <2>2, <3>2, <4>1, Zenon
    <3> QED
      BY <3>1, <3>2
  <2>4. \A i \in 1 .. Len(s) - 1 : SubSeq(s, 1, Len(s) - 1)[i] = s[i]
    <3>1. \A i \in 1 .. Len(s) - 1 : 1 + i - 1 = i
      BY <1>1
    <3> HIDE <2>1
    <3> QED
      BY <2>2, <3>1, Zenon
  <2> QED
    BY <2>2, <2>3, <2>4, Zenon DEF Front
<1> DEFINE u == Append(Front(s), Last(s))
<1>4. /\ u \in Seq(S) /\ Len(u) = Len(s) /\ u[Len(s)] = Last(s)
      /\ \A i \in 1 .. Len(s) - 1 : u[i] = Front(s)[i]
  BY <1>1, <1>2, <1>3
<1> HIDE DEF u
<1>5. \A i \in 1 .. Len(s) : u[i] = s[i]
  <2>1. u[Len(s)] = s[Len(s)]
    BY <1>4 DEF Last
  <2>2. \A i \in 1 .. Len(s) : i = Len(s) \/ i \in 1 .. Len(s) - 1
    BY <1>1
  <2> QED
    BY <1>3, <1>4, <2>1, <2>2
<1>6. u = s
  BY <1>4, <1>5, SeqEqual
<1> QED
  BY <1>2, <1>3, <1>6 DEF u

(* Appending to what is appended.                                          *)
LEMMA ConcatAppend ==
  ASSUME NEW S, NEW s \in Seq(S), NEW t \in Seq(S), NEW x \in S
  PROVE  s \o Append(t, x) = Append(s \o t, x)
OBVIOUS

(* Induction on the last element of a sequence, for a set of sequences.    *)
LEMMA SequenceInduction ==
  ASSUME NEW S, NEW T \in SUBSET Seq(S), <<>> \in T,
         \A s \in T, x \in S : Append(s, x) \in T
  PROVE  T = Seq(S)
<1> DEFINE P == {n \in Nat : \A s \in Seq(S) : Len(s) = n => s \in T}
<1>1. 0 \in P
  OBVIOUS
<1>2. ASSUME NEW n \in P
      PROVE  n + 1 \in P
  <2>1. n \in Nat /\ \A s \in Seq(S) : Len(s) = n => s \in T
    OBVIOUS
  <2>2. ASSUME NEW s \in Seq(S), Len(s) = n + 1
        PROVE  s \in T
    <3>1. s # <<>>
      BY <2>1, <2>2
    <3>2. /\ Front(s) \in Seq(S) /\ Last(s) \in S /\ Len(Front(s)) = Len(s) - 1
          /\ s = Append(Front(s), Last(s))
      BY <3>1, FrontLast
    <3>3. Len(Front(s)) = n
      BY <2>1, <2>2, <3>2
    <3> QED
      BY <2>1, <3>2, <3>3
  <2> QED
    BY <2>1, <2>2
<1> HIDE DEF P
<1>3. P = Nat
  <2>1. P \in SUBSET Nat
    BY DEF P
  <2> QED
    BY <1>1, <1>2, <2>1, SetInduction
<1>4. \A s \in Seq(S) : Len(s) \in P
  BY <1>3
<1> QED
  BY <1>4 DEF P

(* The front and the last element of two sequences are those of the second *)
(* one, after the first.                                                   *)
LEMMA FrontLastConcat ==
  ASSUME NEW S, NEW s \in Seq(S), NEW t \in Seq(S), t # <<>>
  PROVE  /\ s \o t # <<>>
         /\ Front(s \o t) = s \o Front(t)
         /\ Last(s \o t) = Last(t)
<1>1. /\ Len(t) \in Nat /\ Len(t) > 0 /\ Len(s) \in Nat /\ Len(s \o t) = Len(s) + Len(t)
      /\ s \o t \in Seq(S)
  OBVIOUS
<1>2. Last(s \o t) = Last(t)
  <2>1. (s \o t)[Len(s) + Len(t)] = t[Len(t)]
    BY <1>1
  <2> QED
    BY <1>1, <2>1 DEF Last
<1>3. Front(s \o t) = s \o Front(t)
  <2>1. /\ Front(s \o t) \in Seq(S) /\ Front(t) \in Seq(S) /\ s \o Front(t) \in Seq(S)
        /\ Len(Front(s \o t)) = Len(s) + Len(t) - 1
        /\ Len(s \o Front(t)) = Len(s) + Len(t) - 1
    <3>1. s \o t # <<>>
      BY <1>1
    <3>2. /\ Front(s \o t) \in Seq(S) /\ Len(Front(s \o t)) = Len(s \o t) - 1
          /\ Front(t) \in Seq(S) /\ Len(Front(t)) = Len(t) - 1
      BY <1>1, <3>1, FrontLast
    <3>3. /\ s \o Front(t) \in Seq(S)
          /\ Len(s \o Front(t)) = Len(s) + Len(Front(t))
      BY <3>2, ConcatProperties
    <3> QED
      BY <1>1, <3>2, <3>3
  <2>2. ASSUME NEW i \in 1 .. Len(s) + Len(t) - 1
        PROVE  Front(s \o t)[i] = (s \o Front(t))[i]
    <3>1. Front(s \o t)[i] = (s \o t)[i]
      <4>1. s \o t # <<>> /\ i \in 1 .. Len(s \o t) - 1
        BY <1>1
      <4> QED
        BY <1>1, <4>1, FrontLast
    <3>2. /\ Front(t) \in Seq(S) /\ Len(Front(t)) = Len(t) - 1
          /\ \A k \in 1 .. Len(t) - 1 : Front(t)[k] = t[k]
      BY FrontLast
    <3>3. CASE i <= Len(s)
      <4>1. (s \o t)[i] = s[i]
        BY <1>1, <3>3
      <4>2. (s \o Front(t))[i] = s[i]
        BY <1>1, <3>2, <3>3
      <4> QED
        BY <3>1, <4>1, <4>2
    <3>4. CASE i > Len(s)
      <4>1. (s \o t)[i] = t[i - Len(s)]
        BY <1>1, <3>4
      <4>2. i - Len(s) \in 1 .. Len(t) - 1
        BY <1>1, <3>4
      <4>3. (s \o Front(t))[i] = Front(t)[i - Len(s)]
        <5>1. i \in 1 .. Len(s) + Len(Front(t)) /\ ~ (i <= Len(s))
          BY <1>1, <3>2, <3>4
        <5> QED
          BY <3>2, <5>1, ConcatProperties
      <4>4. Front(t)[i - Len(s)] = t[i - Len(s)]
        BY <3>2, <4>2
      <4> QED
        BY <3>1, <4>1, <4>3, <4>4, Zenon
    <3>5. i <= Len(s) \/ i > Len(s)
      <4>1. i \in Nat
        BY <1>1
      <4>2. \A k, n \in Nat : k <= n \/ k > n
        OBVIOUS
      <4> QED
        BY <1>1, <4>1, <4>2, Zenon
    <3> QED
      BY <3>3, <3>4, <3>5
  <2> QED
    BY <2>1, <2>2, SeqEqual
<1> QED
  BY <1>1, <1>2, <1>3
=============================================================================
