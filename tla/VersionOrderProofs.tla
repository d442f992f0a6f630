------------------------- MODULE VersionOrderProofs -------------------------
(***************************************************************************)
(* version_at_least is the order of semantic versioning and, whatever the  *)
(* word, an order: for versions of any length, made of any characters.     *)
(*                                                                         *)
(* The order is lexicographic twice, over the characters of an identifier  *)
(* and over the identifiers of a prerelease, so that what makes it an      *)
(* order is proved once, of any relation on the elements (AboveIn).  What  *)
(* an identifier of digits stands for is computed by recursion; the facts  *)
(* about it are proved by the least number for which they would fail.      *)
(***************************************************************************)
EXTENDS VersionOrder, SequenceTheorems, WellFoundedInduction, TLAPS

-----------------------------------------------------------------------------
(* Induction *)

\* Every set of natural numbers that is not empty has a least element.
LEMMA LeastNatural ==
  ASSUME NEW S \in SUBSET Nat, S # {}
  PROVE  \E n \in S : \A m \in S : n <= m
<1> DEFINE Below == {pair \in Nat \X Nat : pair[1] < pair[2]}
<1>1. IsWellFoundedOn(Below, Nat)
  BY NatLessThanWellFounded DEF OpToRel
<1>2. PICK n \in S : \A m \in S : <<m, n>> \notin Below
  <2> HIDE DEF Below
  <2> QED
    BY <1>1, WFMin
<1>3. ASSUME NEW m \in S
      PROVE  n <= m
  <2>1. m \in Nat /\ n \in Nat /\ <<m, n>> \notin Below
    BY <1>2
  <2>2. <<m, n>> \in Nat \X Nat
    BY <2>1
  <2>3. ~(m < n)
    BY <2>1, <2>2
  <2> QED
    BY <2>1, <2>3
<1> QED
  BY <1>3

\* A set that has 0 and with a number the next one has all natural numbers.
LEMMA Induction ==
  ASSUME NEW S, 0 \in S, \A n \in Nat : n \in S => n + 1 \in S
  PROVE  Nat \subseteq S
<1> DEFINE T == Nat \ S
<1>1. SUFFICES ASSUME T # {}
               PROVE  FALSE
  OBVIOUS
<1>2. PICK n \in T : \A m \in T : n <= m
  <2>1. T \in SUBSET Nat
    OBVIOUS
  <2> HIDE DEF T
  <2> QED
    BY <1>1, <2>1, LeastNatural
<1>3. n # 0 /\ n - 1 \in Nat /\ n - 1 \notin T
  BY <1>2
<1> QED
  BY <1>2, <1>3

-----------------------------------------------------------------------------
(* Lexicographic order over any relation on the elements. *)

AboveIn(R, s, t) ==
  \/ IsStrictPrefix(t, s)
  \/ \E i \in FirstDifference(s, t) : <<s[i], t[i]>> \in R

StrictOrderOn(R, S) ==
  /\ \A x \in S : <<x, x>> \notin R
  /\ \A x, y \in S : x # y => <<x, y>> \in R \/ <<y, x>> \in R
  /\ \A x, y, z \in S : <<x, y>> \in R /\ <<y, z>> \in R => <<x, z>> \in R

\* A strict prefix is shorter and the same as far as it goes.
LEMMA StrictPrefix ==
  ASSUME NEW S, NEW s \in Seq(S), NEW t \in Seq(S)
  PROVE  IsStrictPrefix(s, t) <=> Len(s) < Len(t) /\ \A i \in 1..Len(s) : s[i] = t[i]
<1>1. ASSUME Len(s) <= Len(t)
      PROVE  SubSeq(s, 1, Len(s)) = SubSeq(t, 1, Len(s)) <=> \A i \in 1..Len(s) : s[i] = t[i]
  <2>1. /\ Len(SubSeq(s, 1, Len(s))) = Len(s) /\ \A i \in 1..Len(s) : SubSeq(s, 1, Len(s))[i] = s[i]
        /\ Len(SubSeq(t, 1, Len(s))) = Len(s) /\ \A i \in 1..Len(s) : SubSeq(t, 1, Len(s))[i] = t[i]
        /\ SubSeq(s, 1, Len(s)) \in Seq(S) /\ SubSeq(t, 1, Len(s)) \in Seq(S)
    BY <1>1
  <2> QED
    BY <2>1
<1>2. ASSUME Len(s) = Len(t), \A i \in 1..Len(s) : s[i] = t[i]
      PROVE  s = t
  BY <1>2
<1> QED
  BY <1>1, <1>2 DEF IsStrictPrefix, IsPrefix

\* Two sequences differ somewhere first, or one is a prefix of the other.
LEMMA SomewhereFirst ==
  ASSUME NEW S, NEW s \in Seq(S), NEW t \in Seq(S), s # t,
         ~IsStrictPrefix(s, t), ~IsStrictPrefix(t, s)
  PROVE  FirstDifference(s, t) # {}
<1> DEFINE D == {i \in 1..Len(s) : i \in 1..Len(t) /\ s[i] # t[i]}
<1>1. D # {}
  <2>1. CASE Len(s) = Len(t)
    BY <2>1
  <2>2. CASE Len(s) < Len(t)
    <3>1. PICK i \in 1..Len(s) : s[i] # t[i]
      BY <2>2, StrictPrefix
    <3> QED
      BY <2>2, <3>1
  <2>3. CASE Len(t) < Len(s)
    <3>1. PICK i \in 1..Len(t) : s[i] # t[i]
      BY <2>3, StrictPrefix
    <3> QED
      BY <2>3, <3>1
  <2> QED
    BY <2>1, <2>2, <2>3
<1>2. D \in SUBSET Nat
  OBVIOUS
<1>3. PICK i \in D : \A j \in D : i <= j
  <2> HIDE DEF D
  <2> QED
    BY <1>1, <1>2, LeastNatural
<1>4. \A j \in 1..(i - 1) : s[j] = t[j]
  BY <1>3
<1> QED
  BY <1>3, <1>4 DEF FirstDifference

\* Nothing is above itself.
LEMMA AboveInIsIrreflexive ==
  ASSUME NEW S, NEW R, StrictOrderOn(R, S), NEW s \in Seq(S)
  PROVE  ~AboveIn(R, s, s)
BY DEF AboveIn, IsStrictPrefix, FirstDifference

\* Of two different sequences one is above the other.
LEMMA AboveInIsTotal ==
  ASSUME NEW S, NEW R, StrictOrderOn(R, S), NEW s \in Seq(S), NEW t \in Seq(S), s # t
  PROVE  AboveIn(R, s, t) \/ AboveIn(R, t, s)
<1>1. CASE IsStrictPrefix(s, t) \/ IsStrictPrefix(t, s)
  BY <1>1 DEF AboveIn
<1>2. CASE ~IsStrictPrefix(s, t) /\ ~IsStrictPrefix(t, s)
  <2>1. PICK i \in FirstDifference(s, t) : TRUE
    BY <1>2, SomewhereFirst
  <2>2. i \in 1..Len(s) /\ i \in 1..Len(t) /\ s[i] # t[i] /\ i \in FirstDifference(t, s)
    BY <2>1 DEF FirstDifference
  <2>3. s[i] \in S /\ t[i] \in S
    BY <2>2
  <2>4. <<s[i], t[i]>> \in R \/ <<t[i], s[i]>> \in R
    BY <2>2, <2>3 DEF StrictOrderOn
  <2> QED
    BY <2>1, <2>2, <2>4 DEF AboveIn
<1> QED
  BY <1>1, <1>2

\* What is above something that is above a third is above the third.
LEMMA AboveInIsTransitive ==
  ASSUME NEW S, NEW R, StrictOrderOn(R, S), NEW s \in Seq(S), NEW t \in Seq(S), NEW u \in Seq(S),
         AboveIn(R, s, t), AboveIn(R, t, u)
  PROVE  AboveIn(R, s, u)
<1>1. ASSUME NEW i \in 1..Len(s), i \in 1..Len(u), <<s[i], u[i]>> \in R, \A j \in 1..(i - 1) : s[j] = u[j]
      PROVE  AboveIn(R, s, u)
  <2>1. s[i] # u[i]
    <3>1. s[i] \in S
      OBVIOUS
    <3> QED
      BY <1>1, <3>1 DEF StrictOrderOn
  <2>2. i \in FirstDifference(s, u)
    BY <1>1, <2>1 DEF FirstDifference
  <2> QED
    BY <1>1, <2>2 DEF AboveIn
<1>2. ASSUME Len(u) < Len(s), \A j \in 1..Len(u) : s[j] = u[j]
      PROVE  AboveIn(R, s, u)
  BY <1>2, StrictPrefix DEF AboveIn
<1>3. CASE IsStrictPrefix(t, s)
  <2>1. Len(t) < Len(s) /\ \A j \in 1..Len(t) : s[j] = t[j]
    BY <1>3, StrictPrefix
  <2>2. CASE IsStrictPrefix(u, t)
    <3>1. Len(u) < Len(t) /\ \A j \in 1..Len(u) : t[j] = u[j]
      BY <2>2, StrictPrefix
    <3> QED
      BY <2>1, <3>1, <1>2
  <2>3. CASE ~IsStrictPrefix(u, t)
    <3>1. PICK i \in FirstDifference(t, u) : <<t[i], u[i]>> \in R
      BY <2>3 DEF AboveIn
    <3>2. i \in 1..Len(t) /\ i \in 1..Len(u) /\ \A j \in 1..(i - 1) : t[j] = u[j]
      BY <3>1 DEF FirstDifference
    <3>3. i \in 1..Len(s) /\ s[i] = t[i] /\ \A j \in 1..(i - 1) : s[j] = u[j]
      BY <2>1, <3>2
    <3> QED
      BY <3>1, <3>2, <3>3, <1>1
  <2> QED
    BY <2>2, <2>3
<1>4. CASE ~IsStrictPrefix(t, s)
  <2>1. PICK i \in FirstDifference(s, t) : <<s[i], t[i]>> \in R
    BY <1>4 DEF AboveIn
  <2>2. i \in 1..Len(s) /\ i \in 1..Len(t) /\ \A j \in 1..(i - 1) : s[j] = t[j]
    BY <2>1 DEF FirstDifference
  <2>3. CASE IsStrictPrefix(u, t)
    <3>1. Len(u) < Len(t) /\ \A j \in 1..Len(u) : t[j] = u[j]
      BY <2>3, StrictPrefix
    <3>2. CASE i <= Len(u)
      <4>1. i \in 1..Len(u) /\ t[i] = u[i] /\ \A j \in 1..(i - 1) : s[j] = u[j]
        BY <2>2, <3>1, <3>2
      <4> QED
        BY <2>1, <2>2, <4>1, <1>1
    <3>3. CASE ~(i <= Len(u))
      <4>1. Len(u) < Len(s) /\ \A j \in 1..Len(u) : s[j] = u[j]
        BY <2>2, <3>1, <3>3
      <4> QED
        BY <4>1, <1>2
    <3> QED
      BY <3>2, <3>3
  <2>4. CASE ~IsStrictPrefix(u, t)
    <3>1. PICK k \in FirstDifference(t, u) : <<t[k], u[k]>> \in R
      BY <2>4 DEF AboveIn
    <3>2. k \in 1..Len(t) /\ k \in 1..Len(u) /\ \A j \in 1..(k - 1) : t[j] = u[j]
      BY <3>1 DEF FirstDifference
    <3>3. CASE i < k
      <4>1. i \in 1..Len(u) /\ t[i] = u[i] /\ \A j \in 1..(i - 1) : s[j] = u[j]
        BY <2>2, <3>2, <3>3
      <4> QED
        BY <2>1, <2>2, <4>1, <1>1
    <3>4. CASE k < i
      <4>1. k \in 1..Len(s) /\ s[k] = t[k] /\ \A j \in 1..(k - 1) : s[j] = u[j]
        BY <2>2, <3>2, <3>4
      <4> QED
        BY <3>1, <3>2, <4>1, <1>1
    <3>5. CASE i = k
      <4>1. s[i] \in S /\ t[i] \in S /\ u[i] \in S
        BY <2>2, <3>2, <3>5
      <4>2. <<s[i], u[i]>> \in R
        BY <2>1, <3>1, <3>5, <4>1 DEF StrictOrderOn
      <4>3. \A j \in 1..(i - 1) : s[j] = u[j]
        BY <2>2, <3>2, <3>5
      <4> QED
        BY <2>2, <3>2, <3>5, <4>2, <4>3, <1>1
    <3> QED
      BY <2>2, <3>2, <3>3, <3>4, <3>5
  <2> QED
    BY <2>3, <2>4
<1> QED
  BY <1>3, <1>4

-----------------------------------------------------------------------------
(* What a part of digits stands for. *)

\* The numbers that its first digits stand for.
Prefixes10(part) ==
  LET prefix[i \in 0..Len(part)] == IF i = 0 THEN 0 ELSE 10 * prefix[i - 1] + part[i]
  IN  prefix

LEMMA ValueIsAPrefix ==
  ASSUME NEW part
  PROVE  Value(part) = Prefixes10(part)[Len(part)]
BY DEF Value, Prefixes10

\* The recursion defines a function: there is one up to every length.
LEMMA PrefixesAreDefined ==
  ASSUME NEW part \in Parts
  PROVE  Prefixes10(part) =
           [i \in 0..Len(part) |-> IF i = 0 THEN 0 ELSE 10 * Prefixes10(part)[i - 1] + part[i]]
<1> DEFINE UpTo(f, n) == f = [i \in 0..n |-> IF i = 0 THEN 0 ELSE 10 * f[i - 1] + part[i]]
<1> DEFINE S == {n \in Nat : n <= Len(part) => \E f : UpTo(f, n)}
<1>0. part \in Seq(Int)
  BY DEF Parts, Hyphen
<1>1. 0 \in S
  <2> DEFINE f == [i \in 0..0 |-> 0]
  <2>1. UpTo(f, 0)
    OBVIOUS
  <2> QED
    BY <2>1
<1>2. ASSUME NEW n \in Nat, n \in S
      PROVE  n + 1 \in S
  <2>1. SUFFICES ASSUME n + 1 <= Len(part)
                 PROVE  \E f : UpTo(f, n + 1)
    OBVIOUS
  <2>2. PICK f : UpTo(f, n)
    BY <1>0, <1>2, <2>1
  <2> DEFINE g == [i \in 0..(n + 1) |-> IF i = n + 1 THEN 10 * f[n] + part[n + 1] ELSE f[i]]
  <2>3. UpTo(g, n + 1)
    <3>1. ASSUME NEW i \in 0..(n + 1)
          PROVE  g[i] = IF i = 0 THEN 0 ELSE 10 * g[i - 1] + part[i]
      BY <2>2
    <3> QED
      BY <3>1
  <2> QED
    BY <2>3
<1>3. \E f : UpTo(f, Len(part))
  <2> HIDE DEF UpTo
  <2>1. Len(part) \in Nat
    BY <1>0
  <2>2. Nat \subseteq S
    <3> HIDE DEF S
    <3> QED
      BY <1>1, <1>2, Induction
  <2> QED
    BY <2>1, <2>2
<1> QED
  BY <1>3 DEF Prefixes10

\* Digit by digit; a number that does not begin with 0 is not 0.
LEMMA DigitByDigit ==
  ASSUME NEW part \in Parts, IsNumeric(part)
  PROVE  /\ Prefixes10(part)[0] = 0
         /\ \A i \in 1..Len(part) :
              /\ part[i] \in 0..9
              /\ Prefixes10(part)[i] = 10 * Prefixes10(part)[i - 1] + part[i]
         /\ \A i \in 0..Len(part) : Prefixes10(part)[i] \in Nat
         /\ Len(part) > 0 /\ part[1] # 0 => \A i \in 1..Len(part) : Prefixes10(part)[i] > 0
<1> DEFINE p == Prefixes10(part)
<1>0. Len(part) \in Nat /\ DOMAIN part = 1..Len(part)
  BY DEF Parts
<1>1. p[0] = 0 /\ \A i \in 1..Len(part) : p[i] = 10 * p[i - 1] + part[i]
  <2>1. p = [i \in 0..Len(part) |-> IF i = 0 THEN 0 ELSE 10 * p[i - 1] + part[i]]
    BY PrefixesAreDefined
  <2> HIDE DEF p
  <2>2. \A i \in 0..Len(part) : p[i] = IF i = 0 THEN 0 ELSE 10 * p[i - 1] + part[i]
    BY <2>1
  <2> QED
    BY <1>0, <2>2
<1> HIDE DEF p
<1>2. \A i \in 1..Len(part) : part[i] \in 0..9
  BY <1>0 DEF IsNumeric, Digits
<1>3. \A i \in 0..Len(part) : p[i] \in Nat
  <2> DEFINE S == {n \in Nat : n <= Len(part) => p[n] \in Nat}
  <2>1. 0 \in S
    BY <1>1
  <2>2. ASSUME NEW n \in Nat, n \in S
        PROVE  n + 1 \in S
    <3>1. SUFFICES ASSUME n + 1 <= Len(part)
                   PROVE  p[n + 1] \in Nat
      OBVIOUS
    <3>2. n + 1 \in 1..Len(part) /\ (n + 1) - 1 = n /\ p[n] \in Nat
      BY <1>0, <2>2, <3>1
    <3>3. p[n + 1] = 10 * p[n] + part[n + 1] /\ part[n + 1] \in 0..9
      BY <1>1, <1>2, <3>2
    <3> HIDE DEF S
    <3> QED
      BY <3>2, <3>3
  <2>3. Nat \subseteq S
    <3> HIDE DEF S
    <3> QED
      BY <2>1, <2>2, Induction
  <2> QED
    BY <1>0, <2>3
<1>4. ASSUME Len(part) > 0, part[1] # 0
      PROVE  \A i \in 1..Len(part) : p[i] > 0
  <2> DEFINE S == {n \in Nat : n > 0 /\ n <= Len(part) => p[n] > 0}
  <2>1. 0 \in S
    OBVIOUS
  <2>2. ASSUME NEW n \in Nat, n \in S
        PROVE  n + 1 \in S
    <3>1. CASE n = 0
      BY <1>0, <1>1, <1>2, <1>4, <3>1
    <3>2. ASSUME n > 0, n + 1 <= Len(part)
          PROVE  p[n + 1] > 0
      <4>1. n + 1 \in 1..Len(part) /\ (n + 1) - 1 = n /\ p[n] > 0 /\ n \in 0..Len(part)
        BY <1>0, <2>2, <3>2
      <4>2. p[n + 1] = 10 * p[n] + part[n + 1] /\ part[n + 1] \in 0..9 /\ p[n] \in Nat
        BY <1>1, <1>2, <1>3, <4>1
      <4> HIDE DEF S
      <4> QED
        BY <4>1, <4>2
    <3> QED
      BY <3>1, <3>2
  <2>3. Nat \subseteq S
    <3> HIDE DEF S
    <3> QED
      BY <2>1, <2>2, Induction
  <2> QED
    BY <1>0, <2>3
<1> QED
  BY <1>1, <1>2, <1>3, <1>4 DEF p

LEMMA ValueIsNatural ==
  ASSUME NEW part \in Parts, IsNumeric(part)
  PROVE  Value(part) \in Nat
<1>1. Len(part) \in 0..Len(part)
  BY DEF Parts
<1> QED
  BY <1>1, DigitByDigit, ValueIsAPrefix

\* Without leading zeros, different digits stand for different numbers: from
\* the last digit on, the digits and what is left before them are the same.
LEMMA DigitsAreUnique ==
  ASSUME NEW part \in Parts, NEW other \in Parts, IsNumeric(part), IsNumeric(other),
         part # <<>>, other # <<>>, NoLeadingZero(part), NoLeadingZero(other),
         Value(part) = Value(other), Len(part) <= Len(other)
  PROVE  part = other
<1> DEFINE p == Prefixes10(part)
           q == Prefixes10(other)
           m == Len(part)
           n == Len(other)
<1>1. /\ p[0] = 0
      /\ \A i \in 1..m : part[i] \in 0..9 /\ p[i] = 10 * p[i - 1] + part[i]
      /\ \A i \in 0..m : p[i] \in Nat
  BY DigitByDigit
<1>2. /\ q[0] = 0
      /\ \A i \in 1..n : other[i] \in 0..9 /\ q[i] = 10 * q[i - 1] + other[i]
      /\ \A i \in 0..n : q[i] \in Nat
      /\ other[1] # 0 => \A i \in 1..n : q[i] > 0
  <2>1. Len(other) > 0
    BY DEF Parts
  <2> QED
    BY <2>1, DigitByDigit
<1>3. p[m] = q[n]
  BY ValueIsAPrefix
<1>4. m \in Nat \ {0} /\ n \in Nat \ {0} /\ m <= n
  BY DEF Parts
<1>5. n > 1 => other[1] # 0
  BY DEF NoLeadingZero
<1> HIDE DEF p, q
<1>6. \A k \in 0..m : p[m - k] = q[n - k] /\ (k > 0 => part[m - k + 1] = other[n - k + 1])
  <2> DEFINE S == {k \in Nat : k <= m =>
                     p[m - k] = q[n - k] /\ (k > 0 => part[m - k + 1] = other[n - k + 1])}
  <2>1. 0 \in S
    BY <1>3, <1>4
  <2>2. ASSUME NEW k \in Nat, k \in S
        PROVE  k + 1 \in S
    <3>1. SUFFICES ASSUME k + 1 <= m
                   PROVE  p[m - (k + 1)] = q[n - (k + 1)] /\ part[m - k] = other[n - k]
      BY <1>4
    <3> DEFINE i == m - k
               j == n - k
    <3>2. i \in 1..m /\ j \in 1..n /\ p[i] = q[j]
      BY <1>4, <2>2, <3>1
    <3>3. m - (k + 1) = i - 1 /\ n - (k + 1) = j - 1
      BY <1>4
    <3>4. i - 1 \in 0..m /\ j - 1 \in 0..n
      BY <1>4, <3>2
    <3> HIDE DEF i, j, m, n
    <3>5. p[i - 1] = q[j - 1] /\ part[i] = other[j]
      <4>1. p[i - 1] \in Nat /\ q[j - 1] \in Nat /\ part[i] \in 0..9 /\ other[j] \in 0..9
        BY <1>1, <1>2, <3>2, <3>4
      <4>2. 10 * p[i - 1] + part[i] = 10 * q[j - 1] + other[j]
        BY <1>1, <1>2, <3>2
      <4> DEFINE before == p[i - 1]
                 otherBefore == q[j - 1]
                 digit == part[i]
                 otherDigit == other[j]
      <4>3. /\ before \in Nat /\ otherBefore \in Nat /\ digit \in 0..9 /\ otherDigit \in 0..9
            /\ 10 * before + digit = 10 * otherBefore + otherDigit
        BY <4>1, <4>2
      <4> HIDE DEF S, before, otherBefore, digit, otherDigit
      <4>4. before = otherBefore /\ digit = otherDigit
        BY <4>3
      <4> QED
        BY <4>4 DEF before, otherBefore, digit, otherDigit
    <3> QED
      BY <3>3, <3>5 DEF i, j
  <2>3. Nat \subseteq S
    <3> HIDE DEF S
    <3> QED
      BY <2>1, <2>2, Induction
  <2> QED
    BY <1>4, <2>3
<1>7. m = n
  <2>1. q[n - m] = 0
    BY <1>1, <1>4, <1>6
  <2>2. ASSUME n > m PROVE FALSE
    <3>1. n - m \in 1..n /\ n > 1
      BY <1>4, <2>2
    <3>2. q[n - m] > 0
      BY <1>2, <1>5, <3>1
    <3> HIDE DEF m, n
    <3> QED
      BY <2>1, <3>2
  <2> QED
    BY <1>4, <2>2
<1>8. \A i \in 1..m : part[i] = other[i]
  <2> TAKE i \in 1..m
  <2>1. m - i + 1 \in 0..m /\ m - i + 1 > 0 /\ m - (m - i + 1) + 1 = i
    BY <1>4
  <2> QED
    BY <1>6, <1>7, <2>1
<1> QED
  BY <1>7, <1>8 DEF Parts

-----------------------------------------------------------------------------
(* Characters, parts, prereleases and cores. *)

GreaterThan == {pair \in Int \X Int : pair[1] > pair[2]}

SoundParts == {part \in Parts : part # <<>> /\ (IsNumeric(part) => NoLeadingZero(part))}

PartOrder == {pair \in SoundParts \X SoundParts : PartAbove(pair[1], pair[2])}

LEMMA NumbersAreOrdered == StrictOrderOn(GreaterThan, Int)
<1>1. \A x, y \in Int : <<x, y>> \in GreaterThan <=> x > y
  BY DEF GreaterThan
<1> QED
  BY <1>1 DEF StrictOrderOn

\* Above is lexicographic order.
LEMMA AboveIsLexicographic ==
  ASSUME NEW s \in Seq(Int), NEW t \in Seq(Int)
  PROVE  Above(s, t) <=> AboveIn(GreaterThan, s, t)
<1>1. \A i \in FirstDifference(s, t) : s[i] \in Int /\ t[i] \in Int
  BY DEF FirstDifference
<1>2. \A i \in FirstDifference(s, t) : s[i] > t[i] <=> <<s[i], t[i]>> \in GreaterThan
  BY <1>1 DEF GreaterThan
<1> QED
  BY <1>2 DEF Above, AboveIn

LEMMA AboveIsStrict ==
  /\ \A s \in Seq(Int) : ~Above(s, s)
  /\ \A s, t \in Seq(Int) : s # t => Above(s, t) \/ Above(t, s)
  /\ \A s, t, u \in Seq(Int) : Above(s, t) /\ Above(t, u) => Above(s, u)
<1>1. \A s \in Seq(Int) : ~Above(s, s)
  BY AboveIsLexicographic, NumbersAreOrdered, AboveInIsIrreflexive
<1>2. \A s, t \in Seq(Int) : s # t => Above(s, t) \/ Above(t, s)
  BY AboveIsLexicographic, NumbersAreOrdered, AboveInIsTotal
<1>3. ASSUME NEW s \in Seq(Int), NEW t \in Seq(Int), NEW u \in Seq(Int), Above(s, t), Above(t, u)
      PROVE  Above(s, u)
  <2>1. AboveIn(GreaterThan, s, t) /\ AboveIn(GreaterThan, t, u)
    BY <1>3, AboveIsLexicographic
  <2>2. AboveIn(GreaterThan, s, u)
    BY <2>1, NumbersAreOrdered, AboveInIsTransitive
  <2> QED
    BY <2>2, AboveIsLexicographic
<1> QED
  BY <1>1, <1>2, <1>3

\* Different parts that can be read are different numbers.
LEMMA ReadPartsDiffer ==
  ASSUME NEW part \in SoundParts, NEW other \in SoundParts, part # other, Parses(part), Parses(other)
  PROVE  Value(part) > Value(other) \/ Value(other) > Value(part)
<1>1. /\ part \in Parts /\ IsNumeric(part) /\ part # <<>> /\ NoLeadingZero(part)
      /\ other \in Parts /\ IsNumeric(other) /\ other # <<>> /\ NoLeadingZero(other)
  BY DEF SoundParts, Parses
<1>2. Value(part) # Value(other)
  <2>1. Len(part) <= Len(other) \/ Len(other) <= Len(part)
    BY <1>1 DEF Parts
  <2> QED
    BY <1>1, <2>1, DigitsAreUnique
<1>3. Value(part) \in Nat /\ Value(other) \in Nat
  BY <1>1, ValueIsNatural
<1> QED
  BY <1>2, <1>3

\* The parts of a prerelease are ordered: numbers by their value, below the
\* texts; a number that cannot be read counts as a text.
LEMMA PartsAreOrdered == StrictOrderOn(PartOrder, SoundParts)
<1>1. \A x, y \in SoundParts : <<x, y>> \in PartOrder <=> PartAbove(x, y)
  BY DEF PartOrder
<1>2. SoundParts \subseteq Seq(Int)
  BY DEF SoundParts, Parts, Hyphen
<1>3. \A x \in SoundParts : Parses(x) => Value(x) \in Nat
  BY ValueIsNatural DEF SoundParts, Parses
<1>4. \A x \in SoundParts : ~PartAbove(x, x)
  <2> TAKE x \in SoundParts
  <2>1. ~Above(x, x)
    BY <1>2, AboveIsStrict
  <2>2. Parses(x) => ~(Value(x) > Value(x))
    BY <1>3
  <2> QED
    BY <2>1, <2>2 DEF PartAbove
<1>5. ASSUME NEW x \in SoundParts, NEW y \in SoundParts, x # y
      PROVE  PartAbove(x, y) \/ PartAbove(y, x)
  <2>1. Above(x, y) \/ Above(y, x)
    BY <1>2, <1>5, AboveIsStrict
  <2>2. Parses(x) /\ Parses(y) => Value(x) > Value(y) \/ Value(y) > Value(x)
    BY <1>5, ReadPartsDiffer
  <2> QED
    BY <2>1, <2>2 DEF PartAbove
<1>6. ASSUME NEW x \in SoundParts, NEW y \in SoundParts, NEW z \in SoundParts,
             PartAbove(x, y), PartAbove(y, z)
      PROVE  PartAbove(x, z)
  <2>1. CASE Parses(y)
    <3>1. CASE Parses(x)
      <4>1. Parses(z) /\ Value(x) > Value(y) /\ Value(y) > Value(z)
        BY <1>6, <2>1, <3>1 DEF PartAbove
      <4>2. Value(x) \in Nat /\ Value(y) \in Nat /\ Value(z) \in Nat
        BY <1>3, <2>1, <3>1, <4>1
      <4>3. Value(x) > Value(z)
        BY <4>1, <4>2
      <4> QED
        BY <3>1, <4>1, <4>3 DEF PartAbove
    <3>2. CASE ~Parses(x)
      BY <1>6, <2>1, <3>2 DEF PartAbove
    <3> QED
      BY <3>1, <3>2
  <2>2. CASE ~Parses(y)
    <3>1. ~Parses(x) /\ Above(x, y)
      BY <1>6, <2>2 DEF PartAbove
    <3>2. CASE Parses(z)
      BY <3>1, <3>2 DEF PartAbove
    <3>3. CASE ~Parses(z)
      <4>1. Above(y, z)
        BY <1>6, <2>2, <3>3 DEF PartAbove
      <4>2. Above(x, z)
        BY <1>2, <3>1, <4>1, AboveIsStrict
      <4> QED
        BY <3>1, <3>3, <4>2 DEF PartAbove
    <3> QED
      BY <3>2, <3>3
  <2> QED
    BY <2>1, <2>2
<1>7. /\ \A x \in SoundParts : <<x, x>> \notin PartOrder
      /\ \A x, y \in SoundParts : x # y => <<x, y>> \in PartOrder \/ <<y, x>> \in PartOrder
  BY <1>1, <1>4, <1>5
<1>8. ASSUME NEW x \in SoundParts, NEW y \in SoundParts, NEW z \in SoundParts,
             <<x, y>> \in PartOrder, <<y, z>> \in PartOrder
      PROVE  <<x, z>> \in PartOrder
  BY <1>1, <1>6, <1>8
<1> QED
  BY <1>7, <1>8 DEF StrictOrderOn

LEMMA PrereleaseAboveIsLexicographic ==
  ASSUME NEW pre \in Seq(SoundParts), NEW other \in Seq(SoundParts)
  PROVE  PrereleaseAbove(pre, other) <=> AboveIn(PartOrder, pre, other)
<1>1. \A i \in FirstDifference(pre, other) : pre[i] \in SoundParts /\ other[i] \in SoundParts
  BY DEF FirstDifference
<1>2. \A i \in FirstDifference(pre, other) : PartAbove(pre[i], other[i]) <=> <<pre[i], other[i]>> \in PartOrder
  BY <1>1 DEF PartOrder
<1> QED
  BY <1>2 DEF PrereleaseAbove, AboveIn

LEMMA PrereleasesAreOrdered ==
  /\ \A p \in Seq(SoundParts) : ~PrereleaseAbove(p, p)
  /\ \A p, q \in Seq(SoundParts) : p # q => PrereleaseAbove(p, q) \/ PrereleaseAbove(q, p)
  /\ \A p, q, r \in Seq(SoundParts) : PrereleaseAbove(p, q) /\ PrereleaseAbove(q, r) => PrereleaseAbove(p, r)
<1>1. \A p \in Seq(SoundParts) : ~PrereleaseAbove(p, p)
  BY PrereleaseAboveIsLexicographic, PartsAreOrdered, AboveInIsIrreflexive
<1>2. \A p, q \in Seq(SoundParts) : p # q => PrereleaseAbove(p, q) \/ PrereleaseAbove(q, p)
  BY PrereleaseAboveIsLexicographic, PartsAreOrdered, AboveInIsTotal
<1>3. ASSUME NEW p \in Seq(SoundParts), NEW q \in Seq(SoundParts), NEW r \in Seq(SoundParts),
             PrereleaseAbove(p, q), PrereleaseAbove(q, r)
      PROVE  PrereleaseAbove(p, r)
  <2>1. AboveIn(PartOrder, p, q) /\ AboveIn(PartOrder, q, r)
    BY <1>3, PrereleaseAboveIsLexicographic
  <2>2. AboveIn(PartOrder, p, r)
    BY <2>1, PartsAreOrdered, AboveInIsTransitive
  <2> QED
    BY <2>2, PrereleaseAboveIsLexicographic
<1> QED
  BY <1>1, <1>2, <1>3

\* What is_semver has checked of a version.
LEMMA SemverShape ==
  ASSUME NEW v \in VersionTexts, IsSemver(v)
  PROVE  /\ v.pre \in Seq(SoundParts)
         /\ Core(v) \in Seq(Int)
         /\ Len(v.core) = 3 /\ v.core \in Seq(Parts)
         /\ \A i \in 1..3 : v.core[i] \in SoundParts /\ Parses(v.core[i])
<1>1. v.core \in Seq(Parts) /\ v.pre \in Seq(Parts) /\ Len(v.core) = 3
  BY DEF VersionTexts, IsSemver
<1>2. \A i \in 1..3 : v.core[i] \in SoundParts /\ Parses(v.core[i])
  BY <1>1 DEF IsSemver, SoundParts
<1>3. v.pre \in Seq(SoundParts)
  <2>1. \A i \in 1..Len(v.pre) : v.pre[i] \in SoundParts
    BY <1>1 DEF IsSemver, SoundParts
  <2> QED
    BY <1>1, <2>1
<1>4. \A i \in 1..3 : Value(v.core[i]) \in Int
  BY <1>2, ValueIsNatural DEF SoundParts, Parses
<1>5. Core(v) \in Seq(Int)
  <2>1. Core(v) \in [1..3 -> Int]
    BY <1>1, <1>4 DEF Core
  <2> QED
    BY <2>1, SeqDef
<1> QED
  BY <1>1, <1>2, <1>3, <1>5

\* Two cores with the same numbers are written the same.
LEMMA CoresAreUnique ==
  ASSUME NEW v \in VersionTexts, NEW w \in VersionTexts, IsSemver(v), IsSemver(w), Core(v) = Core(w)
  PROVE  v.core = w.core
<1>1. /\ Len(v.core) = 3 /\ v.core \in Seq(Parts)
      /\ \A i \in 1..3 : v.core[i] \in SoundParts /\ Parses(v.core[i])
      /\ Len(w.core) = 3 /\ w.core \in Seq(Parts)
      /\ \A i \in 1..3 : w.core[i] \in SoundParts /\ Parses(w.core[i])
  BY SemverShape
<1>2. ASSUME NEW i \in 1..3
      PROVE  v.core[i] = w.core[i]
  <2>1. Core(v)[i] = Value(v.core[i]) /\ Core(w)[i] = Value(w.core[i])
    BY <1>1 DEF Core
  <2>2. Value(v.core[i]) = Value(w.core[i]) /\ Value(v.core[i]) \in Nat
    BY <1>1, <2>1, ValueIsNatural DEF SoundParts, Parses
  <2> QED
    BY <1>1, <2>2, ReadPartsDiffer
<1> QED
  BY <1>1, <1>2

-----------------------------------------------------------------------------
(* version_at_least *)

\* What version_at_least compares: the numbers, then the prereleases, of which
\* none at all is above every one.
PreAbove(pre, other) ==
  /\ pre # other
  /\ pre = <<>> \/ (other # <<>> /\ PrereleaseAbove(pre, other))

LEMMA AtLeast ==
  ASSUME NEW v \in VersionTexts, NEW w \in VersionTexts, IsSemver(v), IsSemver(w)
  PROVE  version_at_least(v, w) <=>
           \/ Above(Core(v), Core(w))
           \/ Core(v) = Core(w) /\ (v.pre = w.pre \/ PreAbove(v.pre, w.pre))
BY DEF version_at_least, PreAbove

LEMMA PreAboveIsStrict ==
  /\ \A p \in Seq(SoundParts) : ~PreAbove(p, p)
  /\ \A p, q \in Seq(SoundParts) : p # q => PreAbove(p, q) \/ PreAbove(q, p)
  /\ \A p, q, r \in Seq(SoundParts) : PreAbove(p, q) /\ PreAbove(q, r) => PreAbove(p, r)
<1>1. \A p \in Seq(SoundParts) : ~PreAbove(p, p)
  BY DEF PreAbove
<1>2. \A p, q \in Seq(SoundParts) : p # q => PreAbove(p, q) \/ PreAbove(q, p)
  BY PrereleasesAreOrdered DEF PreAbove
<1>3. ASSUME NEW p \in Seq(SoundParts), NEW q \in Seq(SoundParts), NEW r \in Seq(SoundParts),
             PreAbove(p, q), PreAbove(q, r)
      PROVE  PreAbove(p, r)
  <2>1. r # <<>> /\ q # <<>>
    BY <1>3 DEF PreAbove
  <2>2. CASE p = <<>>
    BY <2>1, <2>2 DEF PreAbove
  <2>3. CASE p # <<>>
    <3>1. PrereleaseAbove(p, q) /\ PrereleaseAbove(q, r)
      BY <1>3, <2>1, <2>3 DEF PreAbove
    <3>2. PrereleaseAbove(p, r)
      BY <3>1, PrereleasesAreOrdered
    <3>3. p # r
      BY <3>2, PrereleasesAreOrdered
    <3> QED
      BY <2>1, <3>2, <3>3 DEF PreAbove
  <2> QED
    BY <2>2, <2>3
<1> QED
  BY <1>1, <1>2, <1>3

\* Of two versions one is at least the other.
LEMMA AtLeastIsTotal ==
  ASSUME NEW v \in VersionTexts, NEW w \in VersionTexts, IsSemver(v), IsSemver(w)
  PROVE  version_at_least(v, w) \/ version_at_least(w, v)
<1>1. /\ Core(v) \in Seq(Int) /\ Core(w) \in Seq(Int)
      /\ v.pre \in Seq(SoundParts) /\ w.pre \in Seq(SoundParts)
  BY SemverShape
<1>2. CASE Core(v) # Core(w)
  BY <1>1, <1>2, AboveIsStrict, AtLeast
<1>3. CASE Core(v) = Core(w)
  BY <1>1, <1>3, PreAboveIsStrict, AtLeast
<1> QED
  BY <1>2, <1>3

\* Both are only if they differ in nothing but the build.
LEMMA AtLeastIsAntisymmetric ==
  ASSUME NEW v \in VersionTexts, NEW w \in VersionTexts, version_at_least(v, w), version_at_least(w, v)
  PROVE  v.core = w.core /\ v.pre = w.pre
<1>1. IsSemver(v) /\ IsSemver(w)
  BY DEF version_at_least
<1>2. /\ Core(v) \in Seq(Int) /\ Core(w) \in Seq(Int)
      /\ v.pre \in Seq(SoundParts) /\ w.pre \in Seq(SoundParts)
  BY <1>1, SemverShape
<1>3. ~(Above(Core(v), Core(w)) /\ Above(Core(w), Core(v)))
  BY <1>2, AboveIsStrict
<1>4. Above(Core(v), Core(w)) => Core(v) # Core(w)
  BY <1>2, AboveIsStrict
<1>5. Core(v) = Core(w)
  BY <1>1, <1>3, <1>4, AtLeast
<1>6. ~Above(Core(v), Core(w)) /\ ~Above(Core(w), Core(v))
  BY <1>2, <1>5, AboveIsStrict
<1>7. v.pre = w.pre \/ (PreAbove(v.pre, w.pre) /\ PreAbove(w.pre, v.pre))
  BY <1>1, <1>6, AtLeast
<1>8. v.pre = w.pre
  BY <1>2, <1>7, PreAboveIsStrict
<1> QED
  BY <1>1, <1>5, <1>8, CoresAreUnique

LEMMA AtLeastIsTransitive ==
  ASSUME NEW u \in VersionTexts, NEW v \in VersionTexts, NEW w \in VersionTexts,
         version_at_least(u, v), version_at_least(v, w)
  PROVE  version_at_least(u, w)
<1>1. IsSemver(u) /\ IsSemver(v) /\ IsSemver(w)
  BY DEF version_at_least
<1>2. /\ Core(u) \in Seq(Int) /\ Core(v) \in Seq(Int) /\ Core(w) \in Seq(Int)
      /\ u.pre \in Seq(SoundParts) /\ v.pre \in Seq(SoundParts) /\ w.pre \in Seq(SoundParts)
  BY <1>1, SemverShape
<1>3. /\ \/ Above(Core(u), Core(v))
         \/ Core(u) = Core(v) /\ (u.pre = v.pre \/ PreAbove(u.pre, v.pre))
      /\ \/ Above(Core(v), Core(w))
         \/ Core(v) = Core(w) /\ (v.pre = w.pre \/ PreAbove(v.pre, w.pre))
  BY <1>1, AtLeast
<1>4. CASE Core(u) = Core(v) /\ Core(v) = Core(w) /\ ~Above(Core(u), Core(v)) /\ ~Above(Core(v), Core(w))
  <2>1. u.pre = w.pre \/ PreAbove(u.pre, w.pre)
    BY <1>2, <1>3, <1>4, PreAboveIsStrict
  <2> QED
    BY <1>1, <1>4, <2>1, AtLeast
<1>5. CASE Above(Core(u), Core(v)) \/ Above(Core(v), Core(w))
  <2>1. Above(Core(u), Core(w))
    BY <1>2, <1>3, <1>5, AboveIsStrict
  <2> QED
    BY <1>1, <2>1, AtLeast
<1> QED
  BY <1>3, <1>4, <1>5

\* Where all numbers can be read, parts compare as semver.org says.
LEMMA PrecedenceOfReadParts ==
  ASSUME NEW v, NEW w, NumbersFit(v), NumbersFit(w)
  PROVE  \A i \in FirstDifference(v.pre, w.pre) :
           PartAbove(v.pre[i], w.pre[i]) <=> PrecedenceOfPart(v.pre[i], w.pre[i])
<1> TAKE i \in FirstDifference(v.pre, w.pre)
<1>1. i \in DOMAIN v.pre /\ i \in DOMAIN w.pre
  BY DEF FirstDifference
<1>2. (Parses(v.pre[i]) <=> IsNumeric(v.pre[i])) /\ (Parses(w.pre[i]) <=> IsNumeric(w.pre[i]))
  BY <1>1 DEF NumbersFit, Parses
<1> QED
  BY <1>2 DEF PartAbove, PrecedenceOfPart

LEMMA PrecedesIsAbove ==
  ASSUME NEW v \in VersionTexts, NEW w \in VersionTexts, IsSemver(v), IsSemver(w), NumbersFit(v), NumbersFit(w)
  PROVE  Precedes(v, w) <=>
           \/ Above(Core(w), Core(v))
           \/ Core(v) = Core(w) /\ PreAbove(w.pre, v.pre)
<1>1. v.pre \in Seq(SoundParts) /\ w.pre \in Seq(SoundParts)
  BY SemverShape
<1>2. PrereleaseAbove(w.pre, v.pre) <=>
        \/ IsStrictPrefix(v.pre, w.pre)
        \/ \E i \in FirstDifference(w.pre, v.pre) : PrecedenceOfPart(w.pre[i], v.pre[i])
  BY PrecedenceOfReadParts DEF PrereleaseAbove
<1>3. PrereleaseAbove(w.pre, v.pre) => w.pre # v.pre
  BY <1>1, PrereleasesAreOrdered
<1> QED
  BY <1>2, <1>3 DEF Precedes, PreAbove

LEMMA AtLeastIsSemver ==
  ASSUME NEW v \in VersionTexts, NEW w \in VersionTexts, IsSemver(v), IsSemver(w), NumbersFit(v), NumbersFit(w)
  PROVE  version_at_least(v, w) <=> ~Precedes(v, w)
<1>1. /\ Core(v) \in Seq(Int) /\ Core(w) \in Seq(Int)
      /\ v.pre \in Seq(SoundParts) /\ w.pre \in Seq(SoundParts)
  BY SemverShape
<1>2. CASE Core(v) = Core(w)
  <2>1. ~Above(Core(v), Core(w)) /\ ~Above(Core(w), Core(v))
    BY <1>1, <1>2, AboveIsStrict
  <2>2. (v.pre = w.pre \/ PreAbove(v.pre, w.pre)) <=> ~PreAbove(w.pre, v.pre)
    BY <1>1, PreAboveIsStrict
  <2> QED
    BY <1>2, <2>1, <2>2, AtLeast, PrecedesIsAbove
<1>3. CASE Core(v) # Core(w)
  <2>1. Above(Core(v), Core(w)) <=> ~Above(Core(w), Core(v))
    BY <1>1, <1>3, AboveIsStrict
  <2> QED
    BY <1>3, <2>1, AtLeast, PrecedesIsAbove
<1> QED
  BY <1>2, <1>3

-----------------------------------------------------------------------------
(* The theorems. *)

Versioned == client \in Versions /\ minimum \in Versions

LEMMA AlwaysVersioned == Spec => []Versioned
<1>1. Init => Versioned
  BY DEF Init, Versioned
<1>2. Versioned /\ [Next]_vars => Versioned'
  BY DEF Versioned, Next, Update, vars
<1> QED
  BY <1>1, <1>2, PTL DEF Spec

LEMMA VersionedAreTexts == Versioned => client \in VersionTexts /\ minimum \in VersionTexts
BY VersionOrderAssumption DEF Versioned

\* version_at_least is the order of semver.org for all versions whose numbers
\* can be read, of any length and for any word.
THEOREM SemverIsFollowed == Spec => []FollowsSemver
<1>1. Versioned => FollowsSemver
  BY VersionedAreTexts, AtLeastIsSemver DEF FollowsSemver
<1> QED
  BY <1>1, AlwaysVersioned, PTL

\* It is total and antisymmetric also on numbers that cannot be read.
THEOREM VersionsAreOrdered == Spec => []OrderIsTotal
<1>1. Versioned => OrderIsTotal
  BY VersionedAreTexts, AtLeastIsTotal, AtLeastIsAntisymmetric DEF OrderIsTotal
<1> QED
  BY <1>1, AlwaysVersioned, PTL

\* It is transitive: what a client is new enough for, it is new enough for
\* after every update.
THEOREM UpdatesNeverDropPlugins == Spec => UpdatesKeepPlugins
<1> DEFINE Kept == version_at_least(client, minimum) => version_at_least(client', minimum)
<1>1. Versioned /\ Versioned' /\ [Next]_vars => [Kept]_vars
  <2> SUFFICES ASSUME Versioned, Versioned', Next, version_at_least(client, minimum)
               PROVE  version_at_least(client', minimum)
    OBVIOUS
  <2>1. client \in VersionTexts /\ minimum \in VersionTexts /\ client' \in VersionTexts
    BY VersionOrderAssumption DEF Versioned
  <2>2. version_at_least(client', client)
    BY DEF Next, Update
  <2> QED
    BY <2>1, <2>2, AtLeastIsTransitive
<1> QED
  BY <1>1, AlwaysVersioned, PTL DEF Spec, UpdatesKeepPlugins
=============================================================================
