---------------------------- MODULE SetInduction ----------------------------
(***************************************************************************)
(* Induction over the naturals, for the set of the numbers that a          *)
(* statement holds for instead of the statement; and what it shows of the  *)
(* filtered lists of module Sublists.                                      *)
(***************************************************************************)
EXTENDS Integers, Sublists, WellFoundedInduction, TLAPS

\* Every set of natural numbers that is not empty has a least element.
LEMMA LeastElement ==
  ASSUME NEW T \in SUBSET Nat, T # {}
  PROVE  \E n \in T : \A m \in T : n =< m
<1> DEFINE R == OpToRel(<, Nat)
<1>1. IsWellFoundedOn(R, Nat)
  BY NatLessThanWellFounded
<1>2. \A x, y \in Nat : <<y, x>> \in R <=> y < x
  BY DEF OpToRel
<1> HIDE DEF R
<1>3. PICK x \in T : \A y \in T : ~(<<y, x>> \in R)
  BY <1>1, WFMin
<1>4. \A y \in T : x \in Nat /\ y \in Nat /\ ~(y < x)
  BY <1>2, <1>3
<1>5. \A y \in T : x =< y
  BY <1>4
<1> QED
  BY <1>5

\* Induction, with the set of the numbers that a statement holds for.
LEMMA Induction ==
  ASSUME NEW T \in SUBSET Nat, 0 \in T, \A n \in T : n + 1 \in T
  PROVE  T = Nat
<1> SUFFICES ASSUME Nat \ T # {} PROVE FALSE
  OBVIOUS
<1>1. PICK n \in Nat \ T : \A m \in Nat \ T : n =< m
  BY LeastElement
<1>2. n - 1 \in T
  BY <1>1
<1> QED
  BY <1>1, <1>2

-----------------------------------------------------------------------------
(* The filtering of a list *)

KeptOf(f, s, T) ==
  f = [i \in 0..Len(s) |->
        IF i = 0 THEN <<>> ELSE IF s[i] \in T THEN Append(f[i - 1], s[i]) ELSE f[i - 1]]

\* The recursive function that filters a list exists, and is what its equations say.
LEMMA KeptExists ==
  ASSUME NEW S, NEW s \in Seq(S), NEW T
  PROVE  \E f : KeptOf(f, s, T)
<1> DEFINE Body(g, i) == IF i = 0 THEN <<>>
                         ELSE IF s[i] \in T THEN Append(g[i - 1], s[i]) ELSE g[i - 1]
           Has == {n \in Nat : \E g : g = [i \in 0..n |-> Body(g, i)]}
<1>1. 0 \in Has
  <2>1. [i \in 0..0 |-> <<>>] = [i \in 0..0 |-> Body([j \in 0..0 |-> <<>>], i)]
    OBVIOUS
  <2> QED
    BY <2>1
<1>2. ASSUME NEW n \in Has
      PROVE  n + 1 \in Has
  <2>1. PICK g : g = [i \in 0..n |-> Body(g, i)]
    BY <1>2
  <2> DEFINE h == [i \in 0..n + 1 |-> IF i =< n THEN g[i] ELSE Body(g, n + 1)]
  <2>2. ASSUME NEW i \in 0..n + 1
        PROVE  h[i] = Body(h, i)
    <3>1. CASE i = 0
      BY <3>1, <2>1
    <3>2. CASE i \in 1..n
      <4>1. i \in 0..n /\ i - 1 \in 0..n /\ i # 0 /\ i =< n /\ i - 1 =< n
        BY <3>2
      <4>2. h[i] = g[i] /\ h[i - 1] = g[i - 1]
        BY <4>1
      <4>3. g[i] = Body(g, i)
        BY <4>1, <2>1
      <4> QED
        BY <4>1, <4>2, <4>3
    <3>3. CASE i = n + 1
      <4>1. h[i] = Body(g, n + 1) /\ h[i - 1] = g[i - 1] /\ n \in Nat
        BY <3>3
      <4> QED
        BY <4>1, <3>3
    <3> QED
      BY <3>1, <3>2, <3>3
  <2>3. h = [i \in 0..n + 1 |-> Body(h, i)]
    BY <2>2
  <2> HIDE DEF h
  <2>4. \E k : k = [i \in 0..n + 1 |-> Body(k, i)]
    BY <2>3
  <2>5. n + 1 \in Nat
    OBVIOUS
  <2> QED
    BY <2>4, <2>5
<1>3. Has = Nat
  <2> HIDE DEF Has
  <2> QED
    BY <1>1, <1>2, Induction DEF Has
<1>4. Len(s) \in Nat
  OBVIOUS
<1> QED
  BY <1>3, <1>4 DEF KeptOf

\* Kept is the last value of that function.
LEMMA KeptDef ==
  ASSUME NEW S, NEW s \in Seq(S), NEW T
  PROVE  \E f : KeptOf(f, s, T) /\ Kept(s, T) = f[Len(s)]
<1> DEFINE f == CHOOSE g : KeptOf(g, s, T)
<1>1. KeptOf(f, s, T)
  BY KeptExists
<1>2. Kept(s, T) = f[Len(s)]
  BY DEF Kept, KeptOf
<1> HIDE DEF f
<1> QED
  BY <1>1, <1>2

\* No element of T is in s twice.
ListedOnce(s, T) == \A i, j \in DOMAIN s : s[i] \in T /\ s[i] = s[j] => i = j

\* What a sequence holds that was filtered from the first n elements of s.
Filtered(g, s, T, n) ==
  /\ \A j \in 1..Len(g) : g[j] \in T /\ \E i \in 1..n : s[i] = g[j]
  /\ \A i \in 1..n : s[i] \in T => \E j \in 1..Len(g) : s[i] = g[j]
  /\ ListedOnce(s, T) => \A j, k \in 1..Len(g) : g[j] = g[k] => j = k

\* One more element of the list keeps what is known of the filtered part.
LEMMA FilteredGrows ==
  ASSUME NEW S, NEW s \in Seq(S), NEW T, NEW n \in Nat, n + 1 =< Len(s),
         NEW g \in Seq(S), Filtered(g, s, T, n)
  PROVE  Filtered(IF s[n + 1] \in T THEN Append(g, s[n + 1]) ELSE g, s, T, n + 1)
<1>1. n + 1 \in DOMAIN s /\ s[n + 1] \in S /\ \A i \in 1..n : i \in DOMAIN s /\ i # n + 1
  OBVIOUS
<1>2. CASE s[n + 1] \notin T
  BY <1>1, <1>2 DEF Filtered
<1>3. CASE s[n + 1] \in T
  <2> DEFINE h == Append(g, s[n + 1])
  <2>1. /\ Len(h) = Len(g) + 1 /\ Len(g) \in Nat
        /\ h[Len(g) + 1] = s[n + 1]
        /\ \A j \in 1..Len(g) : h[j] = g[j]
    BY <1>1
  <2> HIDE DEF h
  <2>2. ASSUME NEW j \in 1..Len(h)
        PROVE  h[j] \in T /\ \E i \in 1..n + 1 : s[i] = h[j]
    <3>1. CASE j = Len(g) + 1
      BY <3>1, <2>1, <1>3
    <3>2. CASE j \in 1..Len(g)
      <4>1. g[j] \in T /\ \E i \in 1..n : s[i] = g[j]
        BY <3>2 DEF Filtered
      <4> QED
        BY <4>1, <3>2, <2>1
    <3> QED
      BY <2>1, <3>1, <3>2
  <2>3. ASSUME NEW i \in 1..n + 1, s[i] \in T
        PROVE  \E j \in 1..Len(h) : s[i] = h[j]
    <3>1. CASE i = n + 1
      BY <3>1, <2>1
    <3>2. CASE i \in 1..n
      <4>1. PICK j \in 1..Len(g) : s[i] = g[j]
        BY <3>2, <2>3 DEF Filtered
      <4> QED
        BY <4>1, <2>1
    <3> QED
      BY <3>1, <3>2
  <2>4. ASSUME ListedOnce(s, T), NEW j \in 1..Len(h), NEW k \in 1..Len(h), h[j] = h[k]
        PROVE  j = k
    <3>1. \A m \in 1..Len(g) : g[m] # s[n + 1]
      BY <1>1, <1>3, <2>4 DEF Filtered, ListedOnce
    <3>2. CASE j \in 1..Len(g) /\ k \in 1..Len(g)
      BY <3>2, <2>1, <2>4 DEF Filtered
    <3>3. CASE j = Len(g) + 1 /\ k \in 1..Len(g)
      BY <3>1, <3>3, <2>1, <2>4
    <3>4. CASE j \in 1..Len(g) /\ k = Len(g) + 1
      BY <3>1, <3>4, <2>1, <2>4
    <3> QED
      BY <3>2, <3>3, <3>4, <2>1
  <2>5. Filtered(h, s, T, n + 1)
    BY <2>2, <2>3, <2>4 DEF Filtered
  <2> QED
    BY <2>5, <1>3 DEF h
<1> QED
  BY <1>2, <1>3

\* A filtered list holds the elements that are wanted, each as often as the list.
LEMMA KeptFacts ==
  ASSUME NEW S, NEW s \in Seq(S), NEW T
  PROVE  /\ Kept(s, T) \in Seq(S)
         /\ Range(Kept(s, T)) = Range(s) \cap T
         /\ IsInjective(s) => IsInjective(Kept(s, T))
         /\ ListedOnce(s, T) => IsInjective(Kept(s, T))
<1>1. PICK f : KeptOf(f, s, T) /\ Kept(s, T) = f[Len(s)]
  BY KeptDef
<1>2. /\ f[0] = <<>>
      /\ \A n \in Nat : n + 1 =< Len(s) =>
           f[n + 1] = IF s[n + 1] \in T THEN Append(f[n], s[n + 1]) ELSE f[n]
  <2>1. \A i \in 0..Len(s) :
          f[i] = IF i = 0 THEN <<>>
                 ELSE IF s[i] \in T THEN Append(f[i - 1], s[i]) ELSE f[i - 1]
    BY <1>1 DEF KeptOf
  <2>2. ASSUME NEW n \in Nat, n + 1 =< Len(s)
        PROVE  f[n + 1] = IF s[n + 1] \in T THEN Append(f[n], s[n + 1]) ELSE f[n]
    <3>1. n + 1 \in 0..Len(s) /\ n + 1 # 0 /\ (n + 1) - 1 = n
      BY <2>2
    <3> QED
      BY <2>1, <3>1
  <2> QED
    BY <2>1, <2>2
<1> DEFINE Good == {n \in Nat : n =< Len(s) => f[n] \in Seq(S) /\ Filtered(f[n], s, T, n)}
<1>3. 0 \in Good
  <2>1. <<>> \in Seq(S) /\ Filtered(<<>>, s, T, 0)
    BY DEF Filtered
  <2> QED
    BY <1>2, <2>1
<1>4. ASSUME NEW n \in Good
      PROVE  n + 1 \in Good
  <2> SUFFICES ASSUME n + 1 =< Len(s)
               PROVE  f[n + 1] \in Seq(S) /\ Filtered(f[n + 1], s, T, n + 1)
    OBVIOUS
  <2>1. n \in Nat /\ s[n + 1] \in S /\ f[n] \in Seq(S) /\ Filtered(f[n], s, T, n)
    OBVIOUS
  <2>2. f[n + 1] = IF s[n + 1] \in T THEN Append(f[n], s[n + 1]) ELSE f[n]
    BY <1>2, <2>1
  <2>3. Filtered(f[n + 1], s, T, n + 1)
    BY <2>1, <2>2, FilteredGrows
  <2> QED
    BY <2>1, <2>2, <2>3
<1>5. Good = Nat
  <2> HIDE DEF Good
  <2> QED
    BY <1>3, <1>4, Induction DEF Good
<1>6. Kept(s, T) \in Seq(S) /\ Filtered(Kept(s, T), s, T, Len(s))
  BY <1>1, <1>5
<1> DEFINE g == Kept(s, T)
<1> HIDE DEF Good, g
<1>7. /\ g \in Seq(S) /\ Filtered(g, s, T, Len(s))
      /\ DOMAIN s = 1..Len(s) /\ DOMAIN g = 1..Len(g)
  BY <1>6 DEF g
<1>8. ASSUME NEW x \in Range(g)
      PROVE  x \in Range(s) \cap T
  <2>1. PICK j \in 1..Len(g) : x = g[j]
    BY <1>7 DEF Range
  <2>2. g[j] \in T /\ \E i \in 1..Len(s) : s[i] = g[j]
    BY <1>7, <2>1 DEF Filtered
  <2> QED
    BY <1>7, <2>1, <2>2 DEF Range
<1>9. ASSUME NEW x \in Range(s) \cap T
      PROVE  x \in Range(g)
  <2>1. PICK i \in 1..Len(s) : x = s[i]
    BY <1>7 DEF Range
  <2>2. \E j \in 1..Len(g) : s[i] = g[j]
    BY <1>7, <2>1 DEF Filtered
  <2> QED
    BY <1>7, <2>1, <2>2 DEF Range
<1>10. ListedOnce(s, T) => IsInjective(g)
  BY <1>7 DEF Filtered, IsInjective
<1>11. IsInjective(s) => ListedOnce(s, T)
  BY DEF ListedOnce, IsInjective
<1> QED
  BY <1>7, <1>8, <1>9, <1>10, <1>11 DEF g
=============================================================================
