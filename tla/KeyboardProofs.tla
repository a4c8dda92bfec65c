--------------------------- MODULE KeyboardProofs ---------------------------
(***************************************************************************)
(* Proofs about module Keyboard, for any word list that has the properties *)
(* assumed there, any lengths of prefixes and phrases, and any keys.       *)
(*                                                                         *)
(* First the order of strings, the binary search and the scan after it:    *)
(* whatever is typed, they find exactly the words that start with it.      *)
(* Then the three candidates, in their order; then the keys one by one,    *)
(* each of which leaves candidates that fit what is typed; and at last the *)
(* passes of the loop.                                                     *)
(***************************************************************************)
EXTENDS Keyboard, FiniteSetTheorems, WellFoundedInduction, SequenceTheorems, TLAPS

-----------------------------------------------------------------------------
(* The least and the greatest of some numbers.                                *)

LEMMA Least == ASSUME NEW T, T \subseteq Nat, T # {} PROVE \E x \in T : \A y \in T : x <= y
<1> DEFINE U == {1..n : n \in T}
<1>1. U \subseteq FiniteSubsetsOf(Nat) /\ U # {}
  <2>1. ASSUME NEW n \in T PROVE 1..n \in SUBSET Nat /\ IsFiniteSet(1..n)
    BY FS_Interval
  <2> QED BY <2>1 DEF FiniteSubsetsOf
<1>2. \E u \in U : \A v \in U : ~(<<v, u>> \in StrictSubsetOrdering(Nat))
  <2> HIDE DEF U
  <2> QED BY <1>1, FS_StrictSubsetOrderingWellFounded, WFMin, Zenon
<1>3. PICK n \in T : \A m \in T : ~(<<1..m, 1..n>> \in StrictSubsetOrdering(Nat))
  BY <1>2
<1>4. ASSUME NEW m \in T, m < n PROVE FALSE
  <2>1. n \in Nat /\ m \in Nat
    OBVIOUS
  <2>2. 1..m \subseteq 1..n /\ 1..n \subseteq Nat /\ n \in 1..n /\ n \notin 1..m
    BY <2>1, <1>4
  <2>3. 1..m # 1..n /\ 1..m \in SUBSET Nat /\ 1..n \in SUBSET Nat
    BY <2>2, Zenon
  <2>4. <<1..m, 1..n>> \in StrictSubsetOrdering(Nat)
    BY <2>2, <2>3, Zenon DEF StrictSubsetOrdering
  <2> QED BY <2>4, <1>3
<1> QED BY <1>4

LEMMA MaxIsMember ==
  ASSUME NEW n \in Nat, NEW S, S \subseteq 0..n, S # {}
  PROVE  Max(S) \in S /\ \A y \in S : Max(S) >= y
<1> DEFINE T == {n - y : y \in S}
<1>1. T \subseteq Nat /\ T # {}
  OBVIOUS
<1>2. PICK x \in T : \A y \in T : x <= y
  BY <1>1, Least
<1>3. PICK m \in S : x = n - m
  BY <1>2
<1>4. ASSUME NEW y \in S PROVE m >= y
  BY <1>2, <1>3
<1>5. \E z \in S : \A y \in S : z >= y
  BY <1>4
<1> QED BY <1>5 DEF Max

-----------------------------------------------------------------------------
(* The order of strings.                                                      *)

Strings == Seq(Letters)
Agree(s, t, n) == \A k \in 1..n : s[k] = t[k]

LEMMA Chars ==
  ASSUME NEW s \in Strings
  PROVE  Len(s) \in Nat /\ \A k \in 1..Len(s) : s[k] \in Nat
<1>1. Letters \subseteq Nat
  BY DEF Letters
<1> QED BY <1>1, LenProperties, ElementOfSeq DEF Strings

(* The first n characters are the same.                                       *)
LEMMA SubSeqAgree ==
  ASSUME NEW s \in Strings, NEW t \in Strings, NEW n \in Nat, n <= Len(s), n <= Len(t)
  PROVE  SubSeq(s, 1, n) = SubSeq(t, 1, n) <=> Agree(s, t, n)
<1>1. ASSUME NEW u \in Strings, n <= Len(u)
      PROVE  /\ SubSeq(u, 1, n) \in Strings /\ Len(SubSeq(u, 1, n)) = n
             /\ \A k \in 1..n : SubSeq(u, 1, n)[k] = u[k]
  <2>1. \A k \in 1..n : u[k] \in Letters
    <3>1. \A k \in 1..n : k \in 1..Len(u)
      BY <1>1, Chars
    <3> QED BY <3>1, ElementOfSeq DEF Strings
  <2>2. 1 \in Int /\ n \in Int /\ (IF 1 <= n THEN n - 1 + 1 ELSE 0) = n /\ n - 1 + 1 = n /\ \A k \in 1..n : 1 + k - 1 = k
    OBVIOUS
  <2> QED BY <2>1, <2>2, SubSeqProperties DEF Strings
<1>2. PICK a, b : a = SubSeq(s, 1, n) /\ b = SubSeq(t, 1, n)
  OBVIOUS
<1>3. /\ a \in Strings /\ Len(a) = n /\ \A k \in 1..n : a[k] = s[k]
      /\ b \in Strings /\ Len(b) = n /\ \A k \in 1..n : b[k] = t[k]
  BY <1>1, <1>2
<1>4. a = b <=> \A k \in 1..n : a[k] = b[k]
  BY <1>3, SeqEqual DEF Strings
<1> QED BY <1>2, <1>3, <1>4 DEF Agree

LEMMA PrefixMeans ==
  ASSUME NEW s \in Strings, NEW t \in Strings
  PROVE  IsPrefix(s, t) <=> Len(s) <= Len(t) /\ Agree(s, t, Len(s))
<1>1. Len(s) \in Nat
  BY Chars
<1>2. Len(s) <= Len(t) => (SubSeq(s, 1, Len(s)) = SubSeq(t, 1, Len(s)) <=> Agree(s, t, Len(s)))
  BY <1>1, SubSeqAgree
<1> QED BY <1>2 DEF IsPrefix

LEMMA MinPair == ASSUME NEW a \in Nat, NEW b \in Nat PROVE Min({a, b}) = IF a <= b THEN a ELSE b
<1>1. PICK m \in {a, b} : m = (IF a <= b THEN a ELSE b) /\ \A y \in {a, b} : m <= y
  OBVIOUS
<1>2. \A x \in {a, b} : (\A y \in {a, b} : x <= y) => x = m
  BY <1>1
<1> QED BY <1>1, <1>2 DEF Min

(* strcmp.                                                                    *)
LEMMA BeforeMeans ==
  ASSUME NEW s \in Strings, NEW t \in Strings
  PROVE  Before(s, t) <=> \/ Len(s) < Len(t) /\ Agree(s, t, Len(s))
                          \/ \E i \in 1..Len(s) : i <= Len(t) /\ s[i] < t[i] /\ Agree(s, t, i - 1)
<1>0. Len(s) \in Nat /\ Len(t) \in Nat
  BY Chars
<1>1. s # t /\ IsPrefix(s, t) <=> Len(s) < Len(t) /\ Agree(s, t, Len(s))
  <2>1. Len(s) = Len(t) /\ Agree(s, t, Len(s)) => s = t
    BY SeqEqual DEF Agree, Strings
  <2> QED BY <1>0, <2>1, PrefixMeans DEF Agree
<1>2. PICK m \in Nat : m = Min({Len(s), Len(t)}) /\ m <= Len(s) /\ m <= Len(t) /\ m \in {Len(s), Len(t)}
  BY <1>0, MinPair
<1>3. ASSUME NEW i \in 1..m
      PROVE  SubSeq(s, 1, i - 1) = SubSeq(t, 1, i - 1) <=> Agree(s, t, i - 1)
  <2>1. i - 1 \in Nat /\ i - 1 <= Len(s) /\ i - 1 <= Len(t)
    BY <1>0, <1>2
  <2> QED BY <2>1, SubSeqAgree
<1>4. \A i : i \in 1..m <=> i \in 1..Len(s) /\ i <= Len(t)
  BY <1>0, <1>2
<1> QED BY <1>1, <1>2, <1>3, <1>4 DEF Before

(* A word is not before a prefix of it.                                       *)
LEMMA PrefixNotBefore ==
  ASSUME NEW p \in Strings, NEW w \in Strings, IsPrefix(p, w)
  PROVE  ~Before(w, p)
<1>1. Len(p) <= Len(w) /\ Agree(p, w, Len(p))
  BY PrefixMeans
<1>2. Len(p) \in Nat /\ Len(w) \in Nat /\ \A k \in 1..Len(w) : w[k] \in Nat
  BY Chars
<1> QED BY <1>1, <1>2, BeforeMeans DEF Agree

LEMMA BeforeTransitive ==
  ASSUME NEW u \in Strings, NEW v \in Strings, NEW w \in Strings, Before(u, v), Before(v, w)
  PROVE  Before(u, w)
<1>0. /\ Len(u) \in Nat /\ Len(v) \in Nat /\ Len(w) \in Nat
      /\ \A k \in 1..Len(u) : u[k] \in Nat
      /\ \A k \in 1..Len(v) : v[k] \in Nat
      /\ \A k \in 1..Len(w) : w[k] \in Nat
  BY Chars
<1>a. CASE Len(u) < Len(v) /\ Agree(u, v, Len(u))
  <2>1. CASE Len(v) < Len(w) /\ Agree(v, w, Len(v))
    <3>1. Len(u) < Len(w) /\ Agree(u, w, Len(u))
      BY <1>0, <1>a, <2>1 DEF Agree
    <3> QED BY <3>1, BeforeMeans
  <2>2. ASSUME NEW i \in 1..Len(v), i <= Len(w), v[i] < w[i], Agree(v, w, i - 1)
        PROVE  Before(u, w)
    <3>1. CASE i <= Len(u)
      <4>1. i \in 1..Len(u) /\ u[i] < w[i] /\ Agree(u, w, i - 1)
        BY <1>0, <1>a, <2>2, <3>1 DEF Agree
      <4> QED BY <2>2, <4>1, BeforeMeans
    <3>2. CASE i > Len(u)
      <4>1. Len(u) < Len(w) /\ Agree(u, w, Len(u))
        BY <1>0, <1>a, <2>2, <3>2 DEF Agree
      <4> QED BY <4>1, BeforeMeans
    <3> QED BY <1>0, <3>1, <3>2
  <2> QED BY <2>1, <2>2, BeforeMeans
<1>b. ASSUME NEW j \in 1..Len(u), j <= Len(v), u[j] < v[j], Agree(u, v, j - 1)
      PROVE  Before(u, w)
  <2>1. CASE Len(v) < Len(w) /\ Agree(v, w, Len(v))
    <3>1. j <= Len(w) /\ u[j] < w[j] /\ Agree(u, w, j - 1)
      BY <1>0, <1>b, <2>1 DEF Agree
    <3> QED BY <3>1, BeforeMeans
  <2>2. ASSUME NEW i \in 1..Len(v), i <= Len(w), v[i] < w[i], Agree(v, w, i - 1)
        PROVE  Before(u, w)
    <3>1. CASE i < j
      <4>1. i \in 1..Len(u) /\ u[i] < w[i] /\ Agree(u, w, i - 1)
        BY <1>0, <1>b, <2>2, <3>1 DEF Agree
      <4> QED BY <2>2, <4>1, BeforeMeans
    <3>2. CASE i >= j
      <4>1. j <= Len(w) /\ u[j] < w[j] /\ Agree(u, w, j - 1)
        BY <1>0, <1>b, <2>2, <3>2 DEF Agree
      <4> QED BY <4>1, BeforeMeans
    <3> QED BY <1>0, <3>1, <3>2
  <2> QED BY <2>1, <2>2, BeforeMeans
<1> QED BY <1>a, <1>b, BeforeMeans

(* What stands in the list between a word that is not before p and one that   *)
(* starts with p starts with p.                                               *)
LEMMA PrefixBetween ==
  ASSUME NEW p \in Strings, NEW u \in Strings, NEW v \in Strings,
         ~Before(u, p), Before(u, v), IsPrefix(p, v)
  PROVE  IsPrefix(p, u)
<1>0. /\ Len(u) \in Nat /\ Len(v) \in Nat /\ Len(p) \in Nat
      /\ \A k \in 1..Len(u) : u[k] \in Nat
      /\ \A k \in 1..Len(v) : v[k] \in Nat
      /\ \A k \in 1..Len(p) : p[k] \in Nat
  BY Chars
<1>p. Len(p) <= Len(v) /\ Agree(p, v, Len(p))
  BY PrefixMeans
<1>1. CASE Len(u) < Len(v) /\ Agree(u, v, Len(u))
  <2>1. CASE Len(u) < Len(p)
    <3>1. Agree(u, p, Len(u))
      BY <1>0, <1>p, <1>1, <2>1 DEF Agree
    <3> QED BY <2>1, <3>1, BeforeMeans
  <2>2. CASE Len(p) <= Len(u)
    <3>1. Agree(p, u, Len(p))
      BY <1>0, <1>p, <1>1, <2>2 DEF Agree
    <3> QED BY <2>2, <3>1, PrefixMeans
  <2> QED BY <1>0, <2>1, <2>2
<1>2. ASSUME NEW i \in 1..Len(u), i <= Len(v), u[i] < v[i], Agree(u, v, i - 1)
      PROVE  IsPrefix(p, u)
  <2>1. CASE i <= Len(p)
    <3>1. u[i] < p[i] /\ Agree(u, p, i - 1)
      BY <1>0, <1>p, <1>2, <2>1 DEF Agree
    <3> QED BY <2>1, <3>1, BeforeMeans
  <2>2. CASE i > Len(p)
    <3>1. Len(p) <= Len(u) /\ Agree(p, u, Len(p))
      BY <1>0, <1>p, <1>2, <2>2 DEF Agree
    <3> QED BY <3>1, PrefixMeans
  <2> QED BY <1>0, <2>1, <2>2
<1> QED BY <1>1, <1>2, BeforeMeans

-----------------------------------------------------------------------------
(* The binary search.                                                         *)

LEMMA List ==
  /\ Len(Words) \in Nat /\ Index = 1..Len(Words) /\ 1 \in Letters /\ LastLetter \in Nat
  /\ \A i \in Index : Words[i] \in Strings /\ Len(Words[i]) \in Nat /\ Len(Words[i]) > 0
<1>1. Len(Words) \in Nat /\ Index = 1..Len(Words) /\ 1 \in Letters /\ LastLetter \in Nat
  BY ConstantTypes DEF Index, Letters
<1>2. ASSUME NEW i \in Index
      PROVE  Words[i] \in Strings /\ Len(Words[i]) \in Nat /\ Len(Words[i]) > 0
  <2>1. Words[i] \in Seq(Letters) \ {<<>>}
    BY ConstantTypes, ElementOfSeq DEF Index
  <2> QED BY <2>1, EmptySeq DEF Strings
<1> QED BY <1>1, <1>2

(* The words before p come first.                                             *)
Below(p, b) == b \in 0..Len(Words) /\ \A i \in Index : Before(Words[i], p) <=> i <= b

(* There is such a place for each string: the list is sorted.                 *)
LEMMA Split == ASSUME NEW p \in Strings PROVE \E b : Below(p, b)
<1> DEFINE T == {i \in Index : ~Before(Words[i], p)}
<1>1. CASE T = {}
  <2>1. Below(p, Len(Words))
    BY <1>1, List DEF Below
  <2> QED BY <2>1
<1>2. CASE T # {}
  <2>1. PICK x \in T : \A y \in T : x <= y
    <3>1. T \subseteq Nat
      BY List
    <3> HIDE DEF T
    <3> QED BY <1>2, <3>1, Least
  <2>2. ASSUME NEW i \in Index, i > x PROVE ~Before(Words[i], p)
    <3>1. Before(Words[x], Words[i])
      BY <2>2, WordsSorted
    <3> QED BY <3>1, List, BeforeTransitive
  <2>3. ASSUME NEW i \in Index PROVE Before(Words[i], p) <=> i <= x - 1
    BY <2>1, <2>2, <2>3, List
  <2>4. Below(p, x - 1)
    BY <2>1, <2>3, List DEF Below
  <2> QED BY <2>4
<1> QED BY <1>1, <1>2

Half(f, p, lo, hi, mid) == IF Before(Words[mid], p) THEN f[<<mid + 1, hi>>] ELSE f[<<lo, mid - 1>>]
Halves(f, p) ==
  [r \in Ranges |->
     LET lo == r[1]
         hi == r[2]
         mid == lo + (hi - lo) \div 2
     IN IF lo > hi THEN lo ELSE Half(f, p, lo, hi, mid)]

(* The recursive function of LowerBound, its equation named.                  *)
LEMMA LowerBoundDef ==
  ASSUME NEW p
  PROVE  LowerBound(p) = (CHOOSE f : f = Halves(f, p))[<<1, Len(Words)>>]
BY DEF LowerBound, Halves, Half

(* Half of a range is a range, and a shorter one.                             *)
LEMMA Middle ==
  ASSUME NEW lo \in Int, NEW hi \in Int, lo <= hi
  PROVE  lo + (hi - lo) \div 2 \in lo..hi
OBVIOUS

(* The end of the recursion, and its step.                                    *)
LEMMA HalvesEnd ==
  ASSUME NEW p, NEW f, NEW lo \in 1..Len(Words) + 1, NEW hi \in 0..Len(Words), lo > hi
  PROVE  Halves(f, p)[<<lo, hi>>] = lo
<1>1. <<lo, hi>> \in Ranges
  BY List DEF Ranges
<1> QED BY <1>1 DEF Halves

LEMMA HalvesGo ==
  ASSUME NEW p, NEW f, NEW lo \in 1..Len(Words) + 1, NEW hi \in 0..Len(Words), lo <= hi
  PROVE  \E mid \in lo..hi : Halves(f, p)[<<lo, hi>>] = Half(f, p, lo, hi, mid)
<1>1. <<lo, hi>> \in Ranges /\ lo \in Int /\ hi \in Int
  BY List DEF Ranges
<1>2. PICK mid \in lo..hi : mid = lo + (hi - lo) \div 2
  BY <1>1, Middle
<1>3. ~(lo > hi)
  BY <1>1
<1>4. Halves(f, p)[<<lo, hi>>] = Half(f, p, lo, hi, mid)
  BY <1>1, <1>2, <1>3 DEF Halves
<1> HIDE DEF Halves
<1> QED BY <1>4

(* What the search of a range finds.                                          *)
Found(b, lo, hi) == IF lo > hi THEN lo ELSE IF b < lo THEN lo ELSE IF b > hi THEN hi + 1 ELSE b + 1

(* The closed form satisfies the equation, so the function that is chosen does;*)
LEMMA Searched ==
  ASSUME NEW p, NEW b, Below(p, b)
  PROVE  LET g == [r \in Ranges |-> Found(b, r[1], r[2])] IN g = Halves(g, p)
<1> DEFINE g == [r \in Ranges |-> Found(b, r[1], r[2])]
<1>0. b \in Int /\ Len(Words) \in Nat
  BY List DEF Below
<1>1. ASSUME NEW lo \in 1..Len(Words) + 1, NEW hi \in 0..Len(Words)
      PROVE  g[<<lo, hi>>] = Halves(g, p)[<<lo, hi>>]
  <2>0. g[<<lo, hi>>] = Found(b, lo, hi) /\ lo \in Int /\ hi \in Int
    BY List DEF Ranges
  <2>1. CASE lo > hi
    BY <2>0, <2>1, HalvesEnd DEF Found
  <2>2. CASE lo <= hi
    <3>1. PICK mid \in lo..hi : Halves(g, p)[<<lo, hi>>] = Half(g, p, lo, hi, mid)
      <4> HIDE DEF g
      <4> QED BY <2>2, HalvesGo
    <3>2. mid \in Index /\ (Before(Words[mid], p) <=> mid <= b)
      BY <1>0, <2>0, <3>1, List DEF Below
    <3>3. g[<<mid + 1, hi>>] = Found(b, mid + 1, hi) /\ g[<<lo, mid - 1>>] = Found(b, lo, mid - 1)
      <4>1. <<mid + 1, hi>> \in Ranges /\ <<lo, mid - 1>> \in Ranges
        BY <1>0, <2>0, <3>1 DEF Ranges
      <4> QED BY <4>1
    <3> HIDE DEF g
    <3>4. Found(b, lo, hi) = IF mid <= b THEN Found(b, mid + 1, hi) ELSE Found(b, lo, mid - 1)
      BY <1>0, <2>0, <2>2, <3>1 DEF Found
    <3> QED BY <2>0, <3>1, <3>2, <3>3, <3>4 DEF Half
  <2> QED BY <2>0, <2>1, <2>2
<1>2. g = [r \in Ranges |-> g[r]] /\ Halves(g, p) = [r \in Ranges |-> Halves(g, p)[r]]
  BY DEF Halves
<1>3. \A r \in Ranges : g[r] = Halves(g, p)[r]
  <2> HIDE DEF g
  <2> QED BY <1>1 DEF Ranges
<1> QED BY <1>2, <1>3

(* and it is the closed form: where it were not, it would not be on a shortest*)
(* range, whose halves are shorter.                                           *)
LEMMA LowerBoundIs ==
  ASSUME NEW p, NEW b, Below(p, b)
  PROVE  LowerBound(p) = b + 1
<1>0. b \in Int /\ 0 <= b /\ b <= Len(Words) /\ Len(Words) \in Nat
  BY List DEF Below
<1>1. PICK f : f = (CHOOSE g : g = Halves(g, p)) /\ f = Halves(f, p)
  BY Searched
<1>2. ASSUME NEW lo \in 1..Len(Words) + 1, NEW hi \in 0..Len(Words)
      PROVE  f[<<lo, hi>>] = Found(b, lo, hi)
  <2> DEFINE Wrong == {n \in Nat : \E l \in 1..Len(Words) + 1, h \in 0..Len(Words) :
                                   n = Len(Words) + h - l + 1 /\ f[<<l, h>>] # Found(b, l, h)}
  <2>1. ASSUME Wrong # {} PROVE FALSE
    <3>1. PICK n \in Wrong : \A m \in Wrong : n <= m
      <4>1. Wrong \subseteq Nat
        OBVIOUS
      <4> HIDE DEF Wrong
      <4> QED BY <2>1, <4>1, Least
    <3>2. PICK l \in 1..Len(Words) + 1, h \in 0..Len(Words) :
            n = Len(Words) + h - l + 1 /\ f[<<l, h>>] # Found(b, l, h)
      BY <3>1
    <3>3. ASSUME NEW k \in 1..Len(Words) + 1, NEW j \in 0..Len(Words), j - k < h - l
          PROVE  f[<<k, j>>] = Found(b, k, j)
      <4>1. Len(Words) + j - k + 1 \in Nat /\ Len(Words) + j - k + 1 < n
        BY <1>0, <3>2, <3>3
      <4>2. Len(Words) + j - k + 1 \notin Wrong
        <5>1. n \in Nat
          BY <3>1
        <5> HIDE DEF Wrong
        <5> QED BY <3>1, <4>1, <5>1
      <4> QED BY <4>1, <4>2
    <3>4. l \in Int /\ h \in Int
      BY <1>0
    <3>5. CASE l > h
      <4>1. Halves(f, p)[<<l, h>>] = l
        BY <3>5, HalvesEnd
      <4>2. f[<<l, h>>] = l
        BY <1>1, <4>1
      <4> QED BY <3>2, <3>5, <4>2 DEF Found
    <3>6. CASE l <= h
      <4>1. PICK mid \in l..h : Halves(f, p)[<<l, h>>] = Half(f, p, l, h, mid)
        BY <3>6, HalvesGo
      <4>5. f[<<l, h>>] = Half(f, p, l, h, mid)
        BY <1>1, <4>1
      <4>2. mid \in Index /\ (Before(Words[mid], p) <=> mid <= b)
        BY <1>0, <3>4, <4>1, List DEF Below
      <4>3. f[<<mid + 1, h>>] = Found(b, mid + 1, h) /\ f[<<l, mid - 1>>] = Found(b, l, mid - 1)
        <5>1. mid + 1 \in 1..Len(Words) + 1 /\ mid - 1 \in 0..Len(Words) /\ h - (mid + 1) < h - l /\ (mid - 1) - l < h - l
          BY <1>0, <3>4, <4>1
        <5> QED BY <3>3, <5>1
      <4>4. Found(b, l, h) = IF mid <= b THEN Found(b, mid + 1, h) ELSE Found(b, l, mid - 1)
        BY <1>0, <3>4, <3>6, <4>1 DEF Found
      <4> QED BY <3>2, <4>2, <4>3, <4>4, <4>5 DEF Half
    <3> QED BY <3>4, <3>5, <3>6
  <2>2. Len(Words) + hi - lo + 1 \in Nat
    BY <1>0
  <2> QED BY <2>1, <2>2
<1>3. f[<<1, Len(Words)>>] = Found(b, 1, Len(Words))
  BY <1>0, <1>2
<1>4. Found(b, 1, Len(Words)) = b + 1
  BY <1>0 DEF Found
<1> QED BY <1>1, <1>3, <1>4, LowerBoundDef

-----------------------------------------------------------------------------
(* What the search offers.                                                    *)

(* The words with a prefix are the ones the scan from the lower bound counts. *)
LEMMA MatchingIs ==
  ASSUME NEW p \in Strings, NEW b, Below(p, b)
  PROVE  /\ FindPrefix(p) \in 0..Len(Words) - b
         /\ Matching(p) = b + 1..b + FindPrefix(p)
<1>0. b \in Int /\ 0 <= b /\ b <= Len(Words) /\ Len(Words) \in Nat /\ Index = 1..Len(Words)
  BY List DEF Below
<1> DEFINE N == Len(Words) - b
           T == {n \in 0..N : \A i \in b + 1..b + n : IsPrefix(p, Words[i])}
<1>1. FindPrefix(p) = Max(T)
  <2>1. LowerBound(p) = b + 1
    BY LowerBoundIs
  <2>2. 0..N = 0..Len(Words) + 1 - (b + 1)
    BY <1>0
  <2>3. ASSUME NEW n \in 0..N PROVE b + 1..b + n = b + 1..(b + 1) + n - 1
    BY <1>0
  <2>4. T = {n \in 0..Len(Words) + 1 - (b + 1) : \A i \in b + 1..(b + 1) + n - 1 : IsPrefix(p, Words[i])}
    BY <2>2, <2>3
  <2>5. T = {n \in 0..Len(Words) + 1 - LowerBound(p) :
               \A i \in LowerBound(p)..LowerBound(p) + n - 1 : IsPrefix(p, Words[i])}
    BY <2>1, <2>4
  <2> QED BY <2>5 DEF FindPrefix
<1>2. N \in Nat /\ T \subseteq 0..N /\ 0 \in T
  BY <1>0
<1>3. Max(T) \in T /\ \A y \in T : Max(T) >= y
  <2> HIDE DEF T, N
  <2> QED BY <1>2, MaxIsMember
<1>4. PICK n \in T : n = FindPrefix(p) /\ \A y \in T : n >= y
  BY <1>1, <1>3
<1>5. ASSUME NEW i \in Matching(p) PROVE i \in b + 1..b + n
  <2>1. i \in Index /\ IsPrefix(p, Words[i]) /\ Words[i] \in Strings
    BY List DEF Matching
  <2>2. i > b
    BY <1>0, <2>1, PrefixNotBefore DEF Below
  <2>3. ASSUME NEW j \in b + 1..i PROVE IsPrefix(p, Words[j])
    <3>1. j \in Index /\ Words[j] \in Strings /\ ~Before(Words[j], p)
      BY <1>0, <2>1, List DEF Below
    <3>2. CASE j = i
      BY <2>1, <3>2
    <3>3. CASE j < i
      <4>1. Before(Words[j], Words[i])
        BY <2>1, <3>1, <3>3, WordsSorted
      <4> QED BY <2>1, <3>1, <4>1, PrefixBetween
    <3> QED BY <1>0, <2>1, <3>2, <3>3
  <2>4. i - b \in T
    <3>1. i - b \in 0..N /\ b + (i - b) = i
      BY <1>0, <2>1, <2>2
    <3> QED BY <2>3, <3>1
  <2>5. n >= i - b
    BY <1>4, <2>4
  <2> QED BY <1>0, <2>1, <2>2, <2>5
<1>6. ASSUME NEW i \in b + 1..b + n PROVE i \in Matching(p)
  BY <1>0, <1>4 DEF Matching
<1>7. n \in 0..Len(Words) - b /\ Matching(p) = b + 1..b + n
  <2>1. n \in 0..N
    OBVIOUS
  <2> HIDE DEF T
  <2> QED BY <2>1, <1>5, <1>6
<1> QED BY <1>4, <1>7

LEMMA MatchingCount ==
  ASSUME NEW p \in Strings, NEW b, Below(p, b)
  PROVE  FindPrefix(p) = Cardinality(Matching(p)) /\ IsFiniteSet(Matching(p))
<1>0. b \in Int /\ Len(Words) \in Nat
  BY List DEF Below
<1>1. PICK n \in Int : n = FindPrefix(p) /\ n >= 0 /\ Matching(p) = b + 1..b + n
  BY <1>0, MatchingIs
<1>2. IsFiniteSet(b + 1..b + n) /\ Cardinality(b + 1..b + n) = n
  <2>1. b + 1 \in Int /\ b + n \in Int
    BY <1>0
  <2>2. (IF b + 1 > b + n THEN 0 ELSE (b + n) - (b + 1) + 1) = n
    BY <1>0, <1>1
  <2> QED BY <2>1, <2>2, FS_Interval
<1> QED BY <1>1, <1>2

(* The order of the candidates is a strict total one.                         *)
LEMMA AheadOrders ==
  ASSUME NEW i \in Index, NEW j \in Index, NEW k \in Index
  PROVE  /\ ~Ahead(i, i) /\ (i # j => Ahead(i, j) \/ Ahead(j, i))
         /\ Ahead(i, j) /\ Ahead(j, k) => Ahead(i, k)
BY List DEF Ahead

Ordered(c) == \A m, n \in DOMAIN c : m < n => Ahead(c[m], c[n])

LEMMA ThreeOrdered ==
  ASSUME NEW S, NEW x \in S, NEW y \in S, NEW z \in S, Ahead(x, y), Ahead(y, z), Ahead(x, z)
  PROVE  \E c \in [1..3 -> S] : Ordered(c)
<1> DEFINE c == [m \in 1..3 |-> IF m = 1 THEN x ELSE IF m = 2 THEN y ELSE z]
<1>1. c \in [1..3 -> S] /\ DOMAIN c = 1..3 /\ c[1] = x /\ c[2] = y /\ c[3] = z
  OBVIOUS
<1>2. \A m, n \in 1..3 : m < n => (m = 1 /\ n = 2) \/ (m = 1 /\ n = 3) \/ (m = 2 /\ n = 3)
  OBVIOUS
<1> HIDE DEF c
<1>3. Ordered(c)
  BY <1>1, <1>2 DEF Ordered
<1> QED BY <1>1, <1>3

LEMMA TwoOrdered ==
  ASSUME NEW S, NEW x \in S, NEW y \in S, Ahead(x, y)
  PROVE  \E c \in [1..2 -> S] : Ordered(c)
<1> DEFINE c == [m \in 1..2 |-> IF m = 1 THEN x ELSE y]
<1>1. c \in [1..2 -> S] /\ DOMAIN c = 1..2 /\ c[1] = x /\ c[2] = y
  OBVIOUS
<1>2. \A m, n \in 1..2 : m < n => m = 1 /\ n = 2
  OBVIOUS
<1> HIDE DEF c
<1>3. Ordered(c)
  BY <1>1, <1>2 DEF Ordered
<1> QED BY <1>1, <1>3

(* Up to three words next to one another can be put in that order.            *)
LEMMA CanBeOrdered ==
  ASSUME NEW b \in Nat, NEW n \in 0..Shown, b + n <= Len(Words)
  PROVE  \E c \in [1..n -> b + 1..b + n] : Ordered(c)
<1> DEFINE S == b + 1..b + n
<1>0. S \subseteq Index /\ n \in {0, 1, 2, 3}
  BY List DEF Shown
<1>1. CASE n = 0 \/ n = 1
  <2> DEFINE c == [m \in 1..n |-> b + 1]
  <2>1. c \in [1..n -> S] /\ DOMAIN c = 1..n
    BY <1>1
  <2>2. Ordered(c)
    BY <1>1, <2>1 DEF Ordered
  <2> QED BY <2>1, <2>2
<1>2. CASE n = 2
  <2>1. PICK x \in S, y \in S : x # y
    BY <1>2
  <2>2. Ahead(x, y) \/ Ahead(y, x)
    BY <1>0, <2>1, AheadOrders
  <2> HIDE DEF S
  <2>3. \E c \in [1..2 -> S] : Ordered(c)
    BY <2>2, TwoOrdered
  <2> QED BY <1>2, <2>3 DEF S
<1>3. CASE n = 3
  <2>1. PICK x \in S, y \in S, z \in S : x # y /\ y # z /\ x # z
    <3>1. b + 1 \in S /\ b + 2 \in S /\ b + 3 \in S
      BY <1>3
    <3> HIDE DEF S
    <3> QED BY <3>1
  <2> HIDE DEF S
  <2>2. /\ Ahead(x, y) \/ Ahead(y, x)
        /\ Ahead(y, z) \/ Ahead(z, y)
        /\ Ahead(x, z) \/ Ahead(z, x)
    BY <1>0, <2>1, AheadOrders
  <2>3. /\ Ahead(x, y) /\ Ahead(y, z) => Ahead(x, z)
        /\ Ahead(x, z) /\ Ahead(z, y) => Ahead(x, y)
        /\ Ahead(y, x) /\ Ahead(x, z) => Ahead(y, z)
        /\ Ahead(y, z) /\ Ahead(z, x) => Ahead(y, x)
        /\ Ahead(z, x) /\ Ahead(x, y) => Ahead(z, y)
        /\ Ahead(z, y) /\ Ahead(y, x) => Ahead(z, x)
    BY <1>0, AheadOrders
  <2>4. \E u, v, w \in S : Ahead(u, v) /\ Ahead(v, w) /\ Ahead(u, w)
    BY <2>2, <2>3
  <2>5. \E c \in [1..3 -> S] : Ordered(c)
    BY <2>4, ThreeOrdered
  <2> QED BY <1>3, <2>5 DEF S
<1> QED BY <1>0, <1>1, <1>2, <1>3

(* An ordered choice of as many words as there are takes each of them.        *)
Choice(c, b, n) == c \in [1..n -> b + 1..b + n] /\ Ordered(c)

LEMMA OrderedTakesAll ==
  ASSUME NEW b \in Nat, NEW n \in 0..Shown, b + n <= Len(Words),
         NEW c, Choice(c, b, n), NEW i \in b + 1..b + n
  PROVE  \E m \in 1..n : c[m] = i
<1> DEFINE S == b + 1..b + n
<1>0. S \subseteq Index /\ n \in {1, 2, 3} /\ i \in S
  BY List DEF Shown
<1>c. c \in [1..n -> S] /\ Ordered(c)
  BY DEF Choice
<1>1. \A k, m \in 1..n : k < m => c[k] # c[m]
  <2>1. \A k \in 1..n : c[k] \in Index
    BY <1>0, <1>c
  <2> QED BY <1>0, <1>c, <2>1, AheadOrders DEF Ordered
<1>2. CASE n = 1
  <2>1. c[1] = i /\ 1 \in 1..n
    BY <1>c, <1>2
  <2> QED BY <2>1
<1>3. CASE n = 2
  <2>1. 1 \in 1..n /\ 2 \in 1..n /\ c[1] # c[2] /\ c[1] \in {b + 1, b + 2} /\ c[2] \in {b + 1, b + 2} /\ i \in {b + 1, b + 2}
    <3>1. 1 \in 1..n /\ 2 \in 1..n /\ S = {b + 1, b + 2}
      BY <1>3
    <3> QED BY <1>0, <1>c, <1>1, <3>1
  <2> QED BY <2>1
<1>4. CASE n = 3
  <2>1. 1 \in 1..n /\ 2 \in 1..n /\ 3 \in 1..n /\ S = {b + 1, b + 2, b + 3}
    BY <1>4
  <2>2. c[1] \in S /\ c[2] \in S /\ c[3] \in S /\ c[1] # c[2] /\ c[1] # c[3] /\ c[2] # c[3]
    BY <1>1, <1>c, <2>1
  <2> HIDE DEF S
  <2>3. c[1] = i \/ c[2] = i \/ c[3] = i
    BY <1>0, <2>1, <2>2
  <2> QED BY <2>1, <2>3
<1> QED BY <1>0, <1>2, <1>3, <1>4

(* What CandidatesAreCurrent says of the candidates m and their number t.     *)
Fits(p, m, t) ==
  /\ t = Cardinality(Matching(p)) % TotalModulus
  /\ Len(m) = IF p = <<>> THEN 0 ELSE Min({Cardinality(Matching(p)), Shown})
  /\ \A n \in 1..Len(m) :
       /\ m[n] \in Matching(p)
       /\ \A i \in Matching(p) : i < m[n] => i \in ToSet(m)
       /\ n > 1 => Len(Words[m[n - 1]]) <= Len(Words[m[n]])

LEMMA FunctionIsSeq ==
  ASSUME NEW n \in Nat, NEW S, NEW c \in [1..n -> S]
  PROVE  c \in Seq(S) /\ Len(c) = n
<1>1. c \in Seq(S)
  BY SeqDef
<1>2. DOMAIN c = 1..Len(c) /\ Len(c) \in Nat /\ DOMAIN c = 1..n
  BY <1>1, LenProperties
<1>3. Len(c) = n
  BY <1>2
<1> QED BY <1>1, <1>3

LEMMA PrefixMatchFits ==
  ASSUME NEW p \in Strings
  PROVE  PrefixMatch(p) \in Seq(Index) /\ Fits(p, PrefixMatch(p), FindPrefix(p) % TotalModulus)
<1>1. PICK b : Below(p, b)
  BY Split
<1>2. b \in Nat /\ b <= Len(Words) /\ Len(Words) \in Nat /\ Index = 1..Len(Words)
  BY <1>1, List DEF Below
<1>3. PICK f \in Nat : f = FindPrefix(p) /\ f <= Len(Words) - b /\ Matching(p) = b + 1..b + f
                       /\ f = Cardinality(Matching(p))
  <2>1. FindPrefix(p) \in 0..Len(Words) - b /\ Matching(p) = b + 1..b + FindPrefix(p)
        /\ FindPrefix(p) = Cardinality(Matching(p))
    BY <1>1, MatchingIs, MatchingCount
  <2>2. FindPrefix(p) \in Nat /\ FindPrefix(p) <= Len(Words) - b
    BY <1>2, <2>1
  <2> QED BY <2>1, <2>2
<1>4. PICK n \in 0..Shown : n = IF p = <<>> THEN 0 ELSE Min({f, Shown})
  BY <1>3, MinPair DEF Shown
<1>5. n <= f /\ (p # <<>> => n = IF f <= Shown THEN f ELSE Shown) /\ n \in Nat
  BY <1>3, <1>4, MinPair DEF Shown
<1>6. PrefixMatch(p) = CHOOSE c \in [1..n -> b + 1..b + n] : Ordered(c)
  <2>1. LowerBound(p) = b + 1 /\ b + 1 + n - 1 = b + n /\ (b + 1) + n - 1 = b + n
    BY <1>1, <1>2, <1>5, LowerBoundIs
  <2>2. n = IF p = <<>> THEN 0 ELSE Min({FindPrefix(p), Shown})
    BY <1>3, <1>4
  <2> QED BY <2>1, <2>2 DEF PrefixMatch, Ordered
<1>7. PICK c : c = PrefixMatch(p) /\ c \in [1..n -> b + 1..b + n] /\ Ordered(c)
  <2>1. \E c \in [1..n -> b + 1..b + n] : Ordered(c)
    BY <1>2, <1>3, <1>5, CanBeOrdered
  <2> QED BY <1>6, <2>1
<1>8. c \in Seq(b + 1..b + n) /\ Len(c) = n /\ DOMAIN c = 1..n
  BY <1>5, <1>7, FunctionIsSeq
<1>9. c \in Seq(Index)
  BY <1>2, <1>3, <1>5, <1>8, SeqMonotonic
<1>10. ASSUME NEW k \in 1..n
       PROVE  /\ c[k] \in b + 1..b + f
              /\ \A i \in b + 1..b + f : i < c[k] => i \in ToSet(c)
              /\ k > 1 => Len(Words[c[k - 1]]) <= Len(Words[c[k]])
  <2>1. c[k] \in b + 1..b + n /\ c[k] \in b + 1..b + f
    BY <1>2, <1>5, <1>7
  <2>2. ASSUME NEW i \in b + 1..b + f, i < c[k] PROVE i \in ToSet(c)
    <3>1. i \in b + 1..b + n
      BY <1>2, <1>5, <2>1, <2>2
    <3>2. b \in Nat /\ n \in 0..Shown /\ b + n <= Len(Words)
      BY <1>2, <1>3, <1>5
    <3>3. Choice(c, b, n)
      BY <1>7 DEF Choice
    <3>4. \E m \in 1..n : c[m] = i
      BY <3>1, <3>2, <3>3, OrderedTakesAll
    <3> QED BY <1>8, <3>4 DEF ToSet
  <2>3. ASSUME k > 1 PROVE Len(Words[c[k - 1]]) <= Len(Words[c[k]])
    <3>1. k - 1 \in 1..n /\ k - 1 < k
      BY <1>5, <2>3
    <3>2. Ahead(c[k - 1], c[k])
      BY <1>7, <1>8, <3>1 DEF Ordered
    <3>3. c[k - 1] \in Index /\ c[k] \in Index
      BY <1>2, <1>3, <1>5, <1>7, <3>1
    <3> QED BY <3>2, <3>3, List DEF Ahead
  <2> QED BY <2>1, <2>2, <2>3
<1> QED BY <1>3, <1>4, <1>7, <1>8, <1>9, <1>10 DEF Fits

(* A byte holds the number of words that start with a letter.                 *)
LEMMA FirstLetterOnly ==
  ASSUME NEW p \in Strings, p # <<>>
  PROVE  /\ 1 \in 1..Len(p) /\ p[1] \in Letters
         /\ \A i \in Matching(p) : Words[i][1] = p[1]
         /\ Len(p) = 1 => Matching(p) = {i \in Index : Words[i][1] = p[1]}
<1>1. Len(p) \in Nat /\ Len(p) > 0
  BY EmptySeq, Chars DEF Strings
<1>2. 1 \in 1..Len(p)
  BY <1>1
<1>3. p[1] \in Letters
  BY <1>2, ElementOfSeq DEF Strings
<1>4. ASSUME NEW i \in Index
      PROVE  /\ i \in Matching(p) => Words[i][1] = p[1]
             /\ Len(p) = 1 /\ Words[i][1] = p[1] => i \in Matching(p)
  <2>1. Words[i] \in Strings /\ Len(Words[i]) \in Nat /\ Len(Words[i]) > 0
    BY List
  <2>2. IsPrefix(p, Words[i]) <=> Len(p) <= Len(Words[i]) /\ Agree(p, Words[i], Len(p))
    BY <2>1, PrefixMeans
  <2>3. Agree(p, Words[i], Len(p)) => Words[i][1] = p[1]
    BY <1>2 DEF Agree
  <2>4. Len(p) = 1 /\ Words[i][1] = p[1] => Agree(p, Words[i], Len(p))
    BY DEF Agree
  <2>5. i \in Matching(p) <=> IsPrefix(p, Words[i])
    BY DEF Matching
  <2>6. Len(p) = 1 => Len(p) <= Len(Words[i])
    BY <2>1
  <2> QED BY <2>2, <2>3, <2>4, <2>5, <2>6, Zenon
<1> QED BY <1>2, <1>3, <1>4 DEF Matching

LEMMA CountFitsByte ==
  ASSUME NEW p \in Strings, p # <<>>
  PROVE  Cardinality(Matching(p)) \in Nat /\ Cardinality(Matching(p)) < TotalModulus
<1> DEFINE Same == {i \in Index : Words[i][1] = p[1]}
<1>1. Matching(p) \subseteq Same /\ p[1] \in Letters
  BY FirstLetterOnly DEF Matching
<1>2. Cardinality(Same) < TotalModulus
  BY <1>1, LetterFitsByte
<1>3. IsFiniteSet(Same) /\ IsFiniteSet(Matching(p))
  <2>1. IsFiniteSet(Index)
    BY List, FS_Interval
  <2>2. Same \subseteq Index /\ Matching(p) \subseteq Index
    BY DEF Matching
  <2> QED BY <2>1, <2>2, FS_Subset
<1>4. Cardinality(Matching(p)) <= Cardinality(Same) /\ Cardinality(Same) \in Nat /\ Cardinality(Matching(p)) \in Nat
  <2> HIDE DEF Same
  <2> QED BY <1>1, <1>3, FS_Subset, FS_CardinalityType
<1> QED BY <1>2, <1>4 DEF TotalModulus

(* 'a' or 'b' alone never leaves one word.                                    *)
LEMMA OneLetterIsShared ==
  ASSUME NEW p \in Strings, Len(p) = 1, p[1] \in {1, 2}
  PROVE  Cardinality(Matching(p)) # 1
<1>1. p # <<>>
  BY EmptySeq
<1>2. Matching(p) = {i \in Index : Words[i][1] = p[1]}
  BY <1>1, FirstLetterOnly
<1> QED BY <1>2, FirstLettersShared

(* What the table of all searches says of one.                                *)
LEMMA OfferFits ==
  ASSUME NEW p \in Strings, Len(p) <= PrefixMax + 1
  PROVE  /\ Offer[p].matches \in Seq(Index) /\ Offer[p].total \in Nat
         /\ Fits(p, Offer[p].matches, Offer[p].total)
         /\ p # <<>> => /\ Offer[p].total = Cardinality(Matching(p))
                        /\ Len(Offer[p].matches) = Min({Offer[p].total, Shown})
<1>1. p \in Searches
  <2>1. Len(p) \in 0..PrefixMax + 1 /\ p \in [1..Len(p) -> Letters]
    BY LenProperties, ConstantTypes DEF Strings
  <2> QED BY <2>1 DEF Searches
<1>2. Offer[p].matches = PrefixMatch(p) /\ Offer[p].total = FindPrefix(p) % TotalModulus
  BY <1>1 DEF Offer
<1>3. PrefixMatch(p) \in Seq(Index) /\ Fits(p, PrefixMatch(p), FindPrefix(p) % TotalModulus)
  BY PrefixMatchFits
<1>4. FindPrefix(p) \in Nat /\ FindPrefix(p) = Cardinality(Matching(p))
  <2>1. PICK b : Below(p, b)
    BY Split
  <2>2. FindPrefix(p) \in 0..Len(Words) - b /\ FindPrefix(p) = Cardinality(Matching(p)) /\ b \in Int
    BY <2>1, MatchingIs, MatchingCount DEF Below
  <2> QED BY <2>2, List
<1>5. FindPrefix(p) % TotalModulus \in Nat
  BY <1>4 DEF TotalModulus
<1>6. ASSUME p # <<>>
      PROVE  /\ FindPrefix(p) % TotalModulus = Cardinality(Matching(p))
             /\ Len(PrefixMatch(p)) = Min({FindPrefix(p) % TotalModulus, Shown})
  <2>1. FindPrefix(p) % TotalModulus = Cardinality(Matching(p))
    BY <1>4, <1>6, CountFitsByte DEF TotalModulus
  <2> QED BY <1>3, <1>6, <2>1 DEF Fits
<1> QED BY <1>2, <1>3, <1>5, <1>6

-----------------------------------------------------------------------------
(* The keys: each of them leaves an entry whose candidates fit it.            *)

Keyboards ==
  [prefix : Strings, letter : 1..Backspace, matches : Seq(Index), total : Nat, select : BOOLEAN,
   highlight : Nat, hold : {"none", "short", "long"}, long : BOOLEAN, short : BOOLEAN,
   confirmLast : BOOLEAN]
Shape(k) == k \in Keyboards /\ Len(k.prefix) <= PrefixMax

Offered(k) == k.matches = Offer[Search(k)].matches /\ k.total = Offer[Search(k)].total
Chosen(k) == k.select => k.letter # Backspace /\ k.total \in 2..Shown /\ k.highlight < k.total
Good(k) == Shape(k) /\ Offered(k) /\ Chosen(k)

(* On the first letters, where CONFIRM takes no word.                         *)
Fresh(k) == k.prefix = <<>> /\ k.letter = 1 /\ ~k.select
Starting(k) == k.prefix = <<>> /\ k.letter \in {1, 2} /\ ~k.select

LEMMA Limits == /\ PrefixMax \in Nat /\ LastLetter \in Nat /\ LastLetter > 0 /\ Backspace = LastLetter + 1
                /\ Letters = 1..LastLetter
BY ConstantTypes DEF Backspace, Letters

LEMMA SearchIs ==
  ASSUME NEW k, Shape(k)
  PROVE  /\ Search(k) \in Strings /\ Len(Search(k)) <= PrefixMax + 1
         /\ k.letter # Backspace => Search(k) # <<>>
         /\ k.prefix = <<>> /\ k.letter # Backspace => Len(Search(k)) = 1 /\ Search(k)[1] = k.letter
<1>1. k.prefix \in Seq(Letters) /\ Len(k.prefix) \in Nat /\ Len(k.prefix) <= PrefixMax
  BY Chars DEF Shape, Keyboards, Strings
<1>2. CASE k.letter = Backspace
  BY <1>1, <1>2, Limits DEF Search, Strings
<1>3. CASE k.letter # Backspace
  <2>1. k.letter \in Letters
    BY <1>3, Limits DEF Shape, Keyboards
  <2>2. PICK p, c : p = k.prefix /\ c = k.letter /\ Search(k) = Append(p, c)
    BY <1>3 DEF Search
  <2>3. /\ Append(p, c) \in Seq(Letters) /\ Append(p, c) # <<>> /\ Len(Append(p, c)) = Len(p) + 1
        /\ Append(p, c)[Len(p) + 1] = c
    BY <1>1, <2>1, <2>2, AppendProperties
  <2>4. p = <<>> => Len(p) = 0
    BY EmptySeq
  <2> QED BY <1>1, <2>2, <2>3, <2>4, Limits DEF Strings
<1> QED BY <1>2, <1>3

LEMMA OfferedFits ==
  ASSUME NEW k, Shape(k), Offered(k)
  PROVE  /\ Fits(Search(k), k.matches, k.total)
         /\ k.letter # Backspace => k.total = Cardinality(Matching(Search(k))) /\ Len(k.matches) = Min({k.total, Shown})
<1>1. PICK p \in Strings : p = Search(k) /\ Len(p) <= PrefixMax + 1 /\ (k.letter # Backspace => p # <<>>)
  BY SearchIs
<1> QED BY <1>1, OfferFits DEF Offered

LEMMA UpdateIs ==
  ASSUME NEW k, Shape(k), k.select = FALSE
  PROVE  /\ Good(UpdateMatches(k))
         /\ \E m, t : UpdateMatches(k) = [k EXCEPT !.matches = m, !.total = t]
<1>1. PICK p \in Strings : p = Search(k) /\ Len(p) <= PrefixMax + 1
  BY SearchIs
<1>2. PICK m \in Seq(Index), t \in Nat : m = Offer[p].matches /\ t = Offer[p].total
  BY <1>1, OfferFits
<1>3. PICK u : u = UpdateMatches(k) /\ u = [k EXCEPT !.matches = m, !.total = t]
  BY <1>1, <1>2 DEF UpdateMatches
<1>4. Shape(u) /\ u.prefix = k.prefix /\ u.letter = k.letter /\ u.select = k.select /\ u.matches = m /\ u.total = t
  BY <1>3 DEF Shape, Keyboards
<1>5. Search(u) = p
  BY <1>1, <1>4 DEF Search
<1>6. Good(u)
  <2>1. Offered(u) /\ u.select = FALSE
    BY <1>2, <1>4, <1>5 DEF Offered
  <2> QED BY <1>4, <2>1 DEF Good, Chosen
<1> QED BY <1>3, <1>6

LEMMA EmptyEntryIs ==
  ASSUME NEW k, Shape(k)
  PROVE  /\ Good(EmptyEntry(k)) /\ Fresh(EmptyEntry(k))
<1>1. PICK e : e = [k EXCEPT !.prefix = <<>>, !.letter = 1, !.select = FALSE, !.highlight = 0,
                          !.short = FALSE, !.confirmLast = FALSE]
  OBVIOUS
<1>2. Shape(e) /\ Fresh(e) /\ e.select = FALSE
  <2>1. <<>> \in Strings /\ Len(<<>>) <= PrefixMax /\ 1 \in 1..Backspace
    BY EmptySeq, Limits DEF Strings
  <2>2. e \in Keyboards /\ e.prefix = <<>> /\ e.letter = 1 /\ e.select = FALSE
    BY <1>1, <2>1 DEF Shape, Keyboards
  <2> QED BY <2>1, <2>2 DEF Shape, Fresh
<1>3. EmptyEntry(k) = UpdateMatches(e)
  BY <1>1 DEF EmptyEntry
<1>4. PICK m, t : UpdateMatches(e) = [e EXCEPT !.matches = m, !.total = t]
  BY <1>2, UpdateIs
<1>5. Fresh(UpdateMatches(e))
  BY <1>2, <1>4 DEF Fresh, Shape, Keyboards
<1> QED BY <1>2, <1>3, <1>5, UpdateIs

(* The entry is the same; how the keys are held is not.                       *)
Same(j, k) ==
  /\ j \in Keyboards
  /\ j.prefix = k.prefix /\ j.letter = k.letter /\ j.matches = k.matches /\ j.total = k.total
  /\ j.select = k.select /\ j.highlight = k.highlight

LEMMA SameEntry ==
  ASSUME NEW k, Good(k), NEW j, Same(j, k)
  PROVE  Good(j) /\ j.select = k.select /\ Fresh(j) = Fresh(k) /\ Starting(j) = Starting(k)
<1>1. Search(j) = Search(k)
  BY DEF Search, Same
<1>2. Shape(j) /\ Offered(j)
  BY <1>1 DEF Good, Shape, Offered, Same
<1> QED BY <1>2 DEF Good, Chosen, Fresh, Starting, Same

LEMMA NotHeldIs ==
  ASSUME NEW k, k \in Keyboards
  PROVE  Same(NotHeld(k), k) /\ NotHeld(k).confirmLast = k.confirmLast
BY DEF NotHeld, Keyboards, Same

LEMMA ConfirmIs ==
  ASSUME NEW k, k \in Keyboards, NEW b \in BOOLEAN, NEW j, j = [k EXCEPT !.confirmLast = b]
  PROVE  Same(j, k) /\ j.confirmLast = b
BY DEF Keyboards, Same

LEMMA HoldIs ==
  ASSUME NEW k, k \in Keyboards, NEW b \in BOOLEAN, NEW h \in {"none", "short", "long"},
         NEW j \in {[k EXCEPT !.hold = h], [k EXCEPT !.short = b], [k EXCEPT !.long = b]}
  PROVE  Same(j, k) /\ j.confirmLast = k.confirmLast
BY DEF Keyboards, Same

LEMMA DropLetterIs ==
  ASSUME NEW k, Shape(k)
  PROVE  Shape(DropLetter(k)) /\ DropLetter(k).select = k.select /\ DropLetter(k).confirmLast = k.confirmLast
<1>1. PICK p : p = k.prefix
  OBVIOUS
<1>2. PICK q : q = IF p = <<>> THEN p ELSE Front(p)
  OBVIOUS
<1>3. p \in Strings /\ Len(p) \in Nat /\ Len(p) <= PrefixMax
  BY <1>1, Chars DEF Shape, Keyboards
<1>4. q \in Strings /\ Len(q) <= PrefixMax
  <2>1. CASE p = <<>>
    BY <1>2, <1>3, <2>1
  <2>2. CASE p # <<>>
    <3>1. Len(p) \in Nat \ {0}
      BY <1>3, <2>2, EmptySeq DEF Strings
    <3>2. q = SubSeq(p, 1, Len(p) - 1)
      BY <1>2, <2>2 DEF Front
    <3>3. \A i \in 1..Len(p) - 1 : p[i] \in Letters
      <4>1. \A i \in 1..Len(p) - 1 : i \in 1..Len(p)
        BY <3>1
      <4> QED BY <1>3, <4>1, ElementOfSeq DEF Strings
    <3>4. SubSeq(p, 1, Len(p) - 1) \in Seq(Letters) /\ Len(SubSeq(p, 1, Len(p) - 1)) = Len(p) - 1
      <4>1. 1 \in Int /\ Len(p) - 1 \in Int
            /\ (IF 1 <= Len(p) - 1 THEN Len(p) - 1 - 1 + 1 ELSE 0) = Len(p) - 1
        BY <3>1
      <4> QED BY <1>3, <3>3, <4>1, SubSeqProperties DEF Strings
    <3> QED BY <1>3, <3>1, <3>2, <3>4, Limits DEF Strings
  <2> QED BY <2>1, <2>2
<1>5. DropLetter(k) = [k EXCEPT !.prefix = q, !.letter = 1]
  BY <1>1, <1>2 DEF DropLetter
<1>6. 1 \in 1..Backspace
  BY Limits
<1> QED BY <1>4, <1>5, <1>6 DEF Shape, Keyboards

LEMMA NextLetterIs ==
  ASSUME NEW k, Good(k), k.select = FALSE
  PROVE  /\ Good(NextLetter(k)) /\ NextLetter(k).confirmLast = k.confirmLast
         /\ Fresh(k) => Starting(NextLetter(k))
<1>1. PICK e : e = IF k.letter = Backspace THEN DropLetter(k) ELSE [k EXCEPT !.letter = @ + 1]
  OBVIOUS
<1>2. /\ Shape(e) /\ e.select = FALSE /\ e.confirmLast = k.confirmLast
      /\ Fresh(k) => Starting(e)
  <2>1. CASE k.letter = Backspace
    BY <1>1, <2>1, DropLetterIs, Limits DEF Good, Fresh
  <2>2. CASE k.letter # Backspace
    <3>1. PICK c \in Int : c = k.letter + 1 /\ c \in 1..Backspace
      BY <2>2, Limits DEF Good, Shape, Keyboards
    <3>2. e = [k EXCEPT !.letter = c]
      BY <1>1, <2>2, <3>1
    <3>3. Fresh(k) => c = 2
      BY <3>1 DEF Fresh
    <3> QED BY <3>1, <3>2, <3>3 DEF Good, Shape, Keyboards, Fresh, Starting
  <2> QED BY <2>1, <2>2
<1>3. NextLetter(k) = UpdateMatches(e)
  BY <1>1 DEF NextLetter
<1>4. PICK m, t : UpdateMatches(e) = [e EXCEPT !.matches = m, !.total = t]
  BY <1>2, UpdateIs
<1>5. UpdateMatches(e).confirmLast = e.confirmLast /\ (Starting(e) => Starting(UpdateMatches(e)))
  BY <1>2, <1>4 DEF Starting, Shape, Keyboards
<1> QED BY <1>2, <1>3, <1>5, UpdateIs

(* While a candidate is highlighted all are shown.                            *)
LEMMA AllShown ==
  ASSUME NEW k, Good(k), k.select
  PROVE  Len(k.matches) = k.total /\ k.total \in 2..Shown /\ k.highlight \in 0..k.total - 1
<1>1. k.letter # Backspace /\ k.total \in 2..Shown /\ k.highlight < k.total /\ k.highlight \in Nat
  BY DEF Good, Chosen, Shape, Keyboards
<1>2. Len(k.matches) = Min({k.total, Shown})
  BY <1>1, OfferedFits DEF Good
<1>3. PICK t \in Nat : t = k.total
  BY <1>1 DEF Shown
<1>4. Min({t, Shown}) = t
  BY <1>1, <1>3, MinPair DEF Shown
<1> QED BY <1>1, <1>2, <1>3, <1>4 DEF Shown

LEMMA NextCandidateIs ==
  ASSUME NEW k, Good(k), k.select
  PROVE  Good(NextCandidate(k)) /\ NextCandidate(k).confirmLast = k.confirmLast
<1>0. k \in Keyboards /\ Shape(k) /\ Offered(k) /\ Chosen(k)
  BY DEF Good, Shape
<1>1. PICK n \in Nat, h \in Nat : n = Len(k.matches) /\ n = k.total /\ h = k.highlight
  BY <1>0, AllShown DEF Shown, Keyboards
<1>2. CASE h + 1 >= n
  <2>1. PICK j : j = [k EXCEPT !.select = FALSE, !.highlight = 0]
    OBVIOUS
  <2>2. NextCandidate(k) = j
    BY <1>1, <1>2, <2>1 DEF NextCandidate
  <2>3. /\ j \in Keyboards /\ j.prefix = k.prefix /\ j.letter = k.letter /\ j.matches = k.matches
        /\ j.total = k.total /\ j.select = FALSE /\ j.confirmLast = k.confirmLast
    BY <1>0, <2>1 DEF Keyboards
  <2>4. Search(j) = Search(k)
    BY <2>3 DEF Search
  <2>5. Shape(j) /\ Offered(j) /\ Chosen(j)
    BY <1>0, <2>3, <2>4 DEF Shape, Offered, Chosen
  <2> QED BY <2>2, <2>3, <2>5 DEF Good
<1>3. CASE h + 1 < n
  <2>1. PICK i \in Nat : i = h + 1
    OBVIOUS
  <2>2. PICK j : j = [k EXCEPT !.highlight = i]
    OBVIOUS
  <2>3. NextCandidate(k) = j
    BY <1>1, <1>3, <2>1, <2>2 DEF NextCandidate
  <2>4. /\ j \in Keyboards /\ j.prefix = k.prefix /\ j.letter = k.letter /\ j.matches = k.matches
        /\ j.total = k.total /\ j.select = k.select /\ j.highlight = i /\ j.confirmLast = k.confirmLast
    BY <1>0, <2>2 DEF Keyboards
  <2>5. Search(j) = Search(k)
    BY <2>4 DEF Search
  <2>6. Shape(j) /\ Offered(j) /\ Chosen(j)
    BY <1>0, <1>1, <1>3, <2>1, <2>4, <2>5 DEF Shape, Offered, Chosen
  <2> QED BY <2>3, <2>4, <2>6 DEF Good
<1> QED BY <1>2, <1>3

LEMMA LongCancelIs ==
  ASSUME NEW k, Good(k)
  PROVE  Good(LongCancel(k)) /\ Fresh(LongCancel(k))
<1>1. PICK e : e = EmptyEntry(k) /\ Good(e) /\ Fresh(e)
  BY EmptyEntryIs DEF Good
<1>2. e \in Keyboards /\ LongCancel(k) = [e EXCEPT !.long = TRUE]
  BY <1>1 DEF Good, Shape, LongCancel
<1>3. Same(LongCancel(k), e)
  BY <1>2, HoldIs
<1> QED BY <1>1, <1>3, SameEntry

LEMMA PressCancelIs ==
  ASSUME NEW k, Good(k), NEW t \in BOOLEAN
  PROVE  LET r == PressCancel(k, t)
         IN /\ Good(r)
            /\ k.confirmLast => r.confirmLast \/ Fresh(r)
            /\ Fresh(k) => Starting(r)
<1>1. PICK h : h = IF k.hold = "none" THEN [NotHeld(k) EXCEPT !.hold = "short"]
                   ELSE [k EXCEPT !.hold = IF t THEN "long" ELSE @]
  OBVIOUS
<1>2. k \in Keyboards
  BY DEF Good, Shape
<1>3. Good(h) /\ h.confirmLast = k.confirmLast /\ Fresh(h) = Fresh(k)
  <2>1. CASE k.hold = "none"
    <3>1. PICK n : n = NotHeld(k) /\ Same(n, k) /\ n.confirmLast = k.confirmLast
      BY <1>2, NotHeldIs
    <3>2. n \in Keyboards /\ Good(n) /\ Fresh(n) = Fresh(k)
      BY <3>1, SameEntry DEF Same
    <3>3. h = [n EXCEPT !.hold = "short"]
      BY <1>1, <2>1, <3>1
    <3>4. Same(h, n) /\ h.confirmLast = n.confirmLast
      BY <3>2, <3>3, HoldIs
    <3> QED BY <3>1, <3>2, <3>4, SameEntry
  <2>2. CASE k.hold # "none"
    <3>1. PICK v \in {"none", "short", "long"} : v = IF t THEN "long" ELSE k.hold
      BY <1>2 DEF Keyboards
    <3>2. h = [k EXCEPT !.hold = v]
      BY <1>1, <2>2, <3>1
    <3>3. Same(h, k) /\ h.confirmLast = k.confirmLast
      BY <1>2, <3>2, HoldIs
    <3> QED BY <3>3, SameEntry
  <2> QED BY <2>1, <2>2
<1>4. h \in Keyboards
  BY <1>3 DEF Good, Shape
<1>5. PICK s : s = [h EXCEPT !.short = TRUE]
  OBVIOUS
<1>6. Good(s) /\ s.select = h.select /\ s.confirmLast = k.confirmLast /\ Fresh(s) = Fresh(k)
  <2>1. Same(s, h) /\ s.confirmLast = h.confirmLast
    BY <1>4, <1>5, HoldIs
  <2> QED BY <1>3, <2>1, SameEntry
<1>7. PressCancel(k, t) = CASE h.long -> h
                            [] ~h.long /\ h.hold = "long" -> LongCancel(h)
                            [] ~h.long /\ h.hold # "long" /\ h.short -> h
                            [] OTHER -> IF h.select THEN NextCandidate(s) ELSE NextLetter(s)
  BY <1>1, <1>5 DEF PressCancel
<1>8. PressCancel(k, t) \in {h, LongCancel(h)} \/ PressCancel(k, t) = IF h.select THEN NextCandidate(s) ELSE NextLetter(s)
  BY <1>7
<1>9. CASE PressCancel(k, t) = h
  BY <1>3, <1>9 DEF Fresh, Starting
<1>10. CASE PressCancel(k, t) = LongCancel(h)
  BY <1>3, <1>10, LongCancelIs DEF Fresh, Starting
<1>11. CASE h.select /\ PressCancel(k, t) = NextCandidate(s)
  BY <1>3, <1>6, <1>11, NextCandidateIs DEF Fresh
<1>12. CASE ~h.select /\ PressCancel(k, t) = NextLetter(s)
  <2>1. s.select = FALSE
    BY <1>4, <1>6, <1>12 DEF Keyboards
  <2> QED BY <1>3, <1>6, <1>12, <2>1, NextLetterIs
<1> QED BY <1>8, <1>9, <1>10, <1>11, <1>12

(* The word taken is one of the list; the first letters alone take none.      *)
LEMMA TakenIs ==
  ASSUME NEW k, Good(k)
  PROVE  /\ Taken(k) # None => Taken(k) \in Index
         /\ k.select => Taken(k) # None
         /\ Starting(k) => Taken(k) = None
<1>0. k \in Keyboards /\ Shape(k) /\ Offered(k) /\ k.total \in Nat /\ k.highlight \in Nat
  BY DEF Good, Shape, Keyboards
<1>1. ASSUME NEW n \in 1..Len(k.matches) PROVE k.matches[n] \in Index /\ k.matches[n] # None
  <2>1. k.matches \in Seq(Index)
    BY <1>0 DEF Keyboards
  <2>2. k.matches[n] \in Index
    BY <2>1, ElementOfSeq
  <2> QED BY <2>2, List DEF None
<1>2. CASE k.select
  <2>1. PICK n : n = k.highlight + 1 /\ n \in 1..Len(k.matches)
    BY <1>0, <1>2, AllShown DEF Shown
  <2>2. Taken(k) = k.matches[n]
    BY <1>2, <2>1 DEF Taken
  <2>3. ~Starting(k)
    BY <1>2 DEF Starting
  <2> QED BY <1>1, <2>1, <2>2, <2>3
<1>3. CASE ~k.select /\ k.letter # Backspace /\ k.total = 1
  <2>1. Len(k.matches) = 1
    <3>1. Min({1, Shown}) = 1
      BY MinPair DEF Shown
    <3> QED BY <1>0, <1>3, <3>1, OfferedFits
  <2>2. Taken(k) = k.matches[1]
    BY <1>3 DEF Taken
  <2>3. ASSUME Starting(k) PROVE FALSE
    <3>1. PICK p \in Strings : p = Search(k) /\ Len(p) = 1 /\ p[1] = k.letter
      BY <1>0, <1>3, <2>3, SearchIs DEF Starting
    <3>2. p[1] \in {1, 2} /\ Cardinality(Matching(p)) = 1
      BY <1>0, <1>3, <2>3, <3>1, OfferedFits DEF Starting
    <3> QED BY <3>1, <3>2, OneLetterIsShared
  <2>4. 1 \in 1..Len(k.matches)
    BY <2>1
  <2> QED BY <1>1, <1>3, <2>2, <2>3, <2>4
<1>4. CASE ~k.select /\ ~(k.letter # Backspace /\ k.total = 1)
  BY <1>4 DEF Taken
<1> QED BY <1>2, <1>3, <1>4

LEMMA PressConfirmIs ==
  ASSUME NEW k, Good(k), ~k.select
  PROVE  Good(PressConfirm(k)) /\ PressConfirm(k).confirmLast = k.confirmLast
<1>0. k \in Keyboards /\ Shape(k) /\ Offered(k) /\ k.select = FALSE /\ k.total \in Nat
  BY DEF Good, Shape, Keyboards
<1>1. ASSUME NEW e, Shape(e), e.select = FALSE, e.confirmLast = k.confirmLast
      PROVE  Good(UpdateMatches(e)) /\ UpdateMatches(e).confirmLast = k.confirmLast
  <2>1. PICK m, t : UpdateMatches(e) = [e EXCEPT !.matches = m, !.total = t]
    BY <1>1, UpdateIs
  <2>2. UpdateMatches(e).confirmLast = e.confirmLast
    BY <1>1, <2>1 DEF Shape, Keyboards
  <2> QED BY <1>1, <2>2, UpdateIs
<1>2. CASE k.letter = Backspace
  <2>1. PressConfirm(k) = IF k.prefix = <<>> THEN k ELSE UpdateMatches(DropLetter(k))
    BY <1>2 DEF PressConfirm
  <2> QED BY <1>0, <1>1, <2>1, DropLetterIs
<1>3. CASE k.letter # Backspace /\ k.total \in 2..Shown
  <2>1. PICK j : j = [k EXCEPT !.select = TRUE, !.highlight = 0]
    OBVIOUS
  <2>2. PressConfirm(k) = j
    <3>1. ~(k.total > Shown)
      BY <1>0, <1>3 DEF Shown
    <3> QED BY <1>3, <2>1, <3>1 DEF PressConfirm
  <2>3. /\ j \in Keyboards /\ j.prefix = k.prefix /\ j.letter = k.letter /\ j.matches = k.matches
        /\ j.total = k.total /\ j.highlight = 0 /\ j.confirmLast = k.confirmLast
    BY <1>0, <2>1 DEF Keyboards
  <2>4. Search(j) = Search(k)
    BY <2>3 DEF Search
  <2>5. Shape(j) /\ Offered(j) /\ Chosen(j)
    BY <1>0, <1>3, <2>3, <2>4 DEF Shape, Offered, Chosen, Shown
  <2> QED BY <2>2, <2>3, <2>5 DEF Good
<1>4. CASE k.letter # Backspace /\ k.total > Shown /\ Len(k.prefix) < PrefixMax
  <2>1. PICK p, c : p = Append(k.prefix, k.letter) /\ c = k.prefix
    OBVIOUS
  <2>2. k.letter \in Letters /\ k.prefix \in Seq(Letters) /\ Len(k.prefix) \in Nat
    BY <1>0, <1>4, Limits, Chars DEF Keyboards, Strings
  <2>3. p \in Strings /\ Len(p) <= PrefixMax
    BY <1>4, <2>1, <2>2, AppendProperties, Limits DEF Strings
  <2>4. PICK e : e = [k EXCEPT !.prefix = p, !.letter = 1]
    OBVIOUS
  <2>5. Shape(e) /\ e.select = FALSE /\ e.confirmLast = k.confirmLast
    <3>1. 1 \in 1..Backspace
      BY Limits
    <3> QED BY <1>0, <2>3, <2>4, <3>1 DEF Shape, Keyboards
  <2>6. k.total \notin 2..Shown
    BY <1>0, <1>4 DEF Shown
  <2>7. PressConfirm(k) = UpdateMatches(e)
    BY <1>4, <2>1, <2>4, <2>6 DEF PressConfirm
  <2> QED BY <1>1, <2>5, <2>7
<1>5. CASE ~(k.letter = Backspace) /\ ~(k.letter # Backspace /\ k.total \in 2..Shown)
           /\ ~(k.letter # Backspace /\ k.total > Shown /\ Len(k.prefix) < PrefixMax)
  BY <1>5 DEF PressConfirm
<1> QED BY <1>2, <1>3, <1>4, <1>5

-----------------------------------------------------------------------------
(* The invariant.                                                             *)

TypeInv ==
  /\ screen \in Elsewhere \cup {"BIP39_PREDICTIVE_INPUT"}
  /\ Shape(kb) /\ isVerify \in BOOLEAN /\ step \in Nat
  /\ restore \in Seq(Index) /\ asked \in Seq(Nat) /\ keys \in BOOLEAN \X BOOLEAN

(* What is shown while the keyboard is open fits what has been typed.         *)
EntryInv == OnKeyboard => Good(kb)
(* There is room for one word more.                                           *)
RoomInv == OnKeyboard => IF isVerify THEN step < Len(asked) ELSE Len(restore) < Phrase
(* While CONFIRM is down it has been seen down, or the entry is a new one.    *)
PressInv == OnKeyboard /\ keys[1] => kb.confirmLast \/ Fresh(kb)

KeyboardInv == TypeInv /\ EntryInv /\ RoomInv /\ PressInv

WordGiven == Len(restore') > Len(restore) \/ step' > step

LEMMA KeyboardInit == Init => KeyboardInv
<1> SUFFICES ASSUME Init PROVE KeyboardInv
  OBVIOUS
<1>1. kb = BlankKeys /\ screen = "BOOT_MENU" /\ isVerify = FALSE /\ restore = <<>> /\ asked = <<>> /\ step = 0
      /\ keys = <<FALSE, FALSE>>
  BY DEF Init
<1>2. Shape(BlankKeys)
  <2>1. <<>> \in Strings /\ <<>> \in Seq(Index) /\ Len(<<>>) <= PrefixMax /\ 1 \in 1..Backspace
    BY EmptySeq, Limits DEF Strings
  <2> QED BY <2>1 DEF Shape, Keyboards, BlankKeys
<1>3. TypeInv
  BY <1>1, <1>2, EmptySeq DEF TypeInv, Elsewhere
<1>4. ~OnKeyboard
  BY <1>1 DEF OnKeyboard
<1> QED BY <1>3, <1>4 DEF KeyboardInv, EntryInv, RoomInv, PressInv

(* One pass before CONFIRM acts.                                              *)
Released(k, c, x) == [(IF x THEN k ELSE NotHeld(k)) EXCEPT !.confirmLast = @ /\ c]

LEMMA ReleasedIs ==
  ASSUME NEW k, Good(k), NEW c \in BOOLEAN, NEW x \in BOOLEAN,
         NEW r, r = Released(k, c, x)
  PROVE  Good(r) /\ r.confirmLast = (k.confirmLast /\ c) /\ Fresh(r) = Fresh(k)
<1>1. PICK n : n = IF x THEN k ELSE NotHeld(k)
  OBVIOUS
<1>2. k \in Keyboards
  BY DEF Good, Shape
<1>3. Good(n) /\ n.confirmLast = k.confirmLast /\ Fresh(n) = Fresh(k)
  BY <1>1, <1>2, NotHeldIs, SameEntry
<1>4. n \in Keyboards
  BY <1>3 DEF Good, Shape
<1>5. PICK b \in BOOLEAN : b = (n.confirmLast /\ c)
  OBVIOUS
<1>6. r = [n EXCEPT !.confirmLast = b]
  BY <1>1, <1>5 DEF Released
<1>7. Same(r, n) /\ r.confirmLast = b
  BY <1>4, <1>6, ConfirmIs
<1> QED BY <1>3, <1>5, <1>7, SameEntry

LEMMA FiredIs ==
  ASSUME NEW k, Good(k), NEW f, f = [NotHeld(k) EXCEPT !.confirmLast = TRUE]
  PROVE  Good(f) /\ f.confirmLast /\ Starting(f) = Starting(k)
<1>1. PICK n : n = NotHeld(k)
  OBVIOUS
<1>2. Same(n, k) /\ Good(n) /\ Starting(n) = Starting(k)
  BY <1>1, NotHeldIs, SameEntry DEF Good, Shape
<1>3. n \in Keyboards /\ f = [n EXCEPT !.confirmLast = TRUE]
  BY <1>1, <1>2 DEF Same
<1>4. Same(f, n) /\ f.confirmLast = TRUE
  BY <1>3, ConfirmIs
<1> QED BY <1>2, <1>4, SameEntry

(* The entry after a word, with CONFIRM seen down.                            *)
LEMMA NextWordIs ==
  ASSUME NEW k, Good(k), NEW e, e = [EmptyEntry(k) EXCEPT !.confirmLast = TRUE]
  PROVE  Good(e) /\ e.confirmLast
<1>1. PICK n : n = EmptyEntry(k)
  OBVIOUS
<1>2. Good(n) /\ n \in Keyboards
  BY <1>1, EmptyEntryIs DEF Good, Shape
<1>3. Same(e, n) /\ e.confirmLast = TRUE
  BY <1>1, <1>2, ConfirmIs
<1> QED BY <1>2, <1>3, SameEntry

LEMMA VerifiedKeeps ==
  ASSUME KeyboardInv, OnKeyboard, isVerify, NEW w, NEW k, Good(k), k.confirmLast,
         keys' \in BOOLEAN \X BOOLEAN, WordVerified(w, k)
  PROVE  KeyboardInv'
<1>1. UNCHANGED <<isVerify, restore, mnemonic, asked>> /\ step' \in Nat
  BY DEF WordVerified, KeyboardInv, TypeInv
<1>2. CASE kb' = k /\ screen' \in {"MNEMONIC_DISPLAY", "PASSPHRASE_PROMPT"}
  <2>1. TypeInv' /\ ~OnKeyboard'
    BY <1>1, <1>2 DEF KeyboardInv, TypeInv, Elsewhere, OnKeyboard, Good
  <2> QED BY <2>1 DEF KeyboardInv, EntryInv, RoomInv, PressInv
<1>3. CASE /\ kb' = [EmptyEntry(k) EXCEPT !.confirmLast = TRUE] /\ UNCHANGED screen
           /\ step' = step + 1 /\ ~(step + 1 >= Len(asked))
  <2>1. Good(kb') /\ kb'.confirmLast
    BY <1>3, NextWordIs
  <2>2. TypeInv'
    BY <1>1, <1>3, <2>1 DEF KeyboardInv, TypeInv, Good
  <2>3. step' < Len(asked')
    <3>1. Len(asked) \in Nat
      BY LenProperties DEF KeyboardInv, TypeInv
    <3> QED BY <1>1, <1>3, <3>1 DEF KeyboardInv, TypeInv
  <2> QED BY <1>1, <2>1, <2>2, <2>3 DEF KeyboardInv, EntryInv, RoomInv, PressInv
<1> QED BY <1>2, <1>3 DEF WordVerified

LEMMA RestoredKeeps ==
  ASSUME KeyboardInv, OnKeyboard, ~isVerify, NEW w \in Index, NEW k, Good(k), k.confirmLast,
         keys' \in BOOLEAN \X BOOLEAN, WordRestored(w, k)
  PROVE  KeyboardInv'
<1>1. UNCHANGED <<isVerify, mnemonic, asked, step>> /\ restore' = Append(restore, w)
  BY DEF WordRestored
<1>2. restore' \in Seq(Index) /\ Len(restore') = Len(restore) + 1 /\ Len(restore) \in Nat
  BY <1>1, AppendProperties, LenProperties DEF KeyboardInv, TypeInv
<1>3. CASE kb' = k /\ screen' \in {"RESTORE_PASSPHRASE", "RESTORE_ERROR"}
  <2>1. TypeInv' /\ ~OnKeyboard'
    BY <1>1, <1>2, <1>3 DEF KeyboardInv, TypeInv, Elsewhere, OnKeyboard, Good
  <2> QED BY <2>1 DEF KeyboardInv, EntryInv, RoomInv, PressInv
<1>4. CASE /\ kb' = [EmptyEntry(k) EXCEPT !.confirmLast = TRUE] /\ UNCHANGED screen
           /\ ~(Len(restore) + 1 >= Phrase)
  <2>1. Good(kb') /\ kb'.confirmLast
    BY <1>4, NextWordIs
  <2>2. TypeInv'
    BY <1>1, <1>2, <1>4, <2>1 DEF KeyboardInv, TypeInv, Good
  <2>3. Len(restore') < Phrase
    BY <1>2, <1>4, ConstantTypes
  <2> QED BY <1>1, <2>1, <2>2, <2>3 DEF KeyboardInv, EntryInv, RoomInv, PressInv
<1> QED BY <1>3, <1>4 DEF WordRestored

LEMMA FrameKeeps ==
  ASSUME KeyboardInv, NEW c \in BOOLEAN, NEW x \in BOOLEAN, NEW t \in BOOLEAN, Frame(c, x, t)
  PROVE  KeyboardInv' /\ (WordGiven => ~keys[1])
<1>0. OnKeyboard /\ Good(kb) /\ keys' = <<c, x>> /\ keys' \in BOOLEAN \X BOOLEAN
  BY DEF Frame, KeyboardInv, EntryInv
<1>1. PICK r : r = Released(kb, c, x)
  OBVIOUS
<1>2. PICK p : p = IF x THEN PressCancel(r, t) ELSE r
  OBVIOUS
<1>3. PICK f : f = [NotHeld(p) EXCEPT !.confirmLast = TRUE]
  OBVIOUS
<1>4. \/ ~ConfirmEdge(c, p) /\ kb' = [p EXCEPT !.confirmLast = c] /\ UNCHANGED <<screen, words>>
      \/ ConfirmEdge(c, p) /\ Taken(f) = None /\ kb' = PressConfirm(f) /\ UNCHANGED <<screen, words>>
      \/ ConfirmEdge(c, p) /\ Taken(f) # None /\ isVerify /\ WordVerified(Taken(f), f)
      \/ ConfirmEdge(c, p) /\ Taken(f) # None /\ ~isVerify /\ WordRestored(Taken(f), f)
  BY <1>1, <1>2, <1>3 DEF Frame, Released
<1>5. Good(r) /\ r.confirmLast = (kb.confirmLast /\ c) /\ Fresh(r) = Fresh(kb)
  BY <1>0, <1>1, ReleasedIs
<1>6. Good(p) /\ (r.confirmLast => p.confirmLast \/ Starting(p)) /\ (Fresh(r) => Starting(p))
  <2>1. CASE x
    BY <1>2, <1>5, <2>1, PressCancelIs DEF Fresh, Starting
  <2>2. CASE ~x
    BY <1>2, <1>5, <2>2 DEF Fresh, Starting
  <2> QED BY <2>1, <2>2
<1>7. Good(f) /\ f.confirmLast /\ Starting(f) = Starting(p)
  BY <1>3, <1>6, FiredIs
<1>8. ASSUME keys[1], ConfirmEdge(c, p) PROVE Taken(f) = None
  BY <1>0, <1>5, <1>6, <1>7, <1>8, TakenIs DEF ConfirmEdge, KeyboardInv, PressInv
<1>9. CASE Good(kb') /\ (c => kb'.confirmLast) /\ UNCHANGED <<screen, words>>
  <2>1. TypeInv'
    BY <1>0, <1>9 DEF KeyboardInv, TypeInv, Good, words
  <2>2. EntryInv' /\ PressInv'
    BY <1>0, <1>9 DEF EntryInv, PressInv
  <2>3. RoomInv'
    BY <1>9 DEF KeyboardInv, RoomInv, OnKeyboard, words
  <2>4. ~WordGiven
    <3>1. Len(restore) \in Nat /\ step \in Nat
      BY LenProperties DEF KeyboardInv, TypeInv
    <3> QED BY <1>9, <3>1 DEF WordGiven, words
  <2> QED BY <2>1, <2>2, <2>3, <2>4 DEF KeyboardInv
<1>10. CASE ~ConfirmEdge(c, p) /\ kb' = [p EXCEPT !.confirmLast = c] /\ UNCHANGED <<screen, words>>
  <2>1. Same(kb', p) /\ kb'.confirmLast = c
    BY <1>6, <1>10, ConfirmIs DEF Good, Shape
  <2>2. Good(kb')
    BY <1>6, <2>1, SameEntry
  <2> QED BY <1>9, <1>10, <2>1, <2>2
<1>11. CASE ConfirmEdge(c, p) /\ Taken(f) = None /\ kb' = PressConfirm(f) /\ UNCHANGED <<screen, words>>
  <2>1. ~f.select
    BY <1>7, <1>11, TakenIs
  <2>2. Good(kb') /\ kb'.confirmLast
    BY <1>7, <1>11, <2>1, PressConfirmIs
  <2> QED BY <1>9, <1>11, <2>2
<1>12. CASE ConfirmEdge(c, p) /\ Taken(f) # None /\ isVerify /\ WordVerified(Taken(f), f)
  BY <1>0, <1>7, <1>8, <1>12, VerifiedKeeps
<1>13. CASE ConfirmEdge(c, p) /\ Taken(f) # None /\ ~isVerify /\ WordRestored(Taken(f), f)
  <2>1. Taken(f) \in Index
    BY <1>7, <1>13, TakenIs
  <2> QED BY <1>0, <1>7, <1>8, <1>13, <2>1, RestoredKeeps
<1> QED BY <1>4, <1>10, <1>11, <1>12, <1>13

LEMMA OpenKeeps ==
  ASSUME KeyboardInv, OnKeyboard', Good(kb'), Fresh(kb'), keys' \in BOOLEAN \X BOOLEAN,
         \/ restore' = <<>> /\ isVerify' = FALSE /\ UNCHANGED <<asked, step>>
         \/ /\ step' = 0 /\ isVerify' = TRUE /\ UNCHANGED restore
            /\ asked' \in [1..Phrase -> 1..Phrase]
  PROVE  KeyboardInv'
<1>0. Phrase \in Nat /\ Phrase > 0 /\ Len(<<>>) = 0 /\ <<>> \in Seq(Index)
  BY ConstantTypes, EmptySeq
<1>1. CASE restore' = <<>> /\ isVerify' = FALSE /\ UNCHANGED <<asked, step>>
  <2>1. TypeInv'
    BY <1>0, <1>1 DEF KeyboardInv, TypeInv, Good, OnKeyboard
  <2>2. RoomInv'
    BY <1>0, <1>1 DEF RoomInv
  <2> QED BY <2>1, <2>2 DEF KeyboardInv, EntryInv, PressInv
<1>2. CASE /\ step' = 0 /\ isVerify' = TRUE /\ UNCHANGED restore
           /\ asked' \in [1..Phrase -> 1..Phrase]
  <2>1. asked' \in Seq(1..Phrase) /\ Len(asked') = Phrase
    BY <1>0, <1>2, FunctionIsSeq
  <2>2. asked' \in Seq(Nat)
    BY <2>1, SeqMonotonic
  <2>3. TypeInv'
    BY <1>2, <2>2 DEF KeyboardInv, TypeInv, Good, OnKeyboard
  <2>4. RoomInv'
    BY <1>0, <1>2, <2>1 DEF RoomInv
  <2> QED BY <2>3, <2>4 DEF KeyboardInv, EntryInv, PressInv
<1> QED BY <1>1, <1>2

LEMMA NoWordGiven ==
  ASSUME KeyboardInv, restore' = <<>> \/ restore' = restore, step' = 0 \/ step' = step
  PROVE  ~WordGiven
<1>1. Len(restore) \in Nat /\ step \in Nat /\ Len(<<>>) = 0
  BY LenProperties, EmptySeq DEF KeyboardInv, TypeInv
<1> QED BY <1>1 DEF WordGiven

LEMMA ElsewhereKeeps ==
  ASSUME TypeInv', ~OnKeyboard' PROVE KeyboardInv'
BY DEF KeyboardInv, EntryInv, RoomInv, PressInv

LEMMA KeyboardStep == KeyboardInv /\ [Next]_vars => KeyboardInv' /\ (WordGiven => ~keys[1])
<1> SUFFICES ASSUME KeyboardInv, [Next]_vars PROVE KeyboardInv' /\ (WordGiven => ~keys[1])
  OBVIOUS
<1>0. Shape(kb) /\ <<>> \in Seq(Index) /\ TypeInv
  BY EmptySeq DEF KeyboardInv, TypeInv
<1>1. CASE StartRestoreProcess
  <2>1. Good(kb') /\ Fresh(kb') /\ OnKeyboard'
    BY <1>0, <1>1, EmptyEntryIs DEF StartRestoreProcess, OnKeyboard
  <2>2. KeyboardInv'
    BY <1>1, <2>1, OpenKeeps DEF StartRestoreProcess
  <2> QED BY <1>1, <2>2, NoWordGiven DEF StartRestoreProcess
<1>2. CASE StartMnemonicCeremony
  <2>1. TypeInv' /\ ~OnKeyboard'
    BY <1>0, <1>2 DEF StartMnemonicCeremony, TypeInv, OnKeyboard, Elsewhere
  <2> QED BY <1>2, <2>1, ElsewhereKeeps, NoWordGiven DEF StartMnemonicCeremony
<1>3. CASE StartVerification
  <2>1. Good(kb') /\ Fresh(kb') /\ OnKeyboard'
    BY <1>0, <1>3, EmptyEntryIs DEF StartVerification, OnKeyboard
  <2>2. asked' \in [1..Phrase -> 1..Phrase]
    BY <1>3 DEF StartVerification
  <2>3. KeyboardInv'
    BY <1>3, <2>1, <2>2, OpenKeeps DEF StartVerification
  <2> QED BY <1>3, <2>3, NoWordGiven DEF StartVerification
<1>4. CASE RetryRestore
  <2>1. PICK e : e = [kb EXCEPT !.prefix = <<>>, !.letter = 1, !.select = FALSE, !.highlight = 0]
    OBVIOUS
  <2>2. Shape(e) /\ e.select = FALSE /\ Fresh(e)
    <3>1. <<>> \in Strings /\ Len(<<>>) <= PrefixMax /\ 1 \in 1..Backspace
      BY EmptySeq, Limits DEF Strings
    <3>2. e \in Keyboards /\ e.prefix = <<>> /\ e.letter = 1 /\ e.select = FALSE
      BY <1>0, <2>1, <3>1 DEF Shape, Keyboards
    <3> QED BY <3>1, <3>2 DEF Shape, Fresh
  <2>3. kb' = UpdateMatches(e)
    BY <1>4, <2>1 DEF RetryRestore
  <2>4. Good(kb')
    BY <2>2, <2>3, UpdateIs
  <2>5. Fresh(kb')
    <3>1. PICK m, t : UpdateMatches(e) = [e EXCEPT !.matches = m, !.total = t]
      BY <2>2, UpdateIs
    <3> QED BY <2>2, <2>3, <3>1 DEF Fresh, Shape, Keyboards
  <2>6. KeyboardInv'
    <3>1. OnKeyboard' /\ keys' \in BOOLEAN \X BOOLEAN
      <4>1. OnKeyboard' /\ keys' \in {<<TRUE, FALSE>>, <<FALSE, TRUE>>}
        BY <1>4 DEF RetryRestore, OnKeyboard
      <4>2. <<TRUE, FALSE>> \in BOOLEAN \X BOOLEAN /\ <<FALSE, TRUE>> \in BOOLEAN \X BOOLEAN
        OBVIOUS
      <4> QED BY <4>1, <4>2
    <3>2. restore' = <<>> /\ isVerify' = FALSE /\ UNCHANGED <<asked, step>>
      BY <1>4 DEF RetryRestore
    <3> QED BY <2>4, <2>5, <3>1, <3>2, OpenKeeps
  <2> QED BY <1>4, <2>6, NoWordGiven DEF RetryRestore
<1>5. CASE RestoreTimeout
  <2>1. Shape(kb')
    <3>1. <<>> \in Strings /\ Len(<<>>) <= PrefixMax /\ 1 \in 1..Backspace
      BY EmptySeq, Limits DEF Strings
    <3> QED BY <1>0, <1>5, <3>1 DEF RestoreTimeout, Shape, Keyboards
  <2>2. TypeInv' /\ ~OnKeyboard'
    BY <1>0, <1>5, <2>1 DEF RestoreTimeout, TypeInv, OnKeyboard, Elsewhere
  <2> QED BY <1>5, <2>2, ElsewhereKeeps, NoWordGiven DEF RestoreTimeout
<1>6. CASE Restart
  <2>1. Init'
    BY <1>6 DEF Restart, Init
  <2>2. Shape(BlankKeys)
    <3>1. <<>> \in Strings /\ <<>> \in Seq(Index) /\ Len(<<>>) <= PrefixMax /\ 1 \in 1..Backspace
      BY EmptySeq, Limits DEF Strings
    <3> QED BY <3>1 DEF Shape, Keyboards, BlankKeys
  <2>3. TypeInv' /\ ~OnKeyboard'
    BY <1>6, <2>2, EmptySeq DEF Restart, TypeInv, OnKeyboard, Elsewhere
  <2> QED BY <1>6, <2>3, ElsewhereKeeps, NoWordGiven DEF Restart
<1>7. CASE AnyKeys
  <2>1. PICK c \in BOOLEAN, x \in BOOLEAN, t \in BOOLEAN : Frame(c, x, t)
    BY <1>7 DEF AnyKeys
  <2> QED BY <2>1, FrameKeeps
<1>8. CASE SetOut
  <2>1. UNCHANGED <<screen, kb, isVerify, restore, mnemonic, asked, step, keys>>
    BY <1>8 DEF SetOut, words
  <2> QED BY <2>1, NoWordGiven DEF KeyboardInv, TypeInv, EntryInv, RoomInv, PressInv, OnKeyboard
<1>9. CASE TowardsGoal
  <2>1. \E c, x, t \in BOOLEAN : Frame(c, x, t)
    <3>1. \A key : (key = "confirm") \in BOOLEAN /\ (key # "confirm") \in BOOLEAN
      OBVIOUS
    <3> QED BY <1>9, <3>1 DEF TowardsGoal
  <2>2. PICK c \in BOOLEAN, x \in BOOLEAN, t \in BOOLEAN : Frame(c, x, t)
    BY <2>1
  <2> QED BY <2>2, FrameKeeps
<1>10. CASE UNCHANGED vars
  <2>1. UNCHANGED <<screen, kb, isVerify, restore, mnemonic, asked, step, keys>>
    BY <1>10 DEF vars
  <2> QED BY <2>1, NoWordGiven DEF KeyboardInv, TypeInv, EntryInv, RoomInv, PressInv, OnKeyboard
<1> QED BY <1>1, <1>2, <1>3, <1>4, <1>5, <1>6, <1>7, <1>8, <1>9, <1>10 DEF Next

(* The inductive invariant holds in every reachable state.                    *)
THEOREM AlwaysKeyboardInv == Spec => []KeyboardInv
<1>1. Init => KeyboardInv
  BY KeyboardInit
<1>2. KeyboardInv /\ [Next]_vars => KeyboardInv'
  BY KeyboardStep
<1> QED BY <1>1, <1>2, PTL DEF Spec

(* The state always has its type, and a word always has room: a word is taken at*)
(* the keyboard only while fewer than 24 are restored, or fewer than asked for*)
(* verified.                                                                  *)
THEOREM AlwaysKeyboardTypeOK == Spec => []KeyboardTypeOK
<1>1. KeyboardInv => KeyboardTypeOK
  <2> SUFFICES ASSUME KeyboardInv PROVE KeyboardTypeOK
    OBVIOUS
  <2>1. kb \in Keyboards /\ Len(kb.prefix) <= PrefixMax /\ isVerify \in BOOLEAN /\ RoomInv
    BY DEF KeyboardInv, TypeInv, Shape
  <2>2. kb.letter \in Letters \cup {Backspace}
    BY <2>1, Limits DEF Keyboards
  <2>3. {kb.select, kb.long, kb.short, kb.confirmLast, isVerify} \subseteq BOOLEAN
    BY <2>1 DEF Keyboards
  <2>4. screen \in Elsewhere \cup {"BIP39_PREDICTIVE_INPUT"} /\ kb.hold \in {"none", "short", "long"}
    BY <2>1 DEF KeyboardInv, TypeInv, Keyboards
  <2> QED BY <2>1, <2>2, <2>3, <2>4 DEF KeyboardTypeOK, RoomInv
<1> QED BY <1>1, AlwaysKeyboardInv, PTL

(* Whatever the keys, the candidates on the display and their number are those of*)
(* what is typed, for the list sorted as it is, and the highlight is on one.  *)
THEOREM AlwaysCandidatesAreCurrent == Spec => []CandidatesAreCurrent
<1>1. KeyboardInv => CandidatesAreCurrent
  <2> SUFFICES ASSUME KeyboardInv, OnKeyboard PROVE CandidatesAreCurrent
    BY DEF CandidatesAreCurrent
  <2>1. Shape(kb) /\ Offered(kb) /\ Chosen(kb)
    BY DEF KeyboardInv, EntryInv, Good
  <2>2. Fits(Search(kb), kb.matches, kb.total)
    BY <2>1, OfferedFits
  <2> QED BY <2>1, <2>2 DEF CandidatesAreCurrent, Fits, Chosen
<1> QED BY <1>1, AlwaysKeyboardInv, PTL

(* While CONFIRM stays down no second word is taken, though taking a word and a*)
(* long CANCEL forget that it has been seen down: the new entry is then on its*)
(* first letters, which many words share.                                     *)
THEOREM AlwaysOneWordPerPress == Spec => OneWordPerPress
<1>1. KeyboardInv /\ [Next]_vars => [Len(restore') > Len(restore) \/ step' > step => ~keys[1]]_vars
  BY KeyboardStep DEF WordGiven
<1> QED BY <1>1, AlwaysKeyboardInv, PTL DEF Spec, OneWordPerPress
=============================================================================
