---------------------------- MODULE BucketSizeProofs ----------------------------
(***************************************************************************)
(* parseBucketSize never overflows, whatever int64 and the text are, and   *)
(* it reads the number that is written in the text.                        *)
(***************************************************************************)
EXTENDS BucketSize, WellFoundedInduction, TLAPS

\* A number of GiB up to the limit that parseBucketSize accepts fits in int64.
LEMMA LimitFits ==
  ASSUME NEW n \in 1..(MaxInt64 \div gib) PROVE n * gib \in 1..MaxInt64
  <1> USE Int64Assumption
  <1> DEFINE limit == MaxInt64 \div gib
  <1>1. limit \in Nat /\ limit * gib <= MaxInt64
    OBVIOUS
  <1>2. n \in Nat /\ 1 <= n /\ n <= limit
    OBVIOUS
  <1> HIDE DEF limit
  <1>3. n * gib <= limit * gib /\ n * gib >= 1 /\ n * gib \in Nat
    BY <1>1, <1>2
  <1> QED BY <1>1, <1>3

\* A number that fits in int64 is not changed by wrapping.
LEMMA NoWrap ==
  ASSUME NEW x \in 0..MaxInt64 PROVE Int64(x) = x
  <1> USE Int64Assumption
  <1> DEFINE range == 2 * (MaxInt64 + 1)
             shifted == x + MaxInt64 + 1
  <1>1. range \in Nat \ {0} /\ shifted \in Nat /\ shifted < range
    OBVIOUS
  <1> HIDE DEF range, shifted
  <1>2. shifted % range = shifted
    BY <1>1
  <1> QED BY <1>2 DEF Int64, range, shifted

\* An accepted text gives the size in bytes of the number ParseInt read, without
\* a wrap in size * gib, and a positive one; every other text gives 0.
THEOREM SizeIsExact ==
  ASSUME NEW raw
  PROVE  /\ parseBucketSize(raw) \in {0, ParseInt(TrimSpace(CutSuffix(TrimSpace(raw)))) * gib}
         /\ parseBucketSize(raw) \in Size \union {0}
         /\ parseBucketSize(raw) \in 0..MaxInt64
  BY LimitFits, NoWrap, Int64Assumption DEF parseBucketSize, Size

----------------------------------------------------------------------------
(* Induction.                                                              *)

\* A set of natural numbers has a least element.
LEMMA Least ==
  ASSUME NEW T, T \subseteq Nat, T # {}
  PROVE  \E x \in T : \A y \in T : x <= y
  <1>1. PICK x \in T : \A y \in T : ~(<<y, x>> \in OpToRel(<, Nat))
    BY WFMin, NatLessThanWellFounded
  <1>2. \A y \in T : x <= y
    <2> TAKE y \in T
    <2>1. x \in Nat /\ y \in Nat
      OBVIOUS
    <2>2. ~(y < x)
      BY <1>1, <2>1 DEF OpToRel
    <2> QED BY <2>1, <2>2
  <1> QED BY <1>2

\* A set with 0 and the successors of its elements has all natural numbers.
LEMMA Induction ==
  ASSUME NEW T, 0 \in T, \A n \in Nat : n \in T => n + 1 \in T
  PROVE  Nat \subseteq T
  <1> SUFFICES ASSUME Nat \ T # {} PROVE FALSE
    OBVIOUS
  <1>1. PICK x \in Nat \ T : \A y \in Nat \ T : x <= y
    BY Least
  <1>2. x - 1 \in Nat /\ x - 1 \in T
    BY <1>1
  <1> QED BY <1>1, <1>2

\* A bounded set of positions has a greatest element.
LEMMA Greatest ==
  ASSUME NEW n \in Nat, NEW T, T \subseteq 1..n, T # {}
  PROVE  \E x \in T : \A y \in T : y <= x
  <1> DEFINE U == {k \in Nat : \A y \in T : y <= k}
  <1>1. U \subseteq Nat /\ n \in U
    OBVIOUS
  <1>2. PICK x \in U : \A y \in U : x <= y
    BY <1>1, Least
  <1>3. x \in T
    <2> SUFFICES ASSUME x \notin T PROVE FALSE
      OBVIOUS
    <2>1. \A y \in T : y <= x - 1
      BY <1>2
    <2>2. PICK y : y \in T
      OBVIOUS
    <2>3. x - 1 \in Nat
      BY <2>1, <2>2, <1>2
    <2> QED BY <1>2, <2>1, <2>3
  <1> QED BY <1>2, <1>3

----------------------------------------------------------------------------
(* Numbers.                                                                *)

\* f adds up the first n digits of s.
Sums(f, s, n) ==
    f \in [0..n -> Nat] /\ f[0] = 0 /\ \A i \in 1..n : f[i] = 10 * f[i - 1] + Digit[s[i]]

\* The digits stand for natural numbers.
LEMMA DigitNat == \A x \in DOMAIN Digit : Digit[x] \in 0..9
  BY DEF Digit

\* The sums of a sequence of digits exist, ...
LEMMA SumsExist ==
  ASSUME NEW s \in Seq(DOMAIN Digit), NEW n \in 0..Len(s) PROVE \E f : Sums(f, s, n)
  <1> DEFINE T == {k \in Nat : k <= Len(s) => \E f : Sums(f, s, k)}
  <1>1. 0 \in T
    <2>1. Sums([i \in 0..0 |-> 0], s, 0)
      BY DEF Sums
    <2> QED BY <2>1
  <1>2. ASSUME NEW k \in Nat, k \in T PROVE k + 1 \in T
    <2> SUFFICES ASSUME k + 1 <= Len(s) PROVE \E f : Sums(f, s, k + 1)
      OBVIOUS
    <2>1. PICK g : Sums(g, s, k)
      BY <1>2
    <2> DEFINE h == [i \in 0..(k + 1) |-> IF i <= k THEN g[i] ELSE 10 * g[k] + Digit[s[k + 1]]]
    <2>2. Digit[s[k + 1]] \in Nat
      <3>1. s[k + 1] \in DOMAIN Digit
        OBVIOUS
      <3> QED BY <3>1, DigitNat
    <2>3. h \in [0..(k + 1) -> Nat] /\ h[0] = 0
      BY <2>1, <2>2 DEF Sums
    <2>4. ASSUME NEW i \in 1..(k + 1) PROVE h[i] = 10 * h[i - 1] + Digit[s[i]]
      <3>1. CASE i <= k
        <4>1. i \in 1..k /\ i - 1 \in 0..k /\ i \in 0..k
          BY <3>1
        <4>2. h[i] = g[i] /\ h[i - 1] = g[i - 1]
          BY <4>1
        <4> QED BY <4>1, <4>2, <2>1 DEF Sums
      <3>2. CASE i = k + 1
        BY <3>2
      <3> QED BY <3>1, <3>2
    <2> HIDE DEF h
    <2>5. Sums(h, s, k + 1)
      BY <2>3, <2>4 DEF Sums
    <2> QED BY <2>5
  <1>3. Nat \subseteq T
    BY <1>1, <1>2, Induction
  <1> QED BY <1>3

\* ... and are unique, also when one of them goes further.
LEMMA SumsUnique ==
  ASSUME NEW s, NEW n \in Nat, NEW m \in Nat, n <= m, NEW f, Sums(f, s, n), NEW g, Sums(g, s, m)
  PROVE  \A i \in 0..n : f[i] = g[i]
  <1> DEFINE T == {k \in Nat : k <= n => f[k] = g[k]}
  <1>1. 0 \in T
    BY DEF Sums
  <1>2. ASSUME NEW k \in Nat, k \in T PROVE k + 1 \in T
    <2> SUFFICES ASSUME k + 1 <= n PROVE f[k + 1] = g[k + 1]
      OBVIOUS
    <2>1. f[k] = g[k] /\ k + 1 \in 1..n /\ k + 1 \in 1..m
      BY <1>2
    <2>2. f[k + 1] = 10 * f[k + 1 - 1] + Digit[s[k + 1]] /\ g[k + 1] = 10 * g[k + 1 - 1] + Digit[s[k + 1]]
      BY <2>1 DEF Sums
    <2> QED BY <2>1, <2>2
  <1>3. Nat \subseteq T
    BY <1>1, <1>2, Induction
  <1> QED BY <1>3

\* Value is the last of the sums.
LEMMA ValueSums ==
  ASSUME NEW s \in Seq(DOMAIN Digit), NEW f, Sums(f, s, Len(s))
  PROVE  Value(s) = f[Len(s)]
  <1> DEFINE Body(g) == [i \in 0..Len(s) |-> IF i = 0 THEN 0 ELSE 10 * g[i - 1] + Digit[s[i]]]
  <1> DEFINE upTo == CHOOSE g : g = Body(g)
  <1>1. Value(s) = upTo[Len(s)]
    BY DEF Value
  <1>2. f = Body(f)
    BY DEF Sums
  <1>3. upTo = Body(upTo)
    BY <1>2
  <1> HIDE DEF upTo
  <1> DEFINE T == {k \in Nat : k <= Len(s) => upTo[k] = f[k]}
  <1>4. 0 \in T
    BY <1>3 DEF Sums
  <1>5. ASSUME NEW k \in Nat, k \in T PROVE k + 1 \in T
    <2> SUFFICES ASSUME k + 1 <= Len(s) PROVE upTo[k + 1] = f[k + 1]
      OBVIOUS
    <2>1. upTo[k] = f[k] /\ k + 1 \in 1..Len(s)
      BY <1>5
    <2>2. f[k + 1] = 10 * f[k + 1 - 1] + Digit[s[k + 1]]
      BY <2>1 DEF Sums
    <2>3. upTo[k + 1] = 10 * upTo[k + 1 - 1] + Digit[s[k + 1]]
      BY <2>1, <1>3
    <2> QED BY <2>1, <2>2, <2>3
  <1>6. Nat \subseteq T
    BY <1>4, <1>5, Induction
  <1> QED BY <1>1, <1>6

\* Value is what a sequence of digits means in decimal notation: nothing stands
\* for 0, and a further digit multiplies by ten and adds its own.
LEMMA ValueIsDecimal ==
  /\ Value(<<>>) = 0
  /\ \A s \in Seq(DOMAIN Digit), x \in DOMAIN Digit :
        Value(s) \in Nat /\ Value(Append(s, x)) = 10 * Value(s) + Digit[x]
  <1>1. Value(<<>>) = 0
    <2> DEFINE s == <<>>
    <2>1. s \in Seq(DOMAIN Digit) /\ Len(s) = 0
      OBVIOUS
    <2> HIDE DEF s
    <2>2. Len(s) \in 0..Len(s)
      BY <2>1
    <2>3. PICK f : Sums(f, s, Len(s))
      BY <2>1, <2>2, SumsExist
    <2>4. Value(s) = f[Len(s)]
      BY <2>1, <2>3, ValueSums
    <2> QED BY <2>1, <2>3, <2>4 DEF Sums, s
  <1>2. ASSUME NEW s \in Seq(DOMAIN Digit), NEW x \in DOMAIN Digit
        PROVE  Value(s) \in Nat /\ Value(Append(s, x)) = 10 * Value(s) + Digit[x]
    <2> DEFINE t == Append(s, x)
    <2>1. /\ t \in Seq(DOMAIN Digit) /\ Len(t) = Len(s) + 1 /\ Len(s) \in Nat
          /\ t[Len(s) + 1] = x /\ \A i \in 1..Len(s) : t[i] = s[i]
      OBVIOUS
    <2> HIDE DEF t
    <2>2. PICK f : Sums(f, s, Len(s))
      BY SumsExist
    <2>3. PICK g : Sums(g, t, Len(t))
      BY <2>1, SumsExist
    <2>4. Sums([i \in 0..Len(s) |-> g[i]], s, Len(s))
      BY <2>1, <2>3 DEF Sums
    <2>5. g[Len(s)] = f[Len(s)]
      BY <2>1, <2>2, <2>4, SumsUnique
    <2>6. g[Len(s) + 1] = 10 * g[Len(s)] + Digit[x]
      BY <2>1, <2>3 DEF Sums
    <2>7. Value(s) = f[Len(s)] /\ Value(t) = g[Len(s) + 1]
      BY <2>1, <2>2, <2>3, ValueSums
    <2>8. f[Len(s)] \in Nat
      BY <2>1, <2>2 DEF Sums
    <2> QED BY <2>5, <2>6, <2>7, <2>8 DEF t
  <1> QED BY <1>1, <1>2

----------------------------------------------------------------------------
(* Texts.                                                                  *)

\* t is the part of s from i to j, and the rest of s has no digits.
IsCore(t, s, i, j) ==
    /\ i \in Nat \ {0} /\ j \in Nat /\ i <= j + 1 /\ j <= Len(s)
    /\ t \in Seq(STRING) /\ Len(t) = j - i + 1
    /\ \A k \in 1..Len(t) : t[k] = s[k + i - 1]
    /\ \A k \in 1..Len(s) : s[k] \in DOMAIN Digit => k \in i..j

Core(t, s) == \E i, j : IsCore(t, s, i, j)

\* A text is a core of itself.
LEMMA CoreOfItself == ASSUME NEW s \in Seq(STRING) PROVE Core(s, s)
  <1>1. IsCore(s, s, 1, Len(s))
    BY DEF IsCore
  <1> QED BY <1>1 DEF Core

\* A core of a core is a core.
LEMMA CoreOfCore ==
  ASSUME NEW s, NEW t, NEW u, Core(t, s), Core(u, t) PROVE Core(u, s)
  <1>1. PICK i, j : IsCore(t, s, i, j)
    BY DEF Core
  <1>2. PICK a, b : IsCore(u, t, a, b)
    BY DEF Core
  <1> DEFINE p == a + i - 1
             q == b + i - 1
  <1>3. /\ i \in Nat \ {0} /\ j \in Nat /\ i <= j + 1 /\ j <= Len(s) /\ Len(t) = j - i + 1
        /\ a \in Nat \ {0} /\ b \in Nat /\ a <= b + 1 /\ b <= Len(t) /\ Len(u) = b - a + 1
        /\ u \in Seq(STRING)
    BY <1>1, <1>2 DEF IsCore
  <1>4. p \in Nat \ {0} /\ q \in Nat /\ p <= q + 1 /\ Len(u) = q - p + 1 /\ q <= j
    BY <1>3
  <1>5. ASSUME NEW k \in 1..Len(u) PROVE u[k] = s[k + p - 1]
    <2>1. k + a - 1 \in 1..Len(t) /\ (k + a - 1) + i - 1 = k + p - 1
      BY <1>3
    <2>2. u[k] = t[k + a - 1] /\ t[k + a - 1] = s[(k + a - 1) + i - 1]
      BY <1>1, <1>2, <2>1 DEF IsCore
    <2> QED BY <2>1, <2>2
  <1>6. ASSUME NEW k \in 1..Len(s), s[k] \in DOMAIN Digit PROVE k \in p..q
    <2>1. k \in i..j
      BY <1>1, <1>6 DEF IsCore
    <2>2. k - i + 1 \in 1..Len(t) /\ (k - i + 1) + i - 1 = k
      BY <1>3, <2>1
    <2>3. t[k - i + 1] = s[k]
      <3>1. t[k - i + 1] = s[(k - i + 1) + i - 1]
        BY <1>1, <2>2 DEF IsCore
      <3> QED BY <2>2, <3>1
    <2>4. k - i + 1 \in a..b
      BY <1>2, <1>6, <2>2, <2>3 DEF IsCore
    <2> QED BY <1>3, <2>1, <2>4
  <1> HIDE DEF p, q
  <1>7. q <= Len(s)
    BY <1>3, <1>4
  <1>8. IsCore(u, s, p, q)
    BY <1>3, <1>4, <1>5, <1>6, <1>7 DEF IsCore
  <1> QED BY <1>8 DEF Core

\* A part outside of which there are no digits is a core.
LEMMA SubSeqCore ==
  ASSUME NEW s \in Seq(STRING), NEW i \in 1..(Len(s) + 1), NEW j \in 0..Len(s), i <= j + 1,
         \A k \in 1..Len(s) : s[k] \in DOMAIN Digit => k \in i..j
  PROVE  Core(SubSeq(s, i, j), s)
  <1>1. IsCore(SubSeq(s, i, j), s, i, j)
    BY DEF IsCore
  <1> QED BY <1>1 DEF Core

\* TrimSpace takes no digits away.
LEMMA TrimSpaceCore == ASSUME NEW s \in Seq(STRING) PROVE Core(TrimSpace(s), s)
  <1> DEFINE ink == {i \in DOMAIN s : s[i] # " "}
             first == CHOOSE i \in ink : \A j \in ink : i <= j
             last == CHOOSE i \in ink : \A j \in ink : j <= i
  <1>1. DOMAIN s = 1..Len(s) /\ Len(s) \in Nat
    OBVIOUS
  <1>2. \A k \in 1..Len(s) : s[k] \in DOMAIN Digit => k \in ink
    BY <1>1 DEF Digit
  <1>3. CASE ink = {}
    <2>1. TrimSpace(s) = <<>>
      BY <1>3 DEF TrimSpace
    <2> DEFINE e == <<>>
    <2>2. e \in Seq(STRING) /\ Len(e) = 0
      OBVIOUS
    <2> HIDE DEF e
    <2>3. \A k \in 1..Len(s) : s[k] \notin DOMAIN Digit
      BY <1>2, <1>3
    <2>4. IsCore(e, s, 1, 0)
      BY <1>1, <2>2, <2>3 DEF IsCore
    <2> QED BY <2>1, <2>4 DEF Core, e
  <1>4. CASE ink # {}
    <2>0. ASSUME NEW i \in ink PROVE i \in Nat /\ i \in 1..Len(s)
      <3>1. i \in DOMAIN s
        OBVIOUS
      <3>2. i \in 1..Len(s)
        BY <1>1, <3>1, Zenon
      <3> HIDE DEF ink
      <3>3. i \in Nat
        BY <1>1, <3>2
      <3> QED BY <3>2, <3>3
    <2>1. ink \subseteq Nat /\ ink \subseteq 1..Len(s)
      BY <2>0
    <2>2. \E i \in ink : \A j \in ink : i <= j
      BY <1>4, <2>1, Least
    <2>3. \E i \in ink : \A j \in ink : j <= i
      BY <1>1, <1>4, <2>1, Greatest
    <2>4. TrimSpace(s) = SubSeq(s, first, last)
      BY <1>4 DEF TrimSpace
    <2>5. first \in ink /\ \A j \in ink : first <= j
      BY <2>2
    <2>6. last \in ink /\ \A j \in ink : j <= last
      BY <2>3
    <2> HIDE DEF first, last, ink
    <2>7. first \in 1..(Len(s) + 1) /\ last \in 0..Len(s) /\ first <= last + 1
      BY <2>1, <2>5, <2>6
    <2>8. \A k \in 1..Len(s) : s[k] \in DOMAIN Digit => k \in first..last
      BY <1>2, <2>1, <2>5, <2>6
    <2> QED BY <2>4, <2>7, <2>8, SubSeqCore
  <1> QED BY <1>3, <1>4

\* Nor does cutting the suffix.
LEMMA CutSuffixCore == ASSUME NEW s \in Seq(STRING) PROVE Core(CutSuffix(s), s)
  <1>1. CASE Len(s) >= 2 /\ s[Len(s) - 1] \in {"G", "g"} /\ s[Len(s)] \in {"I", "i"}
    <2>1. CutSuffix(s) = SubSeq(s, 1, Len(s) - 2)
      BY <1>1 DEF CutSuffix
    <2>2. s[Len(s) - 1] \notin DOMAIN Digit /\ s[Len(s)] \notin DOMAIN Digit
      BY <1>1 DEF Digit
    <2>3. \A k \in 1..Len(s) : s[k] \in DOMAIN Digit => k \in 1..(Len(s) - 2)
      BY <2>2
    <2> QED BY <1>1, <2>1, <2>3, SubSeqCore
  <1>2. CASE ~(Len(s) >= 2 /\ s[Len(s) - 1] \in {"G", "g"} /\ s[Len(s)] \in {"I", "i"})
    BY <1>2, CoreOfItself DEF CutSuffix
  <1> QED BY <1>1, <1>2

\* Nor does dropping a sign.
LEMMA UnsignedCore ==
  ASSUME NEW s \in Seq(STRING), s # <<>>, s[1] \in {"+", "-"} PROVE Core(Tail(s), s)
  <1>1. Len(s) >= 1 /\ s[1] \notin DOMAIN Digit
    BY DEF Digit
  <1>2. IsCore(Tail(s), s, 2, Len(s))
    BY <1>1 DEF IsCore
  <1> QED BY <1>2 DEF Core

\* What ParseInt reads from a text that holds a positive number: digits only, none
\* left out, not negated.
LEMMA ParseIntCore ==
  ASSUME NEW s \in Seq(STRING), ParseInt(s) > 0
  PROVE  \E t : Core(t, s) /\ t \in Seq(DOMAIN Digit) /\ t # <<>> /\ ParseInt(s) = Value(t)
  <1> DEFINE signed == s # <<>> /\ s[1] \in {"+", "-"}
             digits == IF signed THEN Tail(s) ELSE s
             n == IF signed /\ s[1] = "-" THEN 0 - Value(digits) ELSE Value(digits)
  <1>1. /\ digits # <<>> /\ \A i \in DOMAIN digits : digits[i] \in DOMAIN Digit
        /\ ParseInt(s) = n
    <2> DEFINE bad == digits = <<>> \/ \E i \in DOMAIN digits : digits[i] \notin DOMAIN Digit
               far == n > MaxInt64 \/ n < 0 - MaxInt64 - 1
    <2>1. ParseInt(s) = IF bad THEN 0 ELSE IF far THEN 0 ELSE n
      BY DEF ParseInt
    <2> HIDE DEF digits, n, far
    <2>2. ~bad /\ ParseInt(s) = n
      <3> HIDE DEF bad
      <3> QED BY <2>1
    <2> QED BY <2>2
  <1>2. Core(digits, s)
    <2>1. CASE signed
      BY <2>1, UnsignedCore
    <2>2. CASE ~signed
      BY <2>2, CoreOfItself
    <2> QED BY <2>1, <2>2
  <1>3. digits \in Seq(STRING)
    BY <1>2 DEF Core, IsCore
  <1> HIDE DEF digits
  <1>4. digits \in Seq(DOMAIN Digit)
    BY <1>1, <1>3
  <1>5. Value(digits) \in Nat
    BY <1>4, ValueIsDecimal
  <1>6. n = Value(digits)
    BY <1>1, <1>5
  <1> QED BY <1>1, <1>2, <1>4, <1>6

\* An accepted text holds one run of digits, and the size is the number they make,
\* in GiB: neither blanks nor a sign nor the suffix add to it, hide part of it or
\* turn it round, and nothing else is accepted.
THEOREM SizeIsWritten ==
  ASSUME NEW raw \in Seq(STRING), parseBucketSize(raw) # 0
  PROVE  SizeWritten(raw, parseBucketSize(raw))
  <1> DEFINE t1 == TrimSpace(raw)
             t2 == CutSuffix(t1)
             t3 == TrimSpace(t2)
  <1>1. Core(t1, raw) /\ t1 \in Seq(STRING)
    BY TrimSpaceCore DEF Core, IsCore
  <1>2. Core(t2, t1) /\ t2 \in Seq(STRING)
    BY <1>1, CutSuffixCore DEF Core, IsCore
  <1>3. Core(t3, t2) /\ t3 \in Seq(STRING)
    BY <1>2, TrimSpaceCore DEF Core, IsCore
  <1>4. parseBucketSize(raw) = ParseInt(t3) * gib /\ ParseInt(t3) > 0
    BY LimitFits, NoWrap, Int64Assumption DEF parseBucketSize
  <1> HIDE DEF t1, t2, t3
  <1>5. PICK t : Core(t, t3) /\ t \in Seq(DOMAIN Digit) /\ t # <<>> /\ ParseInt(t3) = Value(t)
    BY <1>3, <1>4, ParseIntCore
  <1>6. Core(t, raw)
    BY <1>1, <1>2, <1>3, <1>5, CoreOfCore
  <1>7. PICK i, j : IsCore(t, raw, i, j)
    BY <1>6 DEF Core
  <1>8. i \in Nat \ {0} /\ j \in Nat /\ i <= j /\ j <= Len(raw) /\ Len(t) = j - i + 1
    BY <1>5, <1>7 DEF IsCore
  <1>9. t = SubSeq(raw, i, j)
    BY <1>5, <1>7, <1>8 DEF IsCore
  <1>10. ASSUME NEW k \in i..j PROVE k \in DOMAIN raw /\ raw[k] \in DOMAIN Digit
    <2>1. k - i + 1 \in 1..Len(t) /\ (k - i + 1) + i - 1 = k
      BY <1>8
    <2>2. raw[k] = t[k - i + 1]
      <3>1. t[k - i + 1] = raw[(k - i + 1) + i - 1]
        BY <1>7, <2>1 DEF IsCore
      <3> QED BY <2>1, <3>1
    <2>3. t[k - i + 1] \in DOMAIN Digit
      BY <1>5, <2>1
    <2> QED BY <1>8, <2>2, <2>3
  <1>11. {k \in DOMAIN raw : raw[k] \in DOMAIN Digit} = i..j
    <2>1. ASSUME NEW k \in DOMAIN raw, raw[k] \in DOMAIN Digit PROVE k \in i..j
      <3>1. k \in 1..Len(raw)
        OBVIOUS
      <3> QED BY <1>7, <2>1, <3>1 DEF IsCore
    <2> QED BY <1>10, <2>1
  <1>12. i \in DOMAIN raw /\ j \in DOMAIN raw
    BY <1>8
  <1> QED BY <1>4, <1>5, <1>9, <1>11, <1>12 DEF SizeWritten
====
