--------------------------- MODULE SequenceLemmas ---------------------------
(***************************************************************************)
(* Facts about sequences every component's proofs rest on: erasing from a  *)
(* vector by position or by a condition, and how the two meet appending.   *)
(* Recursive functions are reasoned about by the least index at which a    *)
(* fact fails.                                                             *)
(***************************************************************************)
EXTENDS SeqFilter, SequencesExt, WellFoundedInduction, SequenceTheorems, TLAPS

\* One step of the recursion Kept is defined by.
KeepStep(seq, S, g, i) ==
  IF i = 0 THEN <<>>
  ELSE IF seq[i] \in S THEN Append(g[i - 1], seq[i]) ELSE g[i - 1]

\* A non-empty set of natural numbers has a least element.
LEMMA LeastElement ==
  ASSUME NEW T \in SUBSET Nat, T # {}
  PROVE  \E x \in T : \A y \in T : x <= y
<1> DEFINE R == OpToRel(<, Nat)
<1>1. IsWellFoundedOn(R, Nat)
  BY NatLessThanWellFounded
<1>2. R = {ss \in Nat \X Nat : ss[1] < ss[2]}
  BY DEF OpToRel
<1> HIDE DEF R
<1>3. PICK x \in T : \A y \in T : ~(<<y, x>> \in R)
  BY <1>1, WFMin
<1>4. \A y \in T : ~(y < x)
  BY <1>3, <1>2
<1> QED BY <1>4

\* The recursive function Kept is made of exists.
LEMMA KeepExists ==
  ASSUME NEW T, NEW seq \in Seq(T), NEW S
  PROVE  \E g : g = [i \in 0 .. Len(seq) |-> KeepStep(seq, S, g, i)]
<1> DEFINE IsUpTo(n, g) == g = [i \in 0 .. n |-> KeepStep(seq, S, g, i)]
           Bad == {n \in 0 .. Len(seq) : ~ \E g : IsUpTo(n, g)}
<1>1. SUFFICES ASSUME Bad # {} PROVE FALSE
  OBVIOUS
<1>2. PICK m \in Bad : \A y \in Bad : m <= y
  <2>1. Len(seq) \in Nat
    OBVIOUS
  <2>2. Bad \in SUBSET Nat
    BY <2>1
  <2> QED BY <1>1, <2>2, LeastElement
<1>3. CASE m = 0
  <2> DEFINE h == [i \in 0 .. 0 |-> <<>>]
  <2>1. h = [i \in 0 .. 0 |-> KeepStep(seq, S, h, i)]
    BY DEF KeepStep
  <2> QED BY <1>3, <2>1
<1>4. CASE m # 0
  <2>1. PICK g : IsUpTo(m - 1, g)
    BY <1>2, <1>4
  <2> DEFINE h == [i \in 0 .. m |-> IF i = m THEN KeepStep(seq, S, g, m) ELSE g[i]]
  <2>a. m \in Nat \ {0}
    BY <1>2, <1>4
  <2>2. \A i \in 0 .. m : h[i] = KeepStep(seq, S, h, i)
    <3> SUFFICES ASSUME NEW i \in 0 .. m PROVE h[i] = KeepStep(seq, S, h, i)
      OBVIOUS
    <3>1. i # 0 => h[i - 1] = g[i - 1]
      BY <2>a
    <3>2. KeepStep(seq, S, h, i) = KeepStep(seq, S, g, i)
      BY <3>1 DEF KeepStep
    <3>3. i # m => g[i] = KeepStep(seq, S, g, i)
      BY <2>1, <2>a
    <3> QED BY <3>2, <3>3
  <2>3. h = [i \in 0 .. m |-> KeepStep(seq, S, h, i)]
    BY <2>2
  <2> QED BY <2>3
<1> QED BY <1>3, <1>4

\* What is kept is in S and comes from the sequence.
LEMMA KeptType ==
  ASSUME NEW T, NEW seq \in Seq(T), NEW S
  PROVE  Kept(seq, S) \in Seq(T \cap S) /\ Len(Kept(seq, S)) <= Len(seq)
<1> DEFINE f == CHOOSE g : g = [i \in 0 .. Len(seq) |-> KeepStep(seq, S, g, i)]
<1>1. Kept(seq, S) = f[Len(seq)]
  BY DEF Kept, KeepStep
<1>2. f = [i \in 0 .. Len(seq) |-> KeepStep(seq, S, f, i)]
  BY KeepExists
<1> HIDE DEF f
<1> DEFINE Bad == {i \in 0 .. Len(seq) : ~(f[i] \in Seq(T \cap S) /\ Len(f[i]) <= i)}
<1>3. SUFFICES ASSUME Bad # {} PROVE FALSE
  BY <1>1
<1>4. PICK m \in Bad : \A y \in Bad : m <= y
  <2>1. Len(seq) \in Nat
    OBVIOUS
  <2>2. Bad \in SUBSET Nat
    BY <2>1
  <2> QED BY <1>3, <2>2, LeastElement
<1>5. m # 0 => f[m - 1] \in Seq(T \cap S) /\ Len(f[m - 1]) <= m - 1
  BY <1>4
<1>6. f[m] = KeepStep(seq, S, f, m)
  BY <1>2
<1>7. CASE m = 0
  <2>1. f[m] = <<>>
    BY <1>6, <1>7 DEF KeepStep
  <2>2. <<>> \in Seq(T \cap S) /\ Len(<<>>) = 0
    BY EmptySeq
  <2> QED BY <1>4, <1>7, <2>1, <2>2
<1>8. CASE m # 0
  <2>1. m \in 1 .. Len(seq) /\ seq[m] \in T
    BY <1>4, <1>8
  <2>2. f[m] = f[m - 1] \/ (seq[m] \in S /\ f[m] = Append(f[m - 1], seq[m]))
    BY <1>6, <1>8 DEF KeepStep
  <2>3. PICK x : x = f[m - 1]
    OBVIOUS
  <2>4. x \in Seq(T \cap S) /\ Len(x) <= m - 1
    BY <1>5, <1>8, <2>3
  <2>5. seq[m] \in S =>
          Append(x, seq[m]) \in Seq(T \cap S) /\ Len(Append(x, seq[m])) = Len(x) + 1
    BY <2>1, <2>4, AppendProperties
  <2>6. f[m] = x \/ (seq[m] \in S /\ f[m] = Append(x, seq[m]))
    BY <2>2, <2>3
  <2>7. m \in Nat /\ Len(x) \in Nat
    BY <2>1, <2>4, LenProperties
  <2> DEFINE a == Append(x, seq[m])
  <2>a. seq[m] \in S => a \in Seq(T \cap S) /\ Len(a) = Len(x) + 1
    BY <2>5
  <2>b. f[m] = x \/ (seq[m] \in S /\ f[m] = a)
    BY <2>6
  <2>c. Len(x) <= m /\ Len(x) + 1 <= m
    BY <2>4, <2>7
  <2> HIDE DEF a
  <2>8. f[m] \in Seq(T \cap S) /\ Len(f[m]) <= m
    BY <2>4, <2>a, <2>b, <2>c
  <2> QED BY <1>4, <2>8
<1> QED BY <1>7, <1>8

\* Nothing that is in S is lost.
LEMMA KeptFinds ==
  ASSUME NEW T, NEW seq \in Seq(T), NEW S, NEW i \in 1 .. Len(seq), seq[i] \in S
  PROVE  Len(Kept(seq, S)) > 0
<1> DEFINE f == CHOOSE g : g = [j \in 0 .. Len(seq) |-> KeepStep(seq, S, g, j)]
<1>1. Kept(seq, S) = f[Len(seq)]
  BY DEF Kept, KeepStep
<1>2. f = [j \in 0 .. Len(seq) |-> KeepStep(seq, S, f, j)]
  BY KeepExists
<1>3. Len(seq) \in Nat
  OBVIOUS
<1> HIDE DEF f
<1> DEFINE Fits(j) == f[j] \in Seq(T) /\ (j >= i => Len(f[j]) > 0)
           Bad     == {j \in 0 .. Len(seq) : ~Fits(j)}
<1>4. SUFFICES ASSUME Bad # {} PROVE FALSE
  BY <1>1, <1>3
<1>5. PICK m \in Bad : \A y \in Bad : m <= y
  <2>1. Bad \in SUBSET Nat
    BY <1>3
  <2> QED BY <1>4, <2>1, LeastElement
<1>6. f[m] = KeepStep(seq, S, f, m)
  BY <1>2
<1>7. CASE m = 0
  <2>1. f[m] = <<>> /\ ~(m >= i)
    BY <1>6, <1>7 DEF KeepStep
  <2>2. <<>> \in Seq(T)
    BY EmptySeq
  <2> QED BY <1>5, <2>1, <2>2
<1>8. CASE m # 0
  <2>1. m \in 1 .. Len(seq) /\ seq[m] \in T
    BY <1>5, <1>8
  <2>2. PICK x : x = f[m - 1]
    OBVIOUS
  <2>3. Fits(m - 1)
    BY <1>3, <1>5, <2>1
  <2>4. x \in Seq(T) /\ (m - 1 >= i => Len(x) > 0)
    BY <2>2, <2>3
  <2>5. f[m] = x \/ (seq[m] \in S /\ f[m] = Append(x, seq[m]))
    BY <1>6, <1>8, <2>2 DEF KeepStep
  <2>6. seq[m] \in S => f[m] = Append(x, seq[m])
    BY <1>6, <1>8, <2>2 DEF KeepStep
  <2>7. Append(x, seq[m]) \in Seq(T) /\ Len(Append(x, seq[m])) = Len(x) + 1 /\ Len(x) \in Nat
    BY <2>1, <2>4, AppendProperties, LenProperties
  <2>8. CASE seq[m] \in S
    <3> DEFINE longer == Append(x, seq[m])
    <3>1. f[m] = longer /\ longer \in Seq(T) /\ Len(longer) > 0
      BY <2>6, <2>7, <2>8
    <3> HIDE DEF longer
    <3>2. Fits(m)
      BY <3>1
    <3> QED BY <1>5, <3>2
  <2>9. CASE seq[m] \notin S
    <3>1. f[m] = x /\ m # i
      BY <2>5, <2>9
    <3>2. m >= i => m - 1 >= i
      BY <2>1, <3>1
    <3> QED BY <1>5, <2>4, <3>1, <3>2
  <2> QED BY <2>8, <2>9
<1> QED BY <1>7, <1>8

\* Erasing position i (vector::erase) shifts what follows it and loses nothing else.
LEMMA RemoveAtProperties ==
  ASSUME NEW T, NEW seq \in Seq(T), NEW i \in 1 .. Len(seq)
  PROVE  /\ RemoveAt(seq, i) \in Seq(T)
         /\ Len(RemoveAt(seq, i)) = Len(seq) - 1
         /\ \A k \in 1 .. Len(seq) - 1 :
              RemoveAt(seq, i)[k] = IF k < i THEN seq[k] ELSE seq[k + 1]
<1> DEFINE n     == Len(seq)
           left  == SubSeq(seq, 1, i - 1)
           right == SubSeq(seq, i + 1, n)
<1>1. RemoveAt(seq, i) = left \o right
  BY DEF RemoveAt
<1>2. n \in Nat /\ i \in 1 .. n
  BY LenProperties
<1>3. left \in Seq(T) /\ Len(left) = i - 1 /\ \A k \in 1 .. i - 1 : left[k] = seq[k]
  BY <1>2, SubSeqProperties
<1>4. /\ right \in Seq(T) /\ Len(right) = n - i
      /\ \A k \in 1 .. n - i : right[k] = seq[i + k]
  BY <1>2, SubSeqProperties
<1> HIDE DEF n, left, right
<1>5. left \o right \in Seq(T) /\ Len(left \o right) = n - 1
  <2>1. left \o right \in Seq(T) /\ Len(left \o right) = Len(left) + Len(right)
    BY <1>3, <1>4, ConcatProperties
  <2>2. Len(left) + Len(right) = n - 1
    BY <1>2, <1>3, <1>4
  <2> QED BY <2>1, <2>2
<1>7. \A k \in 1 .. n - 1 :
        (left \o right)[k] = IF k <= i - 1 THEN left[k] ELSE right[k - (i - 1)]
  <2>1. \A k \in 1 .. Len(left) + Len(right) :
          (left \o right)[k] = IF k <= Len(left) THEN left[k] ELSE right[k - Len(left)]
    BY <1>3, <1>4, ConcatProperties
  <2>2. Len(left) = i - 1 /\ Len(left) + Len(right) = n - 1
    BY <1>2, <1>3, <1>4
  <2> QED BY <2>1, <2>2
<1>6. ASSUME NEW k \in 1 .. n - 1
      PROVE  (left \o right)[k] = IF k < i THEN seq[k] ELSE seq[k + 1]
  <2>1. CASE k < i
    <3>1. k \in 1 .. i - 1
      BY <1>2, <2>1
    <3>2. k <= i - 1
      BY <1>2, <2>1
    <3>3. (left \o right)[k] = left[k]
      BY <3>2, <1>7
    <3> QED BY <3>1, <3>3, <1>3, <2>1
  <2>2. CASE ~(k < i)
    <3>1. k - (i - 1) \in 1 .. n - i /\ i + (k - (i - 1)) = k + 1
      BY <1>2, <2>2
    <3>2. ~(k <= i - 1)
      BY <1>2, <2>2
    <3>3. (left \o right)[k] = right[k - (i - 1)]
      BY <3>2, <1>7
    <3> QED BY <3>1, <3>3, <1>4, <2>2
  <2> QED BY <2>1, <2>2
<1> QED BY <1>1, <1>2, <1>5, <1>6 DEF n

\* Kept, as the sequence of what has been kept of ever longer prefixes.
Keeps(f, seq, S) ==
  /\ f[0] = <<>>
  /\ \A i \in 1 .. Len(seq) :
       f[i] = IF seq[i] \in S THEN Append(f[i - 1], seq[i]) ELSE f[i - 1]

LEMMA KeptPrefixes ==
  ASSUME NEW T, NEW seq \in Seq(T), NEW S
  PROVE  \E f : Keeps(f, seq, S) /\ Kept(seq, S) = f[Len(seq)]
<1> DEFINE f == CHOOSE g : g = [i \in 0 .. Len(seq) |-> KeepStep(seq, S, g, i)]
<1>1. Kept(seq, S) = f[Len(seq)]
  BY DEF Kept, KeepStep
<1>2. f = [i \in 0 .. Len(seq) |-> KeepStep(seq, S, f, i)]
  BY KeepExists
<1>3. Len(seq) \in Nat
  BY LenProperties
<1> HIDE DEF f
<1>4. \A i \in 0 .. Len(seq) : f[i] = KeepStep(seq, S, f, i)
  BY <1>2
<1>5. f[0] = <<>>
  BY <1>3, <1>4 DEF KeepStep
<1>6. ASSUME NEW i \in 1 .. Len(seq)
      PROVE  f[i] = IF seq[i] \in S THEN Append(f[i - 1], seq[i]) ELSE f[i - 1]
  BY <1>3, <1>4, <1>6 DEF KeepStep
<1> QED BY <1>1, <1>5, <1>6 DEF Keeps

\* What is kept of a prefix depends on the prefix only.
LEMMA PrefixesAgree ==
  ASSUME NEW s, NEW t, NEW S, NEW R, NEW f, NEW g, Keeps(f, s, S), Keeps(g, t, R),
         NEW n \in Nat, n <= Len(s), n <= Len(t), Len(s) \in Nat, Len(t) \in Nat,
         \A i \in 1 .. n : s[i] = t[i] /\ (s[i] \in S <=> s[i] \in R)
  PROVE  f[n] = g[n]
<1> DEFINE Bad == {i \in 0 .. n : f[i] # g[i]}
<1>1. SUFFICES ASSUME Bad # {} PROVE FALSE
  OBVIOUS
<1>2. PICK m \in Bad : \A y \in Bad : m <= y
  <2>1. Bad \in SUBSET Nat
    OBVIOUS
  <2> QED BY <1>1, <2>1, LeastElement
<1>3. m # 0
  BY <1>2 DEF Keeps
<1>4. m \in 1 .. Len(s) /\ m \in 1 .. Len(t) /\ m \in 1 .. n /\ m - 1 \in 0 .. n
  BY <1>2, <1>3
<1>5. f[m - 1] = g[m - 1]
  BY <1>2, <1>4
<1>6. f[m] = IF s[m] \in S THEN Append(f[m - 1], s[m]) ELSE f[m - 1]
  BY <1>4 DEF Keeps
<1>7. g[m] = IF t[m] \in R THEN Append(g[m - 1], t[m]) ELSE g[m - 1]
  BY <1>4 DEF Keeps
<1>8. s[m] = t[m] /\ (s[m] \in S <=> s[m] \in R)
  BY <1>4
<1>9. f[m] = g[m]
  BY <1>5, <1>6, <1>7, <1>8
<1> QED BY <1>2, <1>9

\* Only the elements of the sequence matter.
LEMMA KeptSame ==
  ASSUME NEW T, NEW seq \in Seq(T), NEW S, NEW R,
         \A i \in 1 .. Len(seq) : seq[i] \in S <=> seq[i] \in R
  PROVE  Kept(seq, S) = Kept(seq, R)
<1>1. PICK f : Keeps(f, seq, S) /\ Kept(seq, S) = f[Len(seq)]
  BY KeptPrefixes
<1>2. PICK g : Keeps(g, seq, R) /\ Kept(seq, R) = g[Len(seq)]
  BY KeptPrefixes
<1>3. Len(seq) \in Nat
  BY LenProperties
<1>4. f[Len(seq)] = g[Len(seq)]
  BY <1>1, <1>2, <1>3, PrefixesAgree
<1> QED BY <1>1, <1>2, <1>4

LEMMA KeptAppend ==
  ASSUME NEW T, NEW seq \in Seq(T), NEW x \in T, NEW S
  PROVE  Kept(Append(seq, x), S) = IF x \in S THEN Append(Kept(seq, S), x) ELSE Kept(seq, S)
<1> DEFINE longer == Append(seq, x)
           n == Len(seq)
<1>0. /\ longer \in Seq(T) /\ Len(longer) = n + 1 /\ longer[n + 1] = x
      /\ \A i \in 1 .. n : longer[i] = seq[i]
  BY AppendProperties
<1>1. PICK f : Keeps(f, seq, S) /\ Kept(seq, S) = f[n]
  BY KeptPrefixes
<1> HIDE DEF longer
<1>2. PICK g : Keeps(g, longer, S) /\ Kept(longer, S) = g[Len(longer)]
  BY <1>0, KeptPrefixes
<1>3. n \in Nat /\ Len(longer) \in Nat /\ n <= Len(longer) /\ n <= Len(seq)
  BY <1>0, LenProperties
<1>4. \A i \in 1 .. n : seq[i] = longer[i] /\ (seq[i] \in S <=> seq[i] \in S)
  BY <1>0
<1> HIDE DEF n
<1>5. f[n] = g[n]
  BY <1>1, <1>2, <1>3, <1>4, PrefixesAgree DEF n
<1>6. n + 1 \in 1 .. Len(longer) /\ (n + 1) - 1 = n
  BY <1>0, <1>3
<1>7. g[n + 1] = IF longer[n + 1] \in S THEN Append(g[(n + 1) - 1], longer[n + 1]) ELSE g[(n + 1) - 1]
  BY <1>2, <1>6 DEF Keeps
<1>8. g[n + 1] = IF x \in S THEN Append(g[n], x) ELSE g[n]
  BY <1>0, <1>6, <1>7
<1> QED BY <1>0, <1>1, <1>2, <1>5, <1>8 DEF longer

\* Erasing what is not kept anyway.
LEMMA KeptRemove ==
  ASSUME NEW T, NEW seq \in Seq(T), NEW k \in 1 .. Len(seq), NEW S, seq[k] \notin S
  PROVE  Kept(RemoveAt(seq, k), S) = Kept(seq, S)
<1> DEFINE rest == RemoveAt(seq, k)
           n == Len(seq)
<1>0. /\ rest \in Seq(T) /\ Len(rest) = n - 1
      /\ \A i \in 1 .. n - 1 : rest[i] = IF i < k THEN seq[i] ELSE seq[i + 1]
  BY RemoveAtProperties
<1> HIDE DEF rest
<1>1. PICK f : Keeps(f, seq, S) /\ Kept(seq, S) = f[n]
  BY KeptPrefixes
<1>2. PICK g : Keeps(g, rest, S) /\ Kept(rest, S) = g[n - 1]
  BY <1>0, KeptPrefixes
<1>3. n \in Nat /\ k \in 1 .. n /\ Len(rest) \in Nat
  BY <1>0, LenProperties
<1>a. \A i \in 1 .. n : f[i] = IF seq[i] \in S THEN Append(f[i - 1], seq[i]) ELSE f[i - 1]
  BY <1>1 DEF Keeps
<1>b. \A i \in 1 .. n - 1 : g[i] = IF rest[i] \in S THEN Append(g[i - 1], rest[i]) ELSE g[i - 1]
  BY <1>0, <1>2 DEF Keeps
<1> HIDE DEF n
<1>4. f[k] = f[k - 1]
  BY <1>3, <1>a
<1>5. g[k - 1] = f[k - 1]
  <2>1. k - 1 \in Nat /\ k - 1 <= Len(seq) /\ k - 1 <= Len(rest) /\ Len(seq) \in Nat
    BY <1>0, <1>3 DEF n
  <2>2. \A i \in 1 .. k - 1 : rest[i] = seq[i] /\ (rest[i] \in S <=> rest[i] \in S)
    BY <1>0, <1>3
  <2> QED BY <1>1, <1>2, <1>3, <2>1, <2>2, PrefixesAgree
<1> DEFINE Bad == {i \in k - 1 .. n - 1 : g[i] # f[i + 1]}
<1>6. Bad = {}
  <2> SUFFICES ASSUME Bad # {} PROVE FALSE
    OBVIOUS
  <2>1. PICK m \in Bad : \A y \in Bad : m <= y
    <3>1. Bad \in SUBSET Nat
      BY <1>3
    <3> QED BY <3>1, LeastElement
  <2>2. m # k - 1
    BY <1>3, <1>4, <1>5, <2>1
  <2>3. /\ m \in k .. n - 1 /\ m \in 1 .. n - 1 /\ m - 1 \in k - 1 .. n - 1 /\ m + 1 \in 1 .. n
        /\ (m + 1) - 1 = m /\ (m - 1) + 1 = m /\ ~(m < k) /\ ~(m <= m - 1)
    BY <1>3, <2>1, <2>2
  <2>4. g[m - 1] = f[(m - 1) + 1]
    BY <2>1, <2>3
  <2>5. rest[m] = seq[m + 1]
    BY <1>0, <2>3
  <2>6. g[m] = IF rest[m] \in S THEN Append(g[m - 1], rest[m]) ELSE g[m - 1]
    BY <1>b, <2>3
  <2>7. f[m + 1] = IF seq[m + 1] \in S THEN Append(f[(m + 1) - 1], seq[m + 1]) ELSE f[(m + 1) - 1]
    BY <1>a, <2>3
  <2>8. g[m] = f[m + 1]
    BY <2>3, <2>4, <2>5, <2>6, <2>7
  <2> QED BY <2>1, <2>8
<1>7. n - 1 \in k - 1 .. n - 1 /\ (n - 1) + 1 = n
  BY <1>3
<1>8. g[n - 1] = f[n]
  BY <1>6, <1>7
<1> QED BY <1>1, <1>2, <1>8 DEF rest

\* A sequence all of whose elements are kept is unchanged.
LEMMA KeptAll ==
  ASSUME NEW T, NEW seq \in Seq(T), NEW S, \A i \in 1 .. Len(seq) : seq[i] \in S
  PROVE  Kept(seq, S) = seq
<1> DEFINE n == Len(seq)
<1>1. PICK f : Keeps(f, seq, S) /\ Kept(seq, S) = f[n]
  BY KeptPrefixes
<1>2. n \in Nat
  BY LenProperties
<1> DEFINE Fits(j) == f[j] \in Seq(T) /\ Len(f[j]) = j /\ \A i \in 1 .. j : f[j][i] = seq[i]
           Bad     == {j \in 0 .. n : ~Fits(j)}
<1>3. Bad = {}
  <2> SUFFICES ASSUME Bad # {} PROVE FALSE
    OBVIOUS
  <2>1. PICK m \in Bad : \A y \in Bad : m <= y
    <3>1. Bad \in SUBSET Nat
      BY <1>2
    <3> QED BY <3>1, LeastElement
  <2>2. CASE m = 0
    <3>1. f[0] = <<>> /\ <<>> \in Seq(T) /\ Len(<<>>) = 0
      BY <1>1, EmptySeq DEF Keeps
    <3>2. Fits(0)
      BY <3>1
    <3> QED BY <2>1, <2>2, <3>2
  <2>3. CASE m # 0
    <3>1. m \in 1 .. n /\ m - 1 \in 0 .. n /\ seq[m] \in T /\ seq[m] \in S /\ ~(m <= m - 1)
      BY <1>2, <2>1, <2>3
    <3>2. Fits(m - 1)
      BY <2>1, <3>1
    <3>3. PICK x : x = f[m - 1]
      OBVIOUS
    <3>4. x \in Seq(T) /\ Len(x) = m - 1 /\ \A i \in 1 .. m - 1 : x[i] = seq[i]
      BY <3>2, <3>3
    <3>5. f[m] = Append(x, seq[m])
      BY <1>1, <3>1, <3>3 DEF Keeps
    <3> DEFINE longer == Append(x, seq[m])
    <3>6. /\ longer \in Seq(T) /\ Len(longer) = Len(x) + 1 /\ longer[Len(x) + 1] = seq[m]
          /\ \A i \in 1 .. Len(x) : longer[i] = x[i]
      BY <3>1, <3>4, AppendProperties
    <3> HIDE DEF longer
    <3>7. Len(longer) = m /\ longer[m] = seq[m] /\ \A i \in 1 .. m - 1 : longer[i] = seq[i]
      BY <3>1, <3>4, <3>6
    <3>8. \A i \in 1 .. m : longer[i] = seq[i]
      BY <3>1, <3>7
    <3>9. f[m] = longer
      BY <3>5 DEF longer
    <3>10. Fits(m)
      BY <3>6, <3>7, <3>8, <3>9
    <3> QED BY <2>1, <3>10
  <2> QED BY <2>2, <2>3
<1>4. Fits(n)
  BY <1>2, <1>3
<1>5. f[n] = seq
  BY <1>4, SeqEqual
<1> QED BY <1>1, <1>5
=============================================================================
