------------------------------ MODULE Dc42Proofs ------------------------------
(***************************************************************************)
(* The containers, for checksums and words of any width, files of any      *)
(* length and headers that declare anything: what is saved opens again as  *)
(* what was saved, an image nobody changed is saved as it was, nothing is  *)
(* left out of what is opened, and one changed word is always noticed.     *)
(***************************************************************************)
EXTENDS Dc42, FiniteSetTheorems, SequenceTheorems, WellFoundedInduction, TLAPS

-----------------------------------------------------------------------------
(***************************************************************************)
(* The checksum.                                                           *)
(***************************************************************************)
Modulus == 2 * Half
SumSet  == 0 .. Modulus - 1

\* Induction: a set of natural numbers that holds 0 and the successor of each of
\* its members holds them all (a checksum goes over the words one after the other).
LEMMA SetInduction ==
  ASSUME NEW P, P \subseteq Nat, 0 \in P, \A n \in P : n + 1 \in P
  PROVE  P = Nat
<1> SUFFICES ASSUME Nat \ P # {} PROVE FALSE
  OBVIOUS
<1> DEFINE S == Nat \ P
           T == {0 .. x : x \in S}
<1>1. IsWellFoundedOn(StrictSubsetOrdering(Nat), FiniteSubsetsOf(Nat))
  BY FS_StrictSubsetOrderingWellFounded
<1>2. T \subseteq FiniteSubsetsOf(Nat) /\ T # {}
  <2>1. ASSUME NEW x \in S PROVE 0 .. x \in FiniteSubsetsOf(Nat)
    <3>1. x \in Nat /\ 0 .. x \subseteq Nat
      OBVIOUS
    <3>2. IsFiniteSet(0 .. x)
      BY <3>1, FS_Interval
    <3> QED BY <3>1, <3>2, Zenon DEF FiniteSubsetsOf
  <2>2. PICK x \in S : TRUE
    OBVIOUS
  <2> QED BY <2>1, <2>2, Zenon
<1>3. PICK t \in T : \A u \in T : ~ (<<u, t>> \in StrictSubsetOrdering(Nat))
  BY <1>1, <1>2, WFMin, Zenon
<1>4. PICK x \in S : t = 0 .. x
  BY <1>3
<1>5. x # 0 /\ x - 1 \in Nat /\ x - 1 + 1 = x
  OBVIOUS
<1>6. x - 1 \in S
  BY <1>5
<1>7. 0 .. x - 1 \subseteq 0 .. x /\ 0 .. x - 1 # 0 .. x /\ 0 .. x - 1 \subseteq Nat /\ 0 .. x \subseteq Nat
  BY <1>5
<1>8. <<0 .. x - 1, 0 .. x>> \in StrictSubsetOrdering(Nat)
  BY <1>7, Zenon DEF StrictSubsetOrdering
<1> QED BY <1>3, <1>4, <1>6, <1>8

\* A sum a little over the modulus is brought back by taking it away once.
LEMMA Wrapped ==
  ASSUME NEW m \in Int, m > 0, NEW a \in Int, 0 <= a, a < 2 * m
  PROVE  a % m = IF a < m THEN a ELSE a - m
<1>1. CASE a < m
  BY <1>1
<1>2. CASE ~(a < m)
  <2>1. a - m \in 0 .. m - 1 /\ a = m * 1 + (a - m)
    BY <1>2
  <2> QED BY <1>2, <2>1
<1> QED BY <1>1, <1>2

\* So adding a word loses nothing of the sum, nor of the word.
LEMMA AddedTells ==
  ASSUME NEW h \in Int, h > 0, NEW s \in Int, 0 <= s, s < 2 * h, NEW r \in Int, 0 <= r, r < 2 * h,
         NEW w \in Int, 0 <= w, w < h, NEW x \in Int, 0 <= x, x < h
  PROVE  /\ (s + w) % (2 * h) \in 0 .. 2 * h - 1
         /\ s # r => (s + w) % (2 * h) # (r + w) % (2 * h)
         /\ w # x => (s + w) % (2 * h) # (s + x) % (2 * h)
<1> DEFINE m == 2 * h
<1>1. m \in Int /\ m > 0 /\ s < m /\ r < m /\ 2 * w < m /\ 2 * x < m
  OBVIOUS
<1> HIDE DEF m
<1>2. \A n \in Int : 0 <= n /\ n < 2 * m => n % m = IF n < m THEN n ELSE n - m
  BY <1>1, Wrapped
<1>3. /\ (s + w) % m = IF s + w < m THEN s + w ELSE (s + w) - m
      /\ (r + w) % m = IF r + w < m THEN r + w ELSE (r + w) - m
      /\ (s + x) % m = IF s + x < m THEN s + x ELSE (s + x) - m
  BY <1>1, <1>2
<1> DEFINE a == (s + w) % m
           b == (r + w) % m
           c == (s + x) % m
<1>4. /\ a = IF s + w < m THEN s + w ELSE (s + w) - m
      /\ b = IF r + w < m THEN r + w ELSE (r + w) - m
      /\ c = IF s + x < m THEN s + x ELSE (s + x) - m
  BY <1>3
<1> HIDE DEF a, b, c
<1>5. a \in 0 .. m - 1 /\ (s # r => a # b) /\ (w # x => a # c)
  BY <1>1, <1>4
<1> QED BY <1>5 DEF a, b, c, m

\* Rotating loses nothing of the sum.
LEMMA RotatedTells ==
  ASSUME NEW h \in Int, h > 0, NEW s \in 0 .. 2 * h - 1, NEW r \in 0 .. 2 * h - 1
  PROVE  /\ s \div 2 + (s % 2) * h \in 0 .. 2 * h - 1
         /\ s # r => s \div 2 + (s % 2) * h # r \div 2 + (r % 2) * h
<1>1. /\ s = 2 * (s \div 2) + (s % 2) /\ s % 2 \in {0, 1} /\ s \div 2 \in 0 .. h - 1
      /\ r = 2 * (r \div 2) + (r % 2) /\ r % 2 \in {0, 1} /\ r \div 2 \in 0 .. h - 1
  OBVIOUS
<1>2. /\ (s % 2) * h = (IF s % 2 = 0 THEN 0 ELSE h)
      /\ (r % 2) * h = (IF r % 2 = 0 THEN 0 ELSE h)
  BY <1>1
<1> QED BY <1>1, <1>2

\* One word is folded in reversibly: neither the sum before it nor the word can be
\* another one and give the same sum.
LEMMA FoldedTells ==
  ASSUME NEW s \in SumSet, NEW r \in SumSet, NEW w \in Words, NEW x \in Words
  PROVE  /\ Folded(s, w) \in SumSet
         /\ s # r => Folded(s, w) # Folded(r, w)
         /\ w # x => Folded(s, w) # Folded(s, x)
<1>1. Half \in Int /\ Half > 0 /\ w \in 0 .. Half - 1 /\ x \in 0 .. Half - 1
  BY Dc42Assumption
<1>2. s \in 0 .. 2 * Half - 1 /\ r \in 0 .. 2 * Half - 1
  BY DEF SumSet, Modulus
<1> DEFINE a == (s + w) % (2 * Half)
           b == (r + w) % (2 * Half)
           c == (s + x) % (2 * Half)
<1>3. a \in 0 .. 2 * Half - 1 /\ (s # r => a # b) /\ (w # x => a # c)
  BY <1>1, <1>2, AddedTells
<1>4. b \in 0 .. 2 * Half - 1 /\ c \in 0 .. 2 * Half - 1
  BY <1>1, <1>2, AddedTells
<1>5. Folded(s, w) = RotateRight(a) /\ Folded(r, w) = RotateRight(b) /\ Folded(s, x) = RotateRight(c)
  BY DEF Folded
<1> HIDE DEF a, b, c
<1>6. /\ RotateRight(a) \in 0 .. 2 * Half - 1
      /\ a # b => RotateRight(a) # RotateRight(b)
      /\ a # c => RotateRight(a) # RotateRight(c)
  BY <1>1, <1>3, <1>4, RotatedTells DEF RotateRight
<1> QED BY <1>3, <1>5, <1>6 DEF SumSet, Modulus

\* The sums after the words there are: each is the one before with a word folded in.
Folds(words, f) ==
  /\ f = [i \in 0 .. Len(words) |-> f[i]] /\ f[0] = 0
  /\ \A i \in 1 .. Len(words) : f[i] = Folded(f[i - 1], words[i])

\* There are such sums, of any number of words.
LEMMA SumsExist ==
  ASSUME NEW words \in Seq(Words)
  PROVE  \E f : Folds(words, f)
<1> DEFINE Upto(n, f) == /\ f = [i \in 0 .. n |-> f[i]] /\ f[0] = 0
                         /\ \A i \in 1 .. n : f[i] = Folded(f[i - 1], words[i])
           P == {n \in Nat : \E f : Upto(n, f)}
<1>1. 0 \in P
  <2> DEFINE f == [i \in 0 .. 0 |-> 0]
  <2>1. Upto(0, f)
    OBVIOUS
  <2> QED BY <2>1
<1>2. ASSUME NEW n \in P PROVE n + 1 \in P
  <2>1. PICK f : Upto(n, f)
    OBVIOUS
  <2> DEFINE g == [i \in 0 .. n + 1 |-> IF i = n + 1 THEN Folded(f[n], words[n + 1]) ELSE f[i]]
  <2>2. \A i \in 0 .. n : g[i] = f[i]
    OBVIOUS
  <2>3. g[n + 1] = Folded(g[n], words[n + 1]) /\ n + 1 - 1 = n /\ g[0] = 0
    BY <2>1, <2>2
  <2>4. \A i \in 1 .. n + 1 : g[i] = Folded(g[i - 1], words[i])
    <3>1. ASSUME NEW i \in 1 .. n + 1, i # n + 1 PROVE g[i] = Folded(g[i - 1], words[i])
      <4>1. i \in 1 .. n /\ i \in 0 .. n /\ i - 1 \in 0 .. n
        BY <3>1
      <4> QED BY <2>1, <2>2, <4>1
    <3>2. ASSUME NEW i \in 1 .. n + 1, i = n + 1 PROVE g[i] = Folded(g[i - 1], words[i])
      <4> HIDE DEF g
      <4> QED BY <2>3, <3>2
    <3> HIDE DEF g
    <3> QED BY <3>1, <3>2
  <2>5. g = [i \in 0 .. n + 1 |-> g[i]]
    OBVIOUS
  <2> HIDE DEF g
  <2>6. Upto(n + 1, g)
    BY <2>3, <2>4, <2>5
  <2>7. n + 1 \in Nat
    OBVIOUS
  <2> HIDE DEF Upto
  <2> QED BY <2>6, <2>7
<1> HIDE DEF P
<1>3. P = Nat
  <2>1. P \subseteq Nat
    BY DEF P
  <2> QED BY <1>1, <1>2, <2>1, SetInduction
<1>4. Len(words) \in P
  BY <1>3, LenProperties
<1> QED BY <1>4 DEF P, Folds

\* The checksum is taken from them.
LEMMA SumsFold ==
  ASSUME NEW words \in Seq(Words)
  PROVE  Folds(words, Sums(words)) /\ Checksum(words) = Sums(words)[Len(words)]
<1> DEFINE n == Len(words)
           Next1(f) == [i \in 0 .. n |-> IF i = 0 THEN 0 ELSE Folded(f[i - 1], words[i])]
<1>1. n \in Nat
  BY LenProperties
<1>2. PICK f : Folds(words, f)
  BY SumsExist
<1>3. f = Next1(f)
  BY <1>1, <1>2 DEF Folds
<1>4. Sums(words) = CHOOSE s : s = Next1(s)
  BY DEF Sums
<1> HIDE DEF n
<1>5. Sums(words) = Next1(Sums(words))
  <2> HIDE DEF Next1
  <2> QED BY <1>3, <1>4
<1> DEFINE s == Sums(words)
<1> HIDE DEF s
<1>6. s = Next1(s)
  BY <1>5 DEF s
<1>7. s[0] = 0 /\ s = [i \in 0 .. n |-> s[i]]
  BY <1>1, <1>6
<1>8. \A i \in 1 .. n : s[i] = Folded(s[i - 1], words[i])
  BY <1>1, <1>6
<1> QED BY <1>7, <1>8 DEF Folds, Checksum, s, n

\* No sum leaves its width.
LEMMA SumsInWidth ==
  ASSUME NEW words \in Seq(Words)
  PROVE  \A i \in 0 .. Len(words) : Sums(words)[i] \in SumSet
<1> DEFINE P == {n \in Nat : n <= Len(words) => Sums(words)[n] \in SumSet}
<1>1. Len(words) \in Nat /\ Folds(words, Sums(words))
  BY LenProperties, SumsFold
<1>2. 0 \in SumSet
  BY Dc42Assumption DEF SumSet, Modulus
<1>3. 0 \in P
  BY <1>1, <1>2 DEF Folds
<1>4. ASSUME NEW n \in P PROVE n + 1 \in P
  <2>1. SUFFICES ASSUME n + 1 <= Len(words) PROVE Sums(words)[n + 1] \in SumSet
    OBVIOUS
  <2>2. n + 1 \in 1 .. Len(words) /\ n + 1 - 1 = n /\ n <= Len(words)
    BY <1>1, <2>1
  <2>3. Sums(words)[n + 1] = Folded(Sums(words)[n], words[n + 1])
    BY <1>1, <2>2 DEF Folds
  <2>4. words[n + 1] \in Words
    BY <2>2, ElementOfSeq
  <2> QED BY <2>2, <2>3, <2>4, FoldedTells
<1> HIDE DEF P
<1>5. P = Nat
  <2>1. P \subseteq Nat
    BY DEF P
  <2> QED BY <1>3, <1>4, <2>1, SetInduction
<1> QED BY <1>1, <1>5 DEF P

\* Words that differ in one place have different checksums.
LEMMA OneWordTells ==
  ASSUME NEW a \in Seq(Words), NEW b \in Seq(Words), Len(a) = Len(b), NEW j \in 1 .. Len(a),
         a[j] # b[j], \A i \in 1 .. Len(a) : i # j => a[i] = b[i]
  PROVE  Checksum(a) # Checksum(b)
<1> DEFINE s == Sums(a)
           t == Sums(b)
           P == {n \in Nat : n <= Len(a) => (n < j => s[n] = t[n]) /\ (n >= j => s[n] # t[n])}
<1>1. /\ Len(a) \in Nat /\ Folds(a, s) /\ Folds(b, t)
      /\ Checksum(a) = s[Len(a)] /\ Checksum(b) = t[Len(a)]
  BY LenProperties, SumsFold
<1>2. \A i \in 0 .. Len(a) : s[i] \in SumSet /\ t[i] \in SumSet
  BY SumsInWidth
<1> HIDE DEF s, t
<1>3. 0 \in P
  BY <1>1 DEF Folds
<1>4. ASSUME NEW n \in P PROVE n + 1 \in P
  <2>1. SUFFICES ASSUME n + 1 <= Len(a)
                 PROVE  (n + 1 < j => s[n + 1] = t[n + 1]) /\ (n + 1 >= j => s[n + 1] # t[n + 1])
    OBVIOUS
  <2>2. n + 1 \in 1 .. Len(a) /\ n + 1 - 1 = n /\ n \in 0 .. Len(a)
    BY <1>1, <2>1
  <2>3. s[n + 1] = Folded(s[n], a[n + 1]) /\ t[n + 1] = Folded(t[n], b[n + 1])
    <3>1. /\ \A i \in 1 .. Len(a) : s[i] = Folded(s[i - 1], a[i])
          /\ \A i \in 1 .. Len(a) : t[i] = Folded(t[i - 1], b[i])
      BY <1>1 DEF Folds
    <3> QED BY <2>2, <3>1
  <2>4. a[n + 1] \in Words /\ b[n + 1] \in Words /\ s[n] \in SumSet /\ t[n] \in SumSet
    BY <1>2, <2>2, ElementOfSeq
  <2>5. CASE n + 1 < j
    <3>1. s[n] = t[n] /\ a[n + 1] = b[n + 1]
      BY <2>2, <2>5
    <3> QED BY <2>3, <2>5, <3>1
  <2>6. CASE n + 1 = j
    <3>1. s[n] = t[n] /\ a[n + 1] # b[n + 1]
      BY <2>2, <2>6
    <3> QED BY <2>3, <2>4, <2>6, <3>1, FoldedTells
  <2>7. CASE n + 1 > j
    <3>1. s[n] # t[n] /\ a[n + 1] = b[n + 1]
      BY <2>2, <2>7
    <3> QED BY <2>3, <2>4, <2>7, <3>1, FoldedTells
  <2> QED BY <2>2, <2>5, <2>6, <2>7
<1> HIDE DEF P
<1>5. P = Nat
  <2>1. P \subseteq Nat
    BY DEF P
  <2> QED BY <1>3, <1>4, <2>1, SetInduction
<1>6. Len(a) \in P
  BY <1>1, <1>5
<1> QED BY <1>1, <1>6 DEF P

-----------------------------------------------------------------------------
(***************************************************************************)
(* Cutting a file into data and tags, and putting them together.           *)
(***************************************************************************)
\* Data and tags are words of the file, as many as declared.
LEMMA Cut ==
  ASSUME NEW s \in Seq(Words), NEW a \in Nat, NEW b \in Nat, a + b <= Len(s)
  PROVE  /\ SubSeq(s, 1, a) \in Seq(Words) /\ Len(SubSeq(s, 1, a)) = a
         /\ \A i \in 1 .. a : SubSeq(s, 1, a)[i] = s[i]
         /\ SubSeq(s, a + 1, a + b) \in Seq(Words) /\ Len(SubSeq(s, a + 1, a + b)) = b
         /\ \A i \in 1 .. b : SubSeq(s, a + 1, a + b)[i] = s[a + i]
<1>1. Len(s) \in Nat /\ \A i \in 1 .. Len(s) : s[i] \in Words
  BY LenProperties, ElementOfSeq
<1>2. /\ SubSeq(s, 1, a) \in Seq(Words) /\ Len(SubSeq(s, 1, a)) = a
      /\ \A i \in 1 .. a : SubSeq(s, 1, a)[i] = s[i]
  <2>1. \A i \in 1 .. a : s[i] \in Words
    BY <1>1
  <2>2. /\ SubSeq(s, 1, a) \in Seq(Words) /\ Len(SubSeq(s, 1, a)) = IF 1 <= a THEN a - 1 + 1 ELSE 0
        /\ \A i \in 1 .. a - 1 + 1 : SubSeq(s, 1, a)[i] = s[1 + i - 1]
    BY <2>1, SubSeqProperties
  <2>3. a - 1 + 1 = a /\ (IF 1 <= a THEN a - 1 + 1 ELSE 0) = a /\ \A i \in 1 .. a : 1 + i - 1 = i
    OBVIOUS
  <2> QED BY <2>2, <2>3
<1>3. /\ SubSeq(s, a + 1, a + b) \in Seq(Words) /\ Len(SubSeq(s, a + 1, a + b)) = b
      /\ \A i \in 1 .. b : SubSeq(s, a + 1, a + b)[i] = s[a + i]
  <2> DEFINE m == a + 1
             n == a + b
  <2>1. m \in Int /\ n \in Int /\ \A i \in m .. n : s[i] \in Words
    BY <1>1
  <2>2. n - m + 1 = b /\ (IF m <= n THEN n - m + 1 ELSE 0) = b /\ \A i \in 1 .. b : m + i - 1 = a + i
    OBVIOUS
  <2> HIDE DEF m, n
  <2>3. /\ SubSeq(s, m, n) \in Seq(Words) /\ Len(SubSeq(s, m, n)) = IF m <= n THEN n - m + 1 ELSE 0
        /\ \A i \in 1 .. n - m + 1 : SubSeq(s, m, n)[i] = s[m + i - 1]
    BY <2>1, SubSeqProperties
  <2>4. /\ SubSeq(s, m, n) \in Seq(Words) /\ Len(SubSeq(s, m, n)) = b
        /\ \A i \in 1 .. b : SubSeq(s, m, n)[i] = s[a + i]
    BY <2>2, <2>3
  <2> QED BY <2>4 DEF m, n
<1> QED BY <1>2, <1>3

\* What was cut is put together again.
LEMMA CutJoins ==
  ASSUME NEW s \in Seq(Words), NEW a \in Nat, NEW b \in Nat, a + b = Len(s)
  PROVE  SubSeq(s, 1, a) \o SubSeq(s, a + 1, a + b) = s
<1> DEFINE x == SubSeq(s, 1, a)
           y == SubSeq(s, a + 1, a + b)
<1>1. /\ x \in Seq(Words) /\ Len(x) = a /\ \A i \in 1 .. a : x[i] = s[i]
      /\ y \in Seq(Words) /\ Len(y) = b /\ \A i \in 1 .. b : y[i] = s[a + i]
  BY Cut
<1> HIDE DEF x, y
<1>2. /\ x \o y \in Seq(Words) /\ Len(x \o y) = a + b
      /\ \A i \in 1 .. a + b : (x \o y)[i] = IF i <= a THEN x[i] ELSE y[i - a]
  <2>1. x \in Seq(Words) /\ y \in Seq(Words)
    BY <1>1
  <2>2. /\ x \o y \in Seq(Words) /\ Len(x \o y) = Len(x) + Len(y)
        /\ \A i \in 1 .. Len(x) + Len(y) :
             (x \o y)[i] = IF i <= Len(x) THEN x[i] ELSE y[i - Len(x)]
    BY <2>1, ConcatProperties
  <2> QED BY <1>1, <2>2
<1>3. ASSUME NEW i \in 1 .. a + b PROVE (x \o y)[i] = s[i]
  <2>1. CASE i <= a
    BY <1>1, <1>2, <2>1
  <2>2. CASE ~(i <= a)
    <3>1. i - a \in 1 .. b /\ a + (i - a) = i
      BY <2>2
    <3> QED BY <1>1, <1>2, <2>2, <3>1
  <2> QED BY <2>1, <2>2
<1>4. x \o y = s
  <2> DEFINE z == x \o y
  <2>1. z \in Seq(Words) /\ Len(z) = Len(s) /\ \A i \in 1 .. Len(z) : z[i] = s[i]
    BY <1>2, <1>3
  <2> HIDE DEF z
  <2>2. z = s
    BY <2>1, SeqEqual
  <2> QED BY <2>2 DEF z
<1> QED BY <1>4 DEF x, y

\* What was put together is cut into the same again.
LEMMA JoinCuts ==
  ASSUME NEW s \in Seq(Words), NEW t \in Seq(Words)
  PROVE  /\ s \o t \in Seq(Words) /\ Len(s \o t) = Len(s) + Len(t)
         /\ SubSeq(s \o t, 1, Len(s)) = s
         /\ SubSeq(s \o t, Len(s) + 1, Len(s) + Len(t)) = t
<1> DEFINE z == s \o t
           a == Len(s)
           b == Len(t)
<1>1. a \in Nat /\ b \in Nat
  BY LenProperties
<1>2. /\ z \in Seq(Words) /\ Len(z) = a + b
      /\ \A i \in 1 .. a + b : z[i] = IF i <= a THEN s[i] ELSE t[i - a]
  BY ConcatProperties
<1> HIDE DEF z
<1>3. /\ SubSeq(z, 1, a) \in Seq(Words) /\ Len(SubSeq(z, 1, a)) = a
      /\ \A i \in 1 .. a : SubSeq(z, 1, a)[i] = z[i]
      /\ SubSeq(z, a + 1, a + b) \in Seq(Words) /\ Len(SubSeq(z, a + 1, a + b)) = b
      /\ \A i \in 1 .. b : SubSeq(z, a + 1, a + b)[i] = z[a + i]
  <2> HIDE DEF a, b
  <2> QED BY <1>1, <1>2, Cut
<1>4. SubSeq(z, 1, a) = s
  <2> DEFINE x == SubSeq(z, 1, a)
  <2>1. x \in Seq(Words) /\ Len(x) = Len(s) /\ \A i \in 1 .. Len(x) : x[i] = s[i]
    BY <1>1, <1>2, <1>3
  <2> HIDE DEF x, a, b
  <2>2. x = s
    BY <2>1, SeqEqual
  <2> QED BY <2>2 DEF x
<1>5. SubSeq(z, a + 1, a + b) = t
  <2> DEFINE x == SubSeq(z, a + 1, a + b)
  <2>1. ASSUME NEW i \in 1 .. b PROVE x[i] = t[i]
    <3>1. a + i \in 1 .. a + b /\ ~(a + i <= a) /\ (a + i) - a = i
      BY <1>1
    <3> HIDE DEF a, b
    <3> QED BY <1>2, <1>3, <3>1
  <2>2. x \in Seq(Words) /\ Len(x) = Len(t) /\ \A i \in 1 .. Len(x) : x[i] = t[i]
    BY <1>3, <2>1
  <2> HIDE DEF x, a, b
  <2>3. x = t
    BY <2>2, SeqEqual
  <2> QED BY <2>3 DEF x
<1> QED BY <1>2, <1>4, <1>5 DEF z, a, b

-----------------------------------------------------------------------------
(***************************************************************************)
(* Opening and saving.                                                     *)
(***************************************************************************)
KnownNames == Names \cup {[len |-> 0, pad |-> 0]}
HeadType   == [magic : BOOLEAN, name : KnownNames, dataSize : Nat, tagSize : Nat,
               dataSum : Nat, tagSum : Nat, format : Nat]
FileType   == [head : HeadType, body : Seq(Words), whole : BOOLEAN, sig : {"none", "MFS", "HFS"}]
ImgType    == [container : Formats, boot : HeadType, data : Seq(Words), tags : Seq(Words),
               name : Nat, format : Nat]

\* What is held of an image was found in its file, but for the words of the data
\* and a bare image's boot blocks, which callers change.
Holds(i, f) ==
  /\ i \in ImgType
  /\ Len(i.data) + Len(i.tags) = Len(f.body)
  /\ i.container = "raw" => i.tags = <<>> /\ i.name = 0 /\ i.format = 0 /\ f.sig = "MFS"
  /\ i.container = "dc42" =>
       /\ HeaderOk(f) /\ SumsOk(f)
       /\ i.boot = ZeroHead /\ i.name = f.head.name.len /\ i.name <= MaxNameLen
       /\ i.format = f.head.format /\ i.tags = TagsOf(f.head, f.body)

\* The file that is saved for i where f was opened.
SavedFile(i, f) ==
  [f EXCEPT !.head = IF i.container = "raw" THEN i.boot ELSE HeaderFor(i), !.body = i.data \o i.tags]

Inv ==
  /\ found \in FileType
  /\ step \in {"closed", "open"} => file = found
  /\ step \in {"open", "saved", "damaged"} => Holds(img, found)
  /\ step = "saved" => file = SavedFile(img, found)
  /\ step = "damaged" => HeaderOk(file) /\ ~SumsOk(file)
  /\ step = "reopened damaged" /\ want # "raw" => res = "Dc42"

\* A checksum is a number.
LEMMA ChecksumType ==
  ASSUME NEW words \in Seq(Words)
  PROVE  Checksum(words) \in Nat /\ TagChecksum(words) \in Nat
<1>1. \A s \in Seq(Words) : Checksum(s) \in SumSet
  <2>1. ASSUME NEW s \in Seq(Words) PROVE Checksum(s) \in SumSet
    <3>1. Len(s) \in 0 .. Len(s)
      BY LenProperties
    <3> QED BY <3>1, SumsInWidth DEF Checksum
  <2> QED BY <2>1
<1>2. SumSet \subseteq Nat
  BY Dc42Assumption DEF SumSet, Modulus
<1>3. CASE Len(words) <= Skip
  BY <1>1, <1>2, <1>3 DEF TagChecksum
<1>4. CASE ~(Len(words) <= Skip)
  <2>1. Skip \in Nat /\ Len(words) \in Nat /\ Len(words) - Skip \in Nat
    BY <1>4, Dc42Assumption, LenProperties
  <2> DEFINE n == Len(words) - Skip
  <2>2. Skip + n = Len(words) /\ n \in Nat
    BY <2>1
  <2> HIDE DEF n
  <2>3. SubSeq(words, Skip + 1, Skip + n) \in Seq(Words)
    <3>1. Skip + n <= Len(words)
      BY <2>1, <2>2
    <3> QED BY <2>1, <2>2, <3>1, Cut
  <2> QED BY <1>1, <1>2, <1>4, <2>2, <2>3 DEF TagChecksum
<1> QED BY <1>1, <1>2, <1>3, <1>4

\* The headers a file may have are headers.
LEMMA HeadsType ==
  ASSUME NEW b \in Seq(Words), NEW h \in Heads(b) \cup BootHeads(b)
  PROVE  h \in HeadType
<1> DEFINE Header(m, n, d, t, data, tags) ==
             [magic |-> m, name |-> n, dataSize |-> d, tagSize |-> t, format |-> 1,
              dataSum |-> data, tagSum |-> tags]
           OrWrong(sum) == {sum, (sum + 1) % (2 * Half)}
<1>1. ZeroHead \in HeadType
  BY DEF ZeroHead, HeadType, KnownNames
<1>2. CASE h \in {Header(m, n, d, t, 0, 0) : m \in BOOLEAN, n \in Names, d \in Sizes, t \in Sizes}
  BY <1>2, Dc42Assumption DEF HeadType, KnownNames
<1>3. ASSUME NEW d \in 0 .. Len(b), NEW m \in BOOLEAN, NEW n \in Names,
             NEW x \in OrWrong(Checksum(SubSeq(b, 1, d))),
             NEW y \in OrWrong(TagChecksum(SubSeq(b, d + 1, Len(b)))),
             h = Header(m, n, d, Len(b) - d, x, y)
      PROVE  h \in HeadType
  <2>1. Len(b) \in Nat /\ d \in Nat /\ Len(b) - d \in Nat /\ d + (Len(b) - d) = Len(b)
    BY LenProperties
  <2>2. SubSeq(b, 1, d) \in Seq(Words) /\ SubSeq(b, d + 1, Len(b)) \in Seq(Words)
    <3> DEFINE e == Len(b) - d
    <3>1. e \in Nat /\ d \in Nat /\ d + e <= Len(b) /\ d + e = Len(b)
      BY <2>1
    <3> HIDE DEF e
    <3>2. SubSeq(b, 1, d) \in Seq(Words) /\ SubSeq(b, d + 1, d + e) \in Seq(Words)
      BY <3>1, Cut
    <3> QED BY <3>1, <3>2
  <2>3. Checksum(SubSeq(b, 1, d)) \in Nat /\ TagChecksum(SubSeq(b, d + 1, Len(b))) \in Nat
    BY <2>2, ChecksumType
  <2>4. \A s \in Nat : (s + 1) % (2 * Half) \in Nat
    <3>1. 2 * Half \in Nat /\ 2 * Half > 0
      BY Dc42Assumption
    <3> DEFINE k == 2 * Half
    <3> HIDE DEF k
    <3>2. \A s \in Nat : (s + 1) % k \in Nat
      BY <3>1 DEF k
    <3> QED BY <3>2 DEF k
  <2>5. x \in Nat /\ y \in Nat
    BY <2>3, <2>4
  <2> QED BY <1>3, <2>1, <2>5 DEF HeadType, KnownNames
<1>4. Heads(b) = {Header(m, n, d, t, 0, 0) : m \in BOOLEAN, n \in Names, d \in Sizes, t \in Sizes}
                 \cup UNION {{Header(m, n, d, Len(b) - d, x, y) :
                               m \in BOOLEAN, n \in Names,
                               x \in OrWrong(Checksum(SubSeq(b, 1, d))),
                               y \in OrWrong(TagChecksum(SubSeq(b, d + 1, Len(b))))} :
                             d \in 0 .. Len(b)}
  BY DEF Heads
<1>5. h \in Heads(b) => h \in HeadType
  <2> HIDE DEF Header, OrWrong
  <2> QED BY <1>2, <1>3, <1>4
<1> QED BY <1>1, <1>5 DEF BootHeads

\* What opens is held as it was found.
LEMMA OpenedHolds ==
  ASSUME NEW f \in FileType, NEW c \in Formats \cup {"unknown"}, Verdict(f, c) = "Ok"
  PROVE  Holds(OpenedAs(f, c), f)
<1>0. ZeroHead \in HeadType
  BY DEF ZeroHead, HeadType, KnownNames
<1>1. c \in Formats
  BY DEF Verdict, Formats
<1>2. CASE c = "raw"
  <2>1. f.sig = "MFS"
    BY <1>2 DEF Verdict
  <2>2. OpenedAs(f, c) = [container |-> "raw", boot |-> f.head, data |-> f.body, tags |-> <<>>,
                          name |-> 0, format |-> 0]
    BY <1>2 DEF OpenedAs
  <2>3. <<>> \in Seq(Words) /\ Len(<<>>) = 0 /\ Len(f.body) \in Nat /\ f.body \in Seq(Words) /\ f.head \in HeadType
    BY EmptySeq, LenProperties DEF FileType
  <2>4. Len(f.body) + 0 = Len(f.body)
    BY <2>3
  <2> QED BY <2>1, <2>2, <2>3, <2>4 DEF Holds, ImgType, Formats
<1>3. CASE c = "dc42"
  <2>1. HeaderOk(f) /\ SumsOk(f)
    BY <1>3 DEF Verdict
  <2> DEFINE d == f.head.dataSize
             t == f.head.tagSize
  <2>2. /\ d \in Nat /\ t \in Nat /\ d + t = Len(f.body) /\ f.body \in Seq(Words) /\ Len(f.body) \in Nat
        /\ f.head.name.len \in Nat /\ f.head.name.len <= MaxNameLen /\ f.head.format \in Nat
    BY <2>1, LenProperties, Dc42Assumption DEF FileType, HeadType, HeaderOk, KnownNames
  <2>3. /\ DataOf(f.head, f.body) = SubSeq(f.body, 1, d)
        /\ TagsOf(f.head, f.body) = SubSeq(f.body, d + 1, d + t)
    BY DEF DataOf, TagsOf
  <2>4. /\ DataOf(f.head, f.body) \in Seq(Words) /\ Len(DataOf(f.head, f.body)) = d
        /\ TagsOf(f.head, f.body) \in Seq(Words) /\ Len(TagsOf(f.head, f.body)) = t
    <3> HIDE DEF d, t
    <3> QED BY <2>2, <2>3, Cut
  <2>5. OpenedAs(f, c) = [container |-> "dc42", boot |-> ZeroHead, data |-> DataOf(f.head, f.body),
                          tags |-> TagsOf(f.head, f.body), name |-> f.head.name.len, format |-> f.head.format]
    BY <1>3 DEF OpenedAs
  <2> QED BY <1>0, <2>1, <2>2, <2>4, <2>5 DEF Holds, ImgType, Formats
<1> QED BY <1>1, <1>2, <1>3 DEF Formats

\* What is saved is a file of the container it was opened in, with the same held.
LEMMA SavedOpens ==
  ASSUME NEW i, NEW f \in FileType, Holds(i, f)
  PROVE  /\ Verdict(SavedFile(i, f), i.container) = "Ok"
         /\ OpenedAs(SavedFile(i, f), i.container) = i
         /\ i.container = "dc42" => HeaderOk(SavedFile(i, f)) /\ SumsOk(SavedFile(i, f))
<1> DEFINE s == SavedFile(i, f)
<1>1. /\ i \in ImgType /\ i.data \in Seq(Words) /\ i.tags \in Seq(Words) /\ i.container \in Formats
      /\ i = [container |-> i.container, boot |-> i.boot, data |-> i.data, tags |-> i.tags,
              name |-> i.name, format |-> i.format]
  BY DEF Holds, ImgType
<1>2. /\ s.body = i.data \o i.tags /\ s.sig = f.sig
      /\ s.head = IF i.container = "raw" THEN i.boot ELSE HeaderFor(i)
  BY DEF SavedFile, FileType
<1> HIDE DEF s
<1>3. CASE i.container = "raw"
  <2>1. s.body = i.data
    BY <1>1, <1>2, <1>3, ConcatEmptySeq DEF Holds
  <2>2. OpenedAs(s, "raw") = [container |-> "raw", boot |-> s.head, data |-> s.body, tags |-> <<>>,
                              name |-> 0, format |-> 0]
    BY DEF OpenedAs
  <2>3. i.tags = <<>> /\ i.name = 0 /\ i.format = 0 /\ s.sig = "MFS" /\ s.head = i.boot
    BY <1>2, <1>3 DEF Holds
  <2>4. OpenedAs(s, "raw") = i
    BY <1>1, <1>3, <2>1, <2>2, <2>3
  <2>5. Verdict(s, "raw") = "Ok"
    BY <2>3 DEF Verdict
  <2> QED BY <1>3, <2>4, <2>5 DEF s
<1>4. CASE i.container = "dc42"
  <2> DEFINE h == HeaderFor(i)
  <2>1. /\ h.magic /\ h.name.len = i.name /\ h.dataSize = Len(i.data) /\ h.tagSize = Len(i.tags)
        /\ h.dataSum = Checksum(i.data) /\ h.tagSum = TagChecksum(i.tags) /\ h.format = i.format
    BY DEF HeaderFor
  <2>2. s.head = h
    BY <1>2, <1>4
  <2> HIDE DEF h
  <2>3. /\ Len(s.body) = Len(i.data) + Len(i.tags)
        /\ SubSeq(s.body, 1, Len(i.data)) = i.data
        /\ SubSeq(s.body, Len(i.data) + 1, Len(i.data) + Len(i.tags)) = i.tags
    BY <1>1, <1>2, JoinCuts
  <2>4. DataOf(h, s.body) = i.data /\ TagsOf(h, s.body) = i.tags
    BY <2>1, <2>3 DEF DataOf, TagsOf
  <2>5. HeaderOk(s)
    BY <1>4, <2>1, <2>2, <2>3 DEF HeaderOk, Holds
  <2>6. SumsOk(s)
    BY <2>1, <2>2, <2>4 DEF SumsOk
  <2>7. OpenedAs(s, "dc42") = [container |-> "dc42", boot |-> ZeroHead, data |-> i.data,
                               tags |-> i.tags, name |-> i.name, format |-> i.format]
    BY <2>1, <2>2, <2>4 DEF OpenedAs
  <2>8. i.boot = ZeroHead
    BY <1>4 DEF Holds
  <2>9. OpenedAs(s, "dc42") = i
    BY <1>1, <1>4, <2>7, <2>8
  <2>10. Verdict(s, "dc42") = "Ok"
    BY <2>5, <2>6 DEF Verdict
  <2> QED BY <1>4, <2>5, <2>6, <2>9, <2>10 DEF s
<1> QED BY <1>1, <1>3, <1>4 DEF Formats

\* A file whose words differ in one place that the checksums cover has wrong ones.
LEMMA DamageShows ==
  ASSUME NEW f, f.body \in Seq(Words), HeaderOk(f), SumsOk(f),
         f.head.dataSize \in Nat, f.head.tagSize \in Nat,
         NEW g, g.head = f.head, g.body \in Seq(Words), Len(g.body) = Len(f.body),
         NEW i \in 1 .. Len(f.body), g.body[i] # f.body[i],
         \A j \in 1 .. Len(f.body) : j # i => g.body[j] = f.body[j],
         i <= f.head.dataSize \/ i > f.head.dataSize + Skip
  PROVE  HeaderOk(g) /\ ~SumsOk(g)
<1> DEFINE d == f.head.dataSize
           t == f.head.tagSize
<1>1. HeaderOk(g) /\ d + t = Len(f.body) /\ d \in Nat /\ t \in Nat
  BY DEF HeaderOk
<1> DEFINE a == SubSeq(f.body, 1, d)
           b == SubSeq(g.body, 1, d)
           u == SubSeq(f.body, d + 1, d + t)
           v == SubSeq(g.body, d + 1, d + t)
<1>2. /\ a \in Seq(Words) /\ Len(a) = d /\ \A j \in 1 .. d : a[j] = f.body[j]
      /\ u \in Seq(Words) /\ Len(u) = t /\ \A j \in 1 .. t : u[j] = f.body[d + j]
  <2> HIDE DEF d, t
  <2>1. d + t <= Len(f.body)
    BY <1>1, LenProperties
  <2> QED BY <1>1, <2>1, Cut
<1>3. /\ b \in Seq(Words) /\ Len(b) = d /\ \A j \in 1 .. d : b[j] = g.body[j]
      /\ v \in Seq(Words) /\ Len(v) = t /\ \A j \in 1 .. t : v[j] = g.body[d + j]
  <2> HIDE DEF d, t
  <2>1. d + t <= Len(g.body)
    BY <1>1, LenProperties
  <2> QED BY <1>1, <2>1, Cut
<1>4. /\ SumsOk(g) => f.head.dataSum = Checksum(b) /\ f.head.tagSum = TagChecksum(v)
      /\ f.head.dataSum = Checksum(a) /\ f.head.tagSum = TagChecksum(u)
  BY DEF SumsOk, DataOf, TagsOf
<1>5. Skip \in Nat
  BY Dc42Assumption
<1>6. i <= d \/ i > d + Skip
  OBVIOUS
<1> HIDE DEF d, t, a, b, u, v
<1>7. CASE i <= d
  <2>1. i \in 1 .. d /\ \A j \in 1 .. d : j \in 1 .. Len(f.body)
    BY <1>1, <1>7
  <2>2. a[i] # b[i]
    BY <1>2, <1>3, <2>1
  <2>3. ASSUME NEW j \in 1 .. d, j # i PROVE a[j] = b[j]
    BY <1>2, <1>3, <2>1, <2>3
  <2>4. Checksum(a) # Checksum(b)
    <3>1. a \in Seq(Words) /\ b \in Seq(Words) /\ Len(a) = d /\ Len(b) = d
      BY <1>2, <1>3
    <3>2. i \in 1 .. Len(a) /\ Len(a) = Len(b) /\ \A j \in 1 .. Len(a) : j # i => a[j] = b[j]
      BY <2>1, <2>3, <3>1
    <3> QED BY <2>2, <3>1, <3>2, OneWordTells
  <2> QED BY <1>1, <1>4, <2>4
<1>8. CASE i > d + Skip
  <2> DEFINE n == t - Skip
             x == SubSeq(u, Skip + 1, Skip + n)
             y == SubSeq(v, Skip + 1, Skip + n)
             k == i - d - Skip
  <2>1. /\ n \in Nat /\ Skip + n = t /\ k \in 1 .. n /\ Skip + k = i - d /\ t > Skip
    BY <1>1, <1>5, <1>8
  <2>2. /\ x \in Seq(Words) /\ Len(x) = n /\ \A j \in 1 .. n : x[j] = u[Skip + j]
        /\ y \in Seq(Words) /\ Len(y) = n /\ \A j \in 1 .. n : y[j] = v[Skip + j]
    <3> HIDE DEF n
    <3>1. Skip + n <= Len(u) /\ Skip + n <= Len(v) /\ u \in Seq(Words) /\ v \in Seq(Words)
      BY <1>1, <1>2, <1>3, <2>1
    <3>2. n \in Nat
      BY <2>1
    <3>3. x \in Seq(Words) /\ Len(x) = n /\ \A j \in 1 .. n : x[j] = u[Skip + j]
      BY <1>5, <3>1, <3>2, Cut
    <3>4. y \in Seq(Words) /\ Len(y) = n /\ \A j \in 1 .. n : y[j] = v[Skip + j]
      BY <1>5, <3>1, <3>2, Cut
    <3> QED BY <3>3, <3>4
  <2>3. TagChecksum(u) = Checksum(x) /\ TagChecksum(v) = Checksum(y)
    <3> HIDE DEF n
    <3>1. Len(u) = Skip + n /\ Len(v) = Skip + n
      BY <1>2, <1>3, <2>1
    <3>2. ~(Skip + n <= Skip)
      BY <1>5, <2>1
    <3> QED BY <3>1, <3>2 DEF TagChecksum
  <2> HIDE DEF n, x, y, k
  <2>4. ASSUME NEW j \in 1 .. n
        PROVE  Skip + j \in 1 .. t /\ d + (Skip + j) \in 1 .. d + t /\ (j # k => d + (Skip + j) # i)
    BY <1>1, <1>5, <2>1, <2>4
  <2>5. ASSUME NEW j \in 1 .. n
        PROVE  x[j] = f.body[d + (Skip + j)] /\ y[j] = g.body[d + (Skip + j)]
    BY <1>2, <1>3, <2>2, <2>4
  <2>6. d + (Skip + k) = i
    BY <1>1, <1>5, <2>1
  <2>7. x[k] # y[k] /\ \A j \in 1 .. n : j # k => x[j] = y[j]
    BY <1>1, <2>1, <2>4, <2>5, <2>6
  <2>8. Checksum(x) # Checksum(y)
    BY <2>1, <2>2, <2>7, OneWordTells
  <2> QED BY <1>1, <1>4, <2>3, <2>8
<1> QED BY <1>6, <1>7, <1>8

\* At first a file is closed, and is a file.
LEMMA FirstInv == Init => Inv
<1> SUFFICES ASSUME Init PROVE Inv
  OBVIOUS
<1>1. file \in FileType
  <2>1. ASSUME NEW b \in Bodies \cup RawBodies, NEW h \in Heads(b) \cup BootHeads(b), NEW w \in BOOLEAN,
               NEW s \in {"none", "MFS", "HFS"}, file = [head |-> h, body |-> b, whole |-> w, sig |-> s]
        PROVE  file \in FileType
    <3>1. b \in Seq(Words)
      BY Dc42Assumption
    <3>2. h \in HeadType
      BY <3>1, HeadsType
    <3> QED BY <2>1, <3>1, <3>2 DEF FileType
  <2>2. CASE \E b \in Bodies : \E h \in Heads(b) :
               file = [head |-> h, body |-> b, whole |-> TRUE, sig |-> "none"]
    <3>1. PICK b \in Bodies : \E h \in Heads(b) :
                 file = [head |-> h, body |-> b, whole |-> TRUE, sig |-> "none"]
      BY <2>2
    <3>2. PICK h \in Heads(b) : file = [head |-> h, body |-> b, whole |-> TRUE, sig |-> "none"]
      BY <3>1
    <3>3. b \in Bodies \cup RawBodies /\ h \in Heads(b) \cup BootHeads(b) /\ TRUE \in BOOLEAN
          /\ "none" \in {"none", "MFS", "HFS"}
      OBVIOUS
    <3> QED BY <2>1, <3>2, <3>3, Zenon
  <2>3. CASE \E b \in RawBodies, w \in BOOLEAN, s \in {"MFS", "HFS"} : \E h \in BootHeads(b) :
               file = [head |-> h, body |-> b, whole |-> w, sig |-> s]
    <3>1. PICK b \in RawBodies, w \in BOOLEAN, s \in {"MFS", "HFS"} : \E h \in BootHeads(b) :
                 file = [head |-> h, body |-> b, whole |-> w, sig |-> s]
      BY <2>3
    <3>2. PICK h \in BootHeads(b) : file = [head |-> h, body |-> b, whole |-> w, sig |-> s]
      BY <3>1
    <3>3. b \in Bodies \cup RawBodies /\ h \in Heads(b) \cup BootHeads(b)
          /\ s \in {"none", "MFS", "HFS"}
      OBVIOUS
    <3> QED BY <2>1, <3>2, <3>3, Zenon
  <2> QED BY <2>2, <2>3 DEF Init
<1> QED BY <1>1 DEF Init, Inv

\* What is opened is held as it was found, and damage is refused.
LEMMA OpenInv == Inv /\ Open => Inv'
<1> SUFFICES ASSUME Inv, Open PROVE Inv'
  OBVIOUS
<1> DEFINE c == IF want' = "any" THEN Detected(file) ELSE want'
<1>1. /\ step \in {"closed", "saved", "damaged"} /\ want' \in {"any"} \cup Formats
      /\ res' = Verdict(file, c) /\ img' = IF res' = "Ok" THEN OpenedAs(file, c) ELSE img
      /\ step' = CASE step = "closed"  -> IF res' = "Ok" THEN "open" ELSE "refused"
                   [] step = "saved"   -> "reopened"
                   [] step = "damaged" -> "reopened damaged"
      /\ file' = file /\ found' = found
  BY DEF Open
<1>2. c \in Formats \cup {"unknown"}
  BY <1>1 DEF Detected, Formats
<1>3. want' # "raw" /\ HeaderOk(file) => c = "dc42"
  BY <1>1 DEF Detected, Formats
<1> HIDE DEF c
<1>4. CASE step = "closed"
  <2>1. file = found /\ found \in FileType
    BY <1>4 DEF Inv
  <2>2. step' = IF res' = "Ok" THEN "open" ELSE "refused"
    BY <1>1, <1>4
  <2>3. res' = "Ok" => Holds(img', found')
    BY <1>1, <1>2, <2>1, OpenedHolds
  <2> QED BY <1>1, <2>1, <2>2, <2>3 DEF Inv
<1>5. CASE step = "saved"
  <2>1. step' = "reopened"
    BY <1>1, <1>5
  <2> QED BY <1>1, <2>1 DEF Inv
<1>6. CASE step = "damaged"
  <2>1. step' = "reopened damaged"
    BY <1>1, <1>6
  <2>2. HeaderOk(file) /\ ~SumsOk(file)
    BY <1>6 DEF Inv
  <2>3. want' # "raw" => res' = "Dc42"
    BY <1>1, <1>3, <2>2 DEF Verdict
  <2> QED BY <1>1, <2>1, <2>3 DEF Inv
<1> QED BY <1>1, <1>4, <1>5, <1>6

\* Callers change words of what is held, and not how many there are.
LEMMA EditInv == Inv /\ (EditData \/ SetBootBlocks) => Inv'
<1> SUFFICES ASSUME Inv, EditData \/ SetBootBlocks PROVE Inv'
  OBVIOUS
<1>1. step = "open" /\ step' = "open" /\ file' = file /\ found' = found /\ file = found /\ found \in FileType
  BY DEF Inv, EditData, SetBootBlocks
<1>2. Holds(img, found) /\ img \in ImgType
  BY <1>1 DEF Inv, Holds
<1>3. Holds(img', found)
  <2>1. CASE EditData
    <3>1. PICK i \in DOMAIN img.data, w \in Words : img' = [img EXCEPT !.data[i] = w]
      BY <2>1 DEF EditData
    <3> DEFINE e == [img.data EXCEPT ![i] = w]
    <3>2. img.data \in Seq(Words)
      BY <1>2 DEF ImgType
    <3>3. e \in Seq(Words) /\ Len(e) = Len(img.data)
      BY <3>2, ExceptSeq
    <3> HIDE DEF e
    <3>4. img' = [img EXCEPT !.data = e]
      BY <3>1 DEF e
    <3>5. img' \in ImgType
      BY <1>2, <3>3, <3>4 DEF ImgType
    <3>6. /\ img'.container = img.container /\ img'.boot = img.boot /\ img'.tags = img.tags
          /\ img'.name = img.name /\ img'.format = img.format /\ Len(img'.data) = Len(img.data)
      BY <1>2, <3>3, <3>4 DEF ImgType
    <3> QED BY <1>2, <3>5, <3>6 DEF Holds
  <2>2. CASE SetBootBlocks
    <3>1. PICK h \in BootHeads(img.data) : img.container = "raw" /\ img' = [img EXCEPT !.boot = h]
      BY <2>2 DEF SetBootBlocks
    <3>2. img.data \in Seq(Words)
      BY <1>2 DEF ImgType
    <3>3. h \in HeadType
      BY <3>2, HeadsType
    <3>4. img' \in ImgType
      BY <1>2, <3>1, <3>3 DEF ImgType
    <3>5. /\ img'.container = "raw" /\ img'.tags = img.tags
          /\ img'.name = img.name /\ img'.format = img.format /\ img'.data = img.data
      BY <1>2, <3>1 DEF ImgType
    <3> QED BY <1>2, <3>1, <3>4, <3>5 DEF Holds
  <2> QED BY <2>1, <2>2
<1> QED BY <1>1, <1>3 DEF Inv

\* Saved is what is held.
LEMMA SaveInv == Inv /\ Save => Inv'
<1> SUFFICES ASSUME Inv, Save PROVE Inv'
  OBVIOUS
<1>1. /\ step = "open" /\ step' = "saved" /\ file' = Written(img) /\ img' = img /\ found' = found
      /\ want' = want /\ res' = res
  BY DEF Save
<1>2. file = found /\ found \in FileType /\ Holds(img, found)
  BY <1>1 DEF Inv
<1>3. file' = SavedFile(img, found)
  BY <1>1, <1>2 DEF Written, SavedFile
<1> QED BY <1>1, <1>2, <1>3 DEF Inv

\* A changed word leaves the header what it was, and its checksums wrong.
LEMMA DamageInv == Inv /\ Damage => Inv'
<1> SUFFICES ASSUME Inv, Damage PROVE Inv'
  OBVIOUS
<1>1. /\ step = "saved" /\ img.container = "dc42" /\ step' = "damaged" /\ img' = img /\ found' = found
      /\ want' = want /\ res' = res
  BY DEF Damage
<1>2. /\ found \in FileType /\ Holds(img, found) /\ file = SavedFile(img, found)
      /\ HeaderOk(file) /\ SumsOk(file)
  BY <1>1, SavedOpens DEF Inv
<1>3. PICK i \in DOMAIN file.body, w \in Words :
        /\ w # file.body[i]
        /\ i <= file.head.dataSize \/ i > file.head.dataSize + Skip
        /\ file' = [file EXCEPT !.body[i] = w]
  BY DEF Damage
<1>4. /\ img.data \in Seq(Words) /\ img.tags \in Seq(Words)
      /\ file = [found EXCEPT !.head = HeaderFor(img), !.body = img.data \o img.tags]
      /\ file.head = HeaderFor(img) /\ file.body = img.data \o img.tags
  BY <1>1, <1>2 DEF Holds, ImgType, SavedFile, FileType
<1>5. /\ file.body \in Seq(Words) /\ file.head.dataSize \in Nat /\ file.head.tagSize \in Nat
      /\ DOMAIN file.body = 1 .. Len(file.body)
  BY <1>4, JoinCuts, LenProperties DEF HeaderFor
<1>6. /\ file'.head = file.head /\ file'.body = [file.body EXCEPT ![i] = w]
  BY <1>2, <1>3, <1>4 DEF FileType
<1>7. /\ file'.body \in Seq(Words) /\ Len(file'.body) = Len(file.body) /\ file'.body[i] = w
      /\ \A j \in 1 .. Len(file.body) : j # i => file'.body[j] = file.body[j]
  <2> DEFINE b == file.body
             e == [b EXCEPT ![i] = w]
  <2>1. b \in Seq(Words) /\ i \in 1 .. Len(b) /\ DOMAIN b = 1 .. Len(b)
    BY <1>5
  <2>2. e \in Seq(Words) /\ Len(e) = Len(b) /\ e[i] = w /\ \A j \in 1 .. Len(b) : j # i => e[j] = b[j]
    <3> HIDE DEF b
    <3> QED BY <2>1, ExceptSeq
  <2> HIDE DEF e
  <2> QED BY <1>6, <2>2 DEF e
<1>8. HeaderOk(file') /\ ~SumsOk(file')
  <2> DEFINE f == file
             g == file'
  <2>1. /\ f.body \in Seq(Words) /\ HeaderOk(f) /\ SumsOk(f)
        /\ f.head.dataSize \in Nat /\ f.head.tagSize \in Nat
        /\ g.head = f.head /\ g.body \in Seq(Words) /\ Len(g.body) = Len(f.body)
        /\ i \in 1 .. Len(f.body) /\ g.body[i] # f.body[i]
        /\ i <= f.head.dataSize \/ i > f.head.dataSize + Skip
    BY <1>2, <1>3, <1>5, <1>6, <1>7
  <2>2. \A j \in 1 .. Len(f.body) : j # i => g.body[j] = f.body[j]
    BY <1>7
  <2> HIDE DEF f, g
  <2>3. HeaderOk(g) /\ ~SumsOk(g)
    BY <2>1, <2>2, DamageShows
  <2> QED BY <2>3 DEF f, g
<1> QED BY <1>1, <1>2, <1>8 DEF Inv

\* The invariant holds of every file that is opened, edited, saved and opened again.
LEMMA InvAlways == Spec => []Inv
<1>1. Inv /\ [Next]_vars => Inv'
  <2>1. Inv /\ UNCHANGED vars => Inv'
    BY DEF Inv, vars
  <2> QED BY <2>1, OpenInv, EditInv, SaveInv, DamageInv DEF Next
<1> QED BY <1>1, FirstInv, PTL DEF Spec

-----------------------------------------------------------------------------
\* validate_header: whatever a header declares, every word of a file that opens is
\* in its data or in its tags, and stays there while it is edited.
THEOREM NothingIsLeftOut == Spec => []NothingLeftOut
<1>1. Inv => NothingLeftOut
  BY DEF Inv, Holds, NothingLeftOut
<1> QED BY <1>1, InvAlways, PTL

\* checksum(): one word changed in the data or in the checksummed tags of a saved
\* container, of any length, is noticed when it is opened again as what it is.
THEOREM DamageIsDetected == Spec => []DamageDetected
<1>1. Inv => DamageDetected
  BY DEF Inv, DamageDetected
<1> QED BY <1>1, InvAlways, PTL

\* to_bytes after open: an image nobody changed is saved byte for byte as it was,
\* where nothing but zeros stands behind the name in its header.
THEOREM UntouchedIsKept ==
  ASSUME \A n \in Names : n.pad = 0
  PROVE  Spec => []UntouchedBytesKept
<1>1. Inv => UntouchedBytesKept
  <2> SUFFICES ASSUME Inv, step = "saved", img = OpenedAs(found, img.container) PROVE file = found
    BY DEF UntouchedBytesKept
  <2>1. found \in FileType /\ Holds(img, found) /\ file = SavedFile(img, found)
    BY DEF Inv
  <2>2. found = [found EXCEPT !.head = found.head, !.body = found.body]
    BY <2>1 DEF FileType
  <2>3. CASE img.container = "raw"
    <3>1. img.boot = found.head /\ img.data = found.body /\ img.tags = <<>>
      BY <2>3 DEF OpenedAs
    <3>2. img.data \o img.tags = found.body
      BY <2>1, <3>1, ConcatEmptySeq DEF FileType
    <3> QED BY <2>1, <2>2, <2>3, <3>1, <3>2 DEF SavedFile
  <2>4. CASE img.container = "dc42"
    <3>1. /\ HeaderOk(found) /\ SumsOk(found) /\ found.head \in HeadType /\ found.body \in Seq(Words)
      BY <2>1, <2>4 DEF Holds, FileType
    <3>2. /\ img.data = DataOf(found.head, found.body) /\ img.tags = TagsOf(found.head, found.body)
          /\ img.name = found.head.name.len /\ img.format = found.head.format
      BY <2>4 DEF OpenedAs
    <3>3. found.head.dataSize \in Nat /\ found.head.tagSize \in Nat
          /\ found.head.dataSize + found.head.tagSize = Len(found.body)
      BY <3>1 DEF HeaderOk, HeadType
    <3>4. /\ img.data \o img.tags = found.body
          /\ Len(img.data) = found.head.dataSize /\ Len(img.tags) = found.head.tagSize
      <4> DEFINE d == found.head.dataSize
                 t == found.head.tagSize
                 b == found.body
      <4>1. d \in Nat /\ t \in Nat /\ d + t = Len(b) /\ b \in Seq(Words)
        BY <3>1, <3>3
      <4>2. img.data = SubSeq(b, 1, d) /\ img.tags = SubSeq(b, d + 1, d + t)
        BY <3>2 DEF DataOf, TagsOf
      <4> HIDE DEF d, t, b
      <4>3. /\ SubSeq(b, 1, d) \o SubSeq(b, d + 1, d + t) = b
            /\ Len(SubSeq(b, 1, d)) = d /\ Len(SubSeq(b, d + 1, d + t)) = t
        <5>1. d + t <= Len(b)
          BY <4>1, LenProperties
        <5> QED BY <4>1, <5>1, Cut, CutJoins
      <4> QED BY <4>2, <4>3 DEF d, t, b
    <3>5. found.head.name = [len |-> found.head.name.len, pad |-> 0]
      BY <3>1, Dc42Assumption DEF HeadType, KnownNames
    <3>6. found.head.dataSum = Checksum(img.data) /\ found.head.tagSum = TagChecksum(img.tags)
      BY <3>1, <3>2 DEF SumsOk
    <3>7. found.head.magic = TRUE
      BY <3>1 DEF HeaderOk, HeadType
    <3>8. HeaderFor(img) = found.head
      BY <3>1, <3>2, <3>4, <3>5, <3>6, <3>7 DEF HeaderFor, HeadType
    <3> QED BY <2>1, <2>2, <2>4, <3>4, <3>8 DEF SavedFile
  <2> QED BY <2>1, <2>3, <2>4 DEF Holds, ImgType, Formats
<1> QED BY <1>1, InvAlways, PTL

\* save_to and open: what is saved opens again as exactly what was saved.  Only a
\* bare image may have to be told, as MustBeTold says.
THEOREM SavedReopens == Spec => SaveReopens
<1>1. Inv /\ [Next]_vars =>
        [step = "saved" /\ step' = "reopened" =>
           (want' = img.container \/ (want' = "any" /\ ~MustBeTold) => res' = "Ok" /\ img' = img)]_vars
  <2> SUFFICES ASSUME Inv, Next, step = "saved", step' = "reopened",
                      want' = img.container \/ (want' = "any" /\ ~MustBeTold)
               PROVE  res' = "Ok" /\ img' = img
    OBVIOUS
  <2>1. found \in FileType /\ Holds(img, found) /\ file = SavedFile(img, found)
    BY DEF Inv
  <2>2. Open
    BY DEF Next, EditData, SetBootBlocks, Save, Damage
  <2> DEFINE c == IF want' = "any" THEN Detected(file) ELSE want'
  <2>3. res' = Verdict(file, c) /\ img' = IF res' = "Ok" THEN OpenedAs(file, c) ELSE img
    BY <2>2 DEF Open
  <2>4. img.container \in Formats
    BY <2>1 DEF Holds, ImgType
  <2>5. c = img.container
    <3>1. CASE want' = img.container
      BY <2>4, <3>1 DEF Formats
    <3>2. CASE want' = "any" /\ ~MustBeTold
      <4>1. CASE img.container = "raw"
        <5>1. ~HeaderOk(file) /\ file.whole
          BY <3>2, <4>1 DEF MustBeTold
        <5>2. file.sig = "MFS"
          BY <2>1, <4>1 DEF Holds, SavedFile, FileType
        <5> QED BY <3>2, <4>1, <5>1, <5>2 DEF Detected
      <4>2. CASE img.container = "dc42"
        <5>1. HeaderOk(file)
          BY <2>1, <4>2, SavedOpens
        <5> QED BY <3>2, <4>2, <5>1 DEF Detected
      <4> QED BY <2>4, <4>1, <4>2 DEF Formats
    <3> QED BY <3>1, <3>2
  <2> HIDE DEF c
  <2> QED BY <2>1, <2>3, <2>5, SavedOpens
<1> QED BY <1>1, InvAlways, PTL DEF Spec, SaveReopens
=============================================================================
