------------------------------- MODULE DataFacts -------------------------------
(***************************************************************************)
(* The least and the greatest element of a set of naturals exist.  The     *)
(* proofs need it wherever the code takes the first match of a sequence    *)
(* (SelectInSeq is defined by Min) or a neighbour in an ordered map.       *)
(* Then: pieces of a sequence and sequences put together (FlattenSeq), and *)
(* induction over a range of numbers.                                      *)
(***************************************************************************)
EXTENDS Naturals, Sequences, SequencesExt, FiniteSetsExt, SequenceTheorems,
        WellFoundedInduction, TLAPS

\* A nonempty set of naturals has a least element.
LEMMA MinOfNat ==
  ASSUME NEW S \in SUBSET Nat, S # {}
  PROVE  Min(S) \in S /\ \A y \in S : Min(S) <= y
<1>. DEFINE lt == {ss \in Nat \X Nat : ss[1] < ss[2]}
<1>1. IsWellFoundedOn(lt, Nat)
  BY NatLessThanWellFounded, Zenon DEF OpToRel
<1>2. PICK x \in S : \A y \in S : <<y, x>> \notin lt
  BY <1>1, WFMin, Zenon
<1>3. \A y \in S : x <= y
  <2>. SUFFICES ASSUME NEW y \in S  PROVE x <= y
    OBVIOUS
  <2>1. x \in Nat /\ y \in Nat
    OBVIOUS
  <2>2. ~(y < x)
    BY <1>2, <2>1
  <2>. QED
    BY <2>1, <2>2
<1>. QED
  BY <1>3 DEF Min

\* What is in the set and not above anything in it is the least.
LEMMA MinUnique ==
  ASSUME NEW S \in SUBSET Nat, NEW m \in S, \A y \in S : m <= y
  PROVE  Min(S) = m
<1>1. Min(S) \in S /\ Min(S) <= m
  BY MinOfNat
<1>2. m <= Min(S)
  BY <1>1
<1>3. m \in Nat /\ Min(S) \in Nat
  BY <1>1
<1>. QED
  BY <1>1, <1>2, <1>3

\* One that is bounded has a greatest.
LEMMA MaxOfNat ==
  ASSUME NEW n \in Nat, NEW S \in SUBSET (0 .. n), S # {}
  PROVE  Max(S) \in S /\ \A y \in S : y <= Max(S)
<1>. DEFINE T == {n - x : x \in S}
<1>1. T \in SUBSET Nat
  <2>. SUFFICES ASSUME NEW x \in S  PROVE n - x \in Nat
    OBVIOUS
  <2>1. x \in 0 .. n
    OBVIOUS
  <2>. QED
    BY <2>1
<1>2. T # {}
  OBVIOUS
<1>. HIDE DEF T
<1>3. Min(T) \in T /\ \A y \in T : Min(T) <= y
  BY <1>1, <1>2, MinOfNat
<1>4. PICK x \in S : Min(T) = n - x
  BY <1>3 DEF T
<1>5. ASSUME NEW y \in S  PROVE y <= x
  <2>1. x \in 0 .. n /\ y \in 0 .. n
    OBVIOUS
  <2>2. n - x <= n - y
    BY <1>3, <1>4 DEF T
  <2>. QED
    BY <2>1, <2>2
<1>. QED
  BY <1>5 DEF Max
-----------------------------------------------------------------------------
(* A recursive function of the library is what its steps make it: the      *)
(* induction is over a least counterexample.                               *)

\* FlattenSeq puts sequences together one after the other.
LEMMA FlattenSteps ==
  ASSUME NEW seqs, Len(seqs) \in Nat \ {0}, NEW w,
         w[1] = seqs[1],
         \A i \in 2 .. Len(seqs) : w[i] = w[i - 1] \o seqs[i]
  PROVE  FlattenSeq(seqs) = w[Len(seqs)]
<1>. DEFINE n == Len(seqs)
            Step(f) == [i \in 1 .. n |-> IF i = 1 THEN seqs[i] ELSE f[i - 1] \o seqs[i]]
            v == [i \in 1 .. n |-> w[i]]
            g == CHOOSE f : f = Step(f)
<1>1. n \in Nat /\ n # 0
  OBVIOUS
<1>2. v = Step(v)
  <2>1. ASSUME NEW i \in 1 .. n
        PROVE  v[i] = IF i = 1 THEN seqs[i] ELSE v[i - 1] \o seqs[i]
    <3>1. CASE i = 1
      BY <3>1
    <3>2. CASE i # 1
      <4>1. i \in 2 .. n /\ i - 1 \in 1 .. n
        BY <1>1, <3>2
      <4>. QED
        BY <3>2, <4>1
    <3>. QED
      BY <3>1, <3>2
  <2>. QED
    BY <2>1
<1>3. g = Step(g)
  <2>. HIDE DEF v, Step
  <2>. QED
    BY <1>2, Zenon
<1>4. g[1] = seqs[1] /\ \A i \in 2 .. n : g[i] = g[i - 1] \o seqs[i]
  <2>1. \A i \in 1 .. n : g[i] = IF i = 1 THEN seqs[i] ELSE g[i - 1] \o seqs[i]
    <3>. HIDE DEF g
    <3>. QED
      BY <1>3
  <2>. HIDE DEF g, Step, v
  <2>2. 1 \in 1 .. n
    BY <1>1
  <2>3. \A i \in 2 .. n : i \in 1 .. n /\ i # 1
    BY <1>1
  <2>. QED
    BY <2>1, <2>2, <2>3, Zenon
<1>5. FlattenSeq(seqs) = g[n]
  <2>. HIDE DEF g
  <2>. QED
    BY <1>1, Zenon DEF FlattenSeq, g
<1>. HIDE DEF g, v, Step, n
<1>6. \A i \in 1 .. n : g[i] = w[i]
  <2>. DEFINE Bad == {i \in 1 .. n : g[i] # w[i]}
  <2>. SUFFICES ASSUME Bad # {}  PROVE FALSE
    OBVIOUS
  <2>1. Bad \in SUBSET Nat
    BY <1>1
  <2>. DEFINE m == Min(Bad)
  <2>. HIDE DEF Bad
  <2>2. m \in Bad /\ \A y \in Bad : m <= y
    BY <2>1, MinOfNat
  <2>3. m \in 1 .. n /\ g[m] # w[m]
    BY <2>2 DEF Bad
  <2>. HIDE DEF m
  <2>4. m # 1
    BY <1>4, <2>3
  <2>5. m \in 2 .. n /\ m - 1 \in 1 .. n /\ ~(m <= m - 1)
    BY <1>1, <2>3, <2>4
  <2>6. g[m - 1] = w[m - 1]
    BY <2>2, <2>5 DEF Bad
  <2>. QED
    BY <1>4, <2>3, <2>5, <2>6 DEF n
<1>. QED
  BY <1>1, <1>5, <1>6 DEF n

\* There is a sequence of the partial results.
LEMMA FlattenPartial ==
  ASSUME NEW S, NEW seqs \in Seq(Seq(S)), seqs # <<>>
  PROVE  \E w : /\ w[1] = seqs[1]
                /\ \A i \in 2 .. Len(seqs) : w[i] = w[i - 1] \o seqs[i]
                /\ \A i \in 1 .. Len(seqs) : w[i] \in Seq(S)
<1>. DEFINE n == Len(seqs)
            Steps(w, m) == /\ w[1] = seqs[1]
                           /\ \A i \in 2 .. m : w[i] = w[i - 1] \o seqs[i]
                           /\ \A i \in 1 .. m : w[i] \in Seq(S)
            Bad == {m \in 1 .. n : ~\E w : Steps(w, m)}
<1>1. n \in Nat /\ \A i \in 1 .. n : seqs[i] \in Seq(S)
  BY LenProperties, ElementOfSeq
<1>2. n # 0
  BY EmptySeq
<1>3. Bad = {}
  <2>. SUFFICES ASSUME Bad # {}  PROVE FALSE
    OBVIOUS
  <2>. HIDE DEF Steps
  <2>1. Bad \in SUBSET Nat
    BY <1>1
  <2>. DEFINE m == Min(Bad)
  <2>. HIDE DEF Bad
  <2>2. m \in Bad /\ \A y \in Bad : m <= y
    BY <2>1, MinOfNat
  <2>. HIDE DEF m
  <2>3. m \in 1 .. n /\ ~\E w : Steps(w, m)
    BY <2>2 DEF Bad
  <2>4. CASE m = 1
    <3>1. PICK w : w = [i \in 1 .. 1 |-> seqs[1]]
      OBVIOUS
    <3>2. Steps(w, m)
      <4>. USE DEF Steps
      <4>1. w[1] = seqs[1] /\ seqs[1] \in Seq(S) /\ 1 .. m = {1} /\ 2 .. m = {}
        BY <1>1, <2>3, <2>4, <3>1
      <4>. QED
        BY <4>1
    <3>. QED
      BY <2>3, <3>2
  <2>5. CASE m # 1
    <3>1. m - 1 \in 1 .. n /\ ~(m <= m - 1) /\ m \in Nat
      BY <1>1, <2>3, <2>5
    <3>2. m - 1 \notin Bad
      BY <2>2, <3>1
    <3>3. PICK w : Steps(w, m - 1)
      BY <3>1, <3>2 DEF Bad
    <3>4. PICK v : v = [i \in 1 .. m |-> IF i = m THEN w[m - 1] \o seqs[m] ELSE w[i]]
      OBVIOUS
    <3>. USE DEF Steps
    <3>5. \A i \in 1 .. m - 1 : v[i] = w[i]
      BY <2>3, <3>1, <3>4
    <3>6. v[m] = w[m - 1] \o seqs[m]
      <4>1. m \in 1 .. m
        BY <3>1, <2>3
      <4>. QED
        BY <3>4, <4>1, Zenon
    <3>7. w[m - 1] \in Seq(S) /\ seqs[m] \in Seq(S)
      BY <1>1, <2>3, <3>1, <3>3
    <3>8. v[m] \in Seq(S)
      BY <3>6, <3>7, ConcatProperties
    <3>9. v[1] = seqs[1]
      BY <3>1, <3>3, <3>5
    <3>10. ASSUME NEW i \in 2 .. m  PROVE v[i] = v[i - 1] \o seqs[i]
      <4>1. CASE i = m
        <5>1. m - 1 \in 1 .. m - 1
          BY <3>1, <4>1
        <5>. QED
          BY <3>5, <3>6, <4>1, <5>1
      <4>2. CASE i # m
        <5>1. i \in 1 .. m - 1 /\ i - 1 \in 1 .. m - 1 /\ i \in 2 .. m - 1
          BY <3>1, <4>2
        <5>. QED
          BY <3>3, <3>5, <5>1
      <4>. QED
        BY <4>1, <4>2
    <3>11. ASSUME NEW i \in 1 .. m  PROVE v[i] \in Seq(S)
      <4>1. i = m \/ i \in 1 .. m - 1
        BY <3>1
      <4>. QED
        BY <3>3, <3>5, <3>8, <4>1
    <3>12. Steps(v, m)
      BY <3>9, <3>10, <3>11
    <3>. QED
      BY <2>3, <3>12
  <2>. QED
    BY <2>4, <2>5
<1>4. n \in 1 .. n
  BY <1>1, <1>2
<1>5. \E w : Steps(w, n)
  BY <1>3, <1>4
<1>. QED
  BY <1>5

\* Sequences of elements of a set, put together, are one.
LEMMA FlattenTyped ==
  ASSUME NEW S, NEW seqs \in Seq(Seq(S))
  PROVE  FlattenSeq(seqs) \in Seq(S)
<1>1. CASE seqs = <<>>
  <2>1. Len(seqs) = 0
    BY <1>1
  <2>2. FlattenSeq(seqs) = seqs
    BY <2>1 DEF FlattenSeq
  <2>. QED
    BY <1>1, <2>2, EmptySeq
<1>2. CASE seqs # <<>>
  <2>1. PICK w : /\ w[1] = seqs[1]
                 /\ \A i \in 2 .. Len(seqs) : w[i] = w[i - 1] \o seqs[i]
                 /\ \A i \in 1 .. Len(seqs) : w[i] \in Seq(S)
    BY <1>2, FlattenPartial
  <2>2. Len(seqs) \in Nat \ {0} /\ Len(seqs) \in 1 .. Len(seqs)
    BY <1>2, EmptySeq
  <2>3. FlattenSeq(seqs) = w[Len(seqs)]
    BY <2>1, <2>2, FlattenSteps
  <2>. QED
    BY <2>1, <2>2, <2>3
<1>. QED
  BY <1>1, <1>2

\* One more sequence is put behind the others.
LEMMA FlattenAppend ==
  ASSUME NEW S, NEW seqs \in Seq(Seq(S)), NEW last \in Seq(S)
  PROVE  FlattenSeq(Append(seqs, last)) = FlattenSeq(seqs) \o last
<1>. DEFINE more == Append(seqs, last)
            n == Len(seqs)
<1>1. /\ n \in Nat /\ more \in Seq(Seq(S)) /\ Len(more) = n + 1
      /\ \A i \in 1 .. n : more[i] = seqs[i]
      /\ more[n + 1] = last
  BY AppendProperties, LenProperties
<1>. HIDE DEF more
<1>2. CASE seqs = <<>>
  <2>1. n = 0 /\ Len(more) = 1 /\ more[1] = last
    BY <1>1, <1>2
  <2>2. FlattenSeq(seqs) = <<>>
    BY <1>2, <2>1 DEF FlattenSeq
  <2>3. PICK w : w = [i \in 1 .. 1 |-> last]
    OBVIOUS
  <2>4. w[1] = more[1] /\ 2 .. Len(more) = {}
    BY <2>1, <2>3
  <2>5. FlattenSeq(more) = w[Len(more)]
    <3>1. Len(more) \in Nat \ {0}
      BY <2>1
    <3>2. \A i \in 2 .. Len(more) : w[i] = w[i - 1] \o more[i]
      BY <2>4
    <3>. QED
      BY <2>4, <3>1, <3>2, FlattenSteps
  <2>6. <<>> \o last = last
    BY ConcatEmptySeq
  <2>. QED
    BY <2>1, <2>2, <2>4, <2>5, <2>6 DEF more
<1>3. CASE seqs # <<>>
  <2>1. PICK w : /\ w[1] = seqs[1]
                 /\ \A i \in 2 .. n : w[i] = w[i - 1] \o seqs[i]
                 /\ \A i \in 1 .. n : w[i] \in Seq(S)
    BY <1>3, FlattenPartial
  <2>2. n \in Nat \ {0}
    BY <1>3, EmptySeq
  <2>3. FlattenSeq(seqs) = w[n]
    BY <2>1, <2>2, FlattenSteps
  <2>4. PICK v : v = [i \in 1 .. n + 1 |-> IF i = n + 1 THEN w[n] \o last ELSE w[i]]
    OBVIOUS
  <2>5. /\ v[n + 1] = w[n] \o last
        /\ \A i \in 1 .. n : v[i] = w[i]
    BY <2>2, <2>4
  <2>6. v[1] = more[1]
    <3>1. 1 \in 1 .. n
      BY <2>2
    <3>2. v[1] = w[1] /\ more[1] = seqs[1]
      BY <1>1, <2>5, <3>1
    <3>. QED
      BY <2>1, <3>2
  <2>7. ASSUME NEW i \in 2 .. Len(more)  PROVE v[i] = v[i - 1] \o more[i]
    <3>1. CASE i = n + 1
      <4>1. i - 1 = n /\ n \in 1 .. n
        BY <2>2, <3>1
      <4>. QED
        BY <1>1, <2>5, <3>1, <4>1
    <3>2. CASE i # n + 1
      <4>1. i \in 2 .. n /\ i \in 1 .. n /\ i - 1 \in 1 .. n
        BY <1>1, <3>2
      <4>. QED
        BY <1>1, <2>1, <2>5, <4>1
    <3>. QED
      BY <3>1, <3>2
  <2>8. FlattenSeq(more) = v[n + 1]
    <3>1. Len(more) \in Nat \ {0} /\ Len(more) = n + 1
      BY <1>1
    <3>2. \A i \in 2 .. Len(more) : v[i] = v[i - 1] \o more[i]
      BY <2>7
    <3>. HIDE DEF n
    <3>. QED
      BY <2>6, <3>1, <3>2, FlattenSteps
  <2>. QED
    BY <2>3, <2>5, <2>8 DEF more
<1>. QED
  BY <1>2, <1>3

-----------------------------------------------------------------------------
\* The subsequence of one element.
LEMMA SubSeqOfOne ==
  ASSUME NEW S, NEW s \in Seq(S), NEW m \in 1 .. Len(s)
  PROVE  SubSeq(s, m, m) = <<s[m]>>
<1>1. m \in Nat /\ m \in m .. Len(s) /\ m - 1 < m /\ m - 1 \in Int
  BY LenProperties
<1>2. SubSeq(s, m, m) = SubSeq(s, m, m - 1) \o <<s[m]>>
  BY <1>1, SubSeqRecursiveSecond
<1>3. SubSeq(s, m, m - 1) = <<>>
  BY <1>1, SubSeqEmpty
<1>4. s[m] \in S /\ <<s[m]>> \in Seq(S)
  BY <1>1
<1>. QED
  BY <1>2, <1>3, <1>4, ConcatEmptySeq

\* What is where in three sequences in a row.
LEMMA ThreeInARow ==
  ASSUME NEW S, NEW a \in Seq(S), NEW b \in Seq(S), NEW c \in Seq(S)
  PROVE  /\ a \o b \o c \in Seq(S)
         /\ Len(a \o b \o c) = Len(a) + Len(b) + Len(c)
         /\ \A i \in 1 .. Len(a) : (a \o b \o c)[i] = a[i]
         /\ \A i \in 1 .. Len(b) : (a \o b \o c)[Len(a) + i] = b[i]
         /\ \A i \in 1 .. Len(c) : (a \o b \o c)[Len(a) + Len(b) + i] = c[i]
<1>. DEFINE ab == a \o b
<1>1. Len(a) \in Nat /\ Len(b) \in Nat /\ Len(c) \in Nat
  OBVIOUS
<1>2. /\ ab \in Seq(S) /\ Len(ab) = Len(a) + Len(b)
      /\ \A i \in 1 .. Len(a) + Len(b) :
           ab[i] = IF i <= Len(a) THEN a[i] ELSE b[i - Len(a)]
  BY ConcatProperties
<1>. HIDE DEF ab
<1>3. /\ ab \o c \in Seq(S) /\ Len(ab \o c) = Len(ab) + Len(c)
      /\ \A i \in 1 .. Len(ab) + Len(c) :
           (ab \o c)[i] = IF i <= Len(ab) THEN ab[i] ELSE c[i - Len(ab)]
  <2>1. ab \in Seq(S)
    BY <1>2
  <2>. QED
    BY <2>1, ConcatProperties, Zenon
<1>4. ASSUME NEW i \in 1 .. Len(a)  PROVE (ab \o c)[i] = a[i]
  <2>1. i \in 1 .. Len(ab) + Len(c) /\ i <= Len(ab) /\ i \in 1 .. Len(a) + Len(b) /\ i <= Len(a)
    BY <1>1, <1>2
  <2>. QED
    BY <1>2, <1>3, <2>1
<1>5. ASSUME NEW i \in 1 .. Len(b)  PROVE (ab \o c)[Len(a) + i] = b[i]
  <2>1. /\ Len(a) + i \in 1 .. Len(ab) + Len(c) /\ Len(a) + i <= Len(ab)
        /\ Len(a) + i \in 1 .. Len(a) + Len(b) /\ ~(Len(a) + i <= Len(a))
        /\ (Len(a) + i) - Len(a) = i
    BY <1>1, <1>2
  <2>. QED
    BY <1>2, <1>3, <2>1
<1>6. ASSUME NEW i \in 1 .. Len(c)  PROVE (ab \o c)[Len(a) + Len(b) + i] = c[i]
  <2>1. /\ Len(a) + Len(b) + i \in 1 .. Len(ab) + Len(c) /\ ~(Len(a) + Len(b) + i <= Len(ab))
        /\ (Len(a) + Len(b) + i) - Len(ab) = i
    BY <1>1, <1>2
  <2>. QED
    BY <1>3, <2>1
<1>. QED
  BY <1>2, <1>3, <1>4, <1>5, <1>6 DEF ab
-----------------------------------------------------------------------------
\* Induction, over a set of numbers.
LEMMA UpTo ==
  ASSUME NEW n \in Nat, NEW Good, 0 \in Good,
         \A i \in 1 .. n : i - 1 \in Good => i \in Good
  PROVE  \A i \in 0 .. n : i \in Good
<1>. DEFINE Bad == {i \in 0 .. n : i \notin Good}
<1>. SUFFICES ASSUME Bad # {}  PROVE FALSE
  OBVIOUS
<1>1. Bad \in SUBSET Nat
  OBVIOUS
<1>. DEFINE m == Min(Bad)
<1>. HIDE DEF Bad
<1>2. m \in Bad /\ \A y \in Bad : m <= y
  BY <1>1, MinOfNat
<1>. HIDE DEF m
<1>3. m \in 0 .. n /\ m \notin Good /\ m # 0
  BY <1>2 DEF Bad
<1>4. m \in 1 .. n /\ m - 1 \in 0 .. n /\ ~(m <= m - 1)
  BY <1>3
<1>5. m - 1 \in Good
  BY <1>2, <1>4 DEF Bad
<1>. QED
  BY <1>3, <1>4, <1>5

\* A subsequence, and what follows it.
LEMMA SubSeqJoin ==
  ASSUME NEW S, NEW s \in Seq(S), NEW a \in 0 .. Len(s), NEW b \in a .. Len(s), NEW c \in b .. Len(s)
  PROVE  SubSeq(s, a + 1, b) \o SubSeq(s, b + 1, c) = SubSeq(s, a + 1, c)
<1>. DEFINE l == SubSeq(s, a + 1, b)
            r == SubSeq(s, b + 1, c)
            w == SubSeq(s, a + 1, c)
<1>1. Len(s) \in Nat /\ a \in Nat /\ b \in Nat /\ c \in Nat /\ a <= b /\ b <= c /\ c <= Len(s)
  BY LenProperties
<1>2. /\ l \in Seq(S) /\ Len(l) = b - a /\ \A i \in 1 .. b - a : l[i] = s[a + i]
      /\ r \in Seq(S) /\ Len(r) = c - b /\ \A i \in 1 .. c - b : r[i] = s[b + i]
      /\ w \in Seq(S) /\ Len(w) = c - a /\ \A i \in 1 .. c - a : w[i] = s[a + i]
  <2>1. ASSUME NEW x \in Nat, NEW y \in Nat, x <= y, y <= Len(s)
        PROVE  /\ SubSeq(s, x + 1, y) \in Seq(S) /\ Len(SubSeq(s, x + 1, y)) = y - x
               /\ \A i \in 1 .. y - x : SubSeq(s, x + 1, y)[i] = s[x + i]
    <3>1. \A i \in x + 1 .. y : s[i] \in S
      BY <1>1, <2>1, ElementOfSeq
    <3>2. x + 1 \in Int /\ y \in Int /\ y - (x + 1) + 1 = y - x
      BY <2>1
    <3>3. ASSUME NEW p \in Int, \A i \in p .. y : s[i] \in S
          PROVE  /\ SubSeq(s, p, y) \in Seq(S)
                 /\ Len(SubSeq(s, p, y)) = IF p <= y THEN y - p + 1 ELSE 0
                 /\ \A i \in 1 .. y - p + 1 : SubSeq(s, p, y)[i] = s[p + i - 1]
      <4>1. y \in Int
        BY <2>1
      <4>. QED
        BY <3>3, <4>1, SubSeqProperties
    <3>4. (IF x + 1 <= y THEN y - (x + 1) + 1 ELSE 0) = y - x
      BY <2>1
    <3>5. \A i \in 1 .. y - x : x + 1 + i - 1 = x + i
      OBVIOUS
    <3>6. /\ SubSeq(s, x + 1, y) \in Seq(S)
          /\ Len(SubSeq(s, x + 1, y)) = IF x + 1 <= y THEN y - (x + 1) + 1 ELSE 0
          /\ \A i \in 1 .. y - (x + 1) + 1 : SubSeq(s, x + 1, y)[i] = s[x + 1 + i - 1]
      BY <3>1, <3>2, <3>3
    <3>. QED
      BY <3>2, <3>4, <3>5, <3>6
  <2>2. a <= c /\ b <= Len(s)
    BY <1>1
  <2>. QED
    BY <1>1, <2>1, <2>2
<1>. HIDE DEF l, r, w
<1>3. /\ l \o r \in Seq(S) /\ Len(l \o r) = c - a
      /\ \A i \in 1 .. c - a : (l \o r)[i] = IF i <= b - a THEN l[i] ELSE r[i - (b - a)]
  <2>1. l \o r \in Seq(S) /\ Len(l \o r) = Len(l) + Len(r)
        /\ \A i \in 1 .. Len(l) + Len(r) : (l \o r)[i] = IF i <= Len(l) THEN l[i] ELSE r[i - Len(l)]
    BY <1>2, ConcatProperties, Zenon
  <2>2. Len(l) + Len(r) = c - a
    BY <1>1, <1>2
  <2>. QED
    BY <1>2, <2>1, <2>2
<1>4. ASSUME NEW i \in 1 .. c - a  PROVE (l \o r)[i] = w[i]
  <2>1. CASE i <= b - a
    <3>1. i \in 1 .. b - a
      BY <1>1, <2>1
    <3>. QED
      BY <1>2, <1>3, <2>1, <3>1
  <2>2. CASE ~(i <= b - a)
    <3>1. i - (b - a) \in 1 .. c - b /\ b + (i - (b - a)) = a + i
      BY <1>1, <2>2
    <3>2. (l \o r)[i] = r[i - (b - a)]
      BY <1>3, <2>2
    <3>3. r[i - (b - a)] = s[b + (i - (b - a))]
      BY <1>2, <3>1
    <3>. QED
      BY <1>2, <3>1, <3>2, <3>3
  <2>. QED
    BY <2>1, <2>2
<1>5. l \o r = w
  BY <1>2, <1>3, <1>4, SeqEqual
<1>. QED
  BY <1>5 DEF l, r, w

\* A sequence that is cut up, put together again.
LEMMA FlattenOfCut ==
  ASSUME NEW S, NEW seqs \in Seq(Seq(S)), NEW s \in Seq(S), NEW pos,
         pos[0] = 0, pos[Len(seqs)] = Len(s),
         \A i \in 1 .. Len(seqs) : /\ pos[i - 1] \in 0 .. pos[i] /\ pos[i] \in 0 .. Len(s)
                                   /\ seqs[i] = SubSeq(s, pos[i - 1] + 1, pos[i])
  PROVE  FlattenSeq(seqs) = s
<1>. DEFINE n == Len(seqs)
            w == [i \in 1 .. n |-> SubSeq(s, 1, pos[i])]
<1>1. n \in Nat /\ Len(s) \in Nat
  BY LenProperties
<1>2. CASE n = 0
  <2>1. seqs = <<>> /\ s = <<>>
    BY <1>2, EmptySeq
  <2>. QED
    BY <1>2, <2>1 DEF FlattenSeq
<1>3. CASE n # 0
  <2>1. w[1] = seqs[1]
    <3>1. 1 \in 1 .. n /\ 1 - 1 = 0 /\ 0 + 1 = 1
      BY <1>1, <1>3
    <3>2. seqs[1] = SubSeq(s, pos[0] + 1, pos[1])
      BY <3>1
    <3>. QED
      BY <3>1, <3>2
  <2>2. ASSUME NEW i \in 2 .. n  PROVE w[i] = w[i - 1] \o seqs[i]
    <3>1. i \in 1 .. n /\ i - 1 \in 1 .. n
      BY <1>1
    <3>. DEFINE b == pos[i - 1]
                c == pos[i]
    <3>2. b \in 0 .. c /\ c \in 0 .. Len(s) /\ seqs[i] = SubSeq(s, b + 1, c)
      BY <3>1
    <3>. HIDE DEF b, c
    <3>3. b \in 0 .. Len(s) /\ c \in b .. Len(s) /\ 0 \in 0 .. Len(s) /\ 0 + 1 = 1
      BY <1>1, <3>2
    <3>4. SubSeq(s, 0 + 1, b) \o SubSeq(s, b + 1, c) = SubSeq(s, 0 + 1, c)
      BY <3>3, SubSeqJoin
    <3>5. w[i] = SubSeq(s, 1, c) /\ w[i - 1] = SubSeq(s, 1, b)
      BY <3>1 DEF b, c
    <3>. HIDE DEF w
    <3>. QED
      BY <3>2, <3>3, <3>4, <3>5
  <2>3. n \in Nat \ {0} /\ n \in 1 .. n
    BY <1>1, <1>3
  <2>4. w[n] = SubSeq(s, 1, Len(s))
    BY <2>3
  <2>. HIDE DEF w
  <2>5. FlattenSeq(seqs) = w[n]
    BY <2>1, <2>2, <2>3, FlattenSteps
  <2>. QED
    BY <2>4, <2>5, SubSeqFull
<1>. QED
  BY <1>2, <1>3

\* Sequences of one length put together.
LEMMA FlattenOfBlocks ==
  ASSUME NEW S, NEW seqs \in Seq(Seq(S)), NEW m \in Nat,
         \A i \in 1 .. Len(seqs) : Len(seqs[i]) = m
  PROVE  /\ Len(FlattenSeq(seqs)) = m * Len(seqs)
         /\ \A i \in 1 .. Len(seqs) : \A k \in 1 .. m :
              FlattenSeq(seqs)[m * (i - 1) + k] = seqs[i][k]
<1>. DEFINE n == Len(seqs)
<1>1. n \in Nat /\ \A i \in 1 .. n : seqs[i] \in Seq(S)
  BY LenProperties, ElementOfSeq
<1>2. CASE n = 0
  <2>1. FlattenSeq(seqs) = seqs
    BY <1>2 DEF FlattenSeq
  <2>. QED
    BY <1>2, <2>1
<1>3. CASE n # 0
  <2>1. seqs # <<>> /\ n \in Nat \ {0} /\ n \in 1 .. n
    BY <1>1, <1>3, EmptySeq
  <2>2. PICK w : /\ w[1] = seqs[1]
                 /\ \A i \in 2 .. n : w[i] = w[i - 1] \o seqs[i]
                 /\ \A i \in 1 .. n : w[i] \in Seq(S)
    BY <2>1, FlattenPartial
  <2>3. FlattenSeq(seqs) = w[n]
    BY <2>1, <2>2, FlattenSteps
  <2>. DEFINE Holds(j) == /\ Len(w[j]) = m * j
                          /\ \A i \in 1 .. j : \A k \in 1 .. m : w[j][m * (i - 1) + k] = seqs[i][k]
              Good == {j \in 0 .. n : j = 0 \/ Holds(j)}
  <2>4. ASSUME NEW j \in 1 .. n, j - 1 \in Good  PROVE j \in Good
    <3>. SUFFICES Holds(j)
      <4>1. j \in 0 .. n
        BY <1>1
      <4>. HIDE DEF Holds
      <4>. QED
        BY <4>1
    <3>1. CASE j = 1
      <4>1. w[j] = seqs[1] /\ Len(seqs[1]) = m /\ m * j = m /\ m * (1 - 1) = 0
        BY <2>1, <2>2, <3>1
      <4>2. ASSUME NEW i \in 1 .. j, NEW k \in 1 .. m  PROVE w[j][m * (i - 1) + k] = seqs[i][k]
        <5>1. i = 1 /\ m * (i - 1) + k = k
          BY <3>1, <4>1
        <5>. QED
          BY <4>1, <5>1
      <4>. QED
        BY <4>1, <4>2
    <3>2. CASE j # 1
      <4>1. j \in 2 .. n /\ j - 1 \in 1 .. n
        BY <1>1, <3>2
      <4>2. Holds(j - 1)
        <5>1. j - 1 # 0
          BY <4>1
        <5>. HIDE DEF Holds
        <5>. QED
          BY <2>4, <5>1
      <4>3. w[j - 1] \in Seq(S) /\ seqs[j] \in Seq(S) /\ w[j] = w[j - 1] \o seqs[j] /\ Len(seqs[j]) = m
        BY <1>1, <2>2, <4>1
      <4>4. /\ Len(w[j]) = Len(w[j - 1]) + Len(seqs[j])
            /\ \A x \in 1 .. Len(w[j - 1]) + Len(seqs[j]) :
                 w[j][x] = IF x <= Len(w[j - 1]) THEN w[j - 1][x] ELSE seqs[j][x - Len(w[j - 1])]
        <5>. DEFINE a == w[j - 1]
                    b == seqs[j]
        <5>1. a \in Seq(S) /\ b \in Seq(S) /\ w[j] = a \o b
          BY <4>3
        <5>. HIDE DEF a, b
        <5>2. /\ Len(a \o b) = Len(a) + Len(b)
              /\ \A x \in 1 .. Len(a) + Len(b) : (a \o b)[x] = IF x <= Len(a) THEN a[x] ELSE b[x - Len(a)]
          BY <5>1, ConcatProperties, Zenon
        <5>3. /\ Len(w[j]) = Len(a) + Len(b)
              /\ \A x \in 1 .. Len(a) + Len(b) : w[j][x] = IF x <= Len(a) THEN a[x] ELSE b[x - Len(a)]
          BY <5>1, <5>2, Zenon
        <5>. QED
          BY <5>3 DEF a, b
      <4>5. Len(w[j - 1]) = m * (j - 1) /\ m * j = m * (j - 1) + m /\ m * (j - 1) \in Nat
        BY <4>1, <4>2
      <4>6. ASSUME NEW i \in 1 .. j, NEW k \in 1 .. m  PROVE w[j][m * (i - 1) + k] = seqs[i][k]
        <5>. DEFINE x == m * (i - 1) + k
        <5>1. CASE i = j
          <6>1. /\ x \in 1 .. Len(w[j - 1]) + Len(seqs[j]) /\ ~(x <= Len(w[j - 1]))
                /\ x - Len(w[j - 1]) = k
            BY <4>3, <4>5, <5>1
          <6>. QED
            BY <4>4, <5>1, <6>1
        <5>2. CASE i # j
          <6>1. i \in 1 .. j - 1 /\ i <= j - 1
            BY <4>1, <5>2
          <6>2. m * i <= m * (j - 1)
            <7>1. m * (j - 1) - m * i = m * ((j - 1) - i) /\ (j - 1) - i \in Nat
              BY <6>1, <4>1
            <7>2. m * ((j - 1) - i) \in Nat
              BY <7>1
            <7>3. m * (j - 1) \in Int /\ m * i \in Int
              BY <4>1, <6>1
            <7>. QED
              BY <7>1, <7>2, <7>3
          <6>3. m * (i - 1) = m * i - m /\ m * (i - 1) \in Nat /\ m * i \in Nat
            BY <6>1, <4>1
          <6>4. x \in 1 .. Len(w[j - 1]) + Len(seqs[j]) /\ x <= Len(w[j - 1])
            <7>. DEFINE t == m * (j - 1)
                        u == m * i
            <7>1. t \in Nat /\ u \in Nat /\ u <= t /\ x = u - m + k /\ u - m \in Nat
                  /\ Len(w[j - 1]) = t /\ Len(seqs[j]) = m
              BY <4>3, <4>5, <6>2, <6>3
            <7>. HIDE DEF t, u, x
            <7>2. x \in 1 .. t + m /\ x <= t
              BY <7>1
            <7>. QED
              BY <7>1, <7>2
          <6>5. w[j][x] = w[j - 1][x]
            BY <4>4, <6>4
          <6>. QED
            BY <4>2, <6>1, <6>5
        <5>. QED
          BY <5>1, <5>2
      <4>. QED
        <5>1. Len(w[j]) = m * j
          BY <4>3, <4>4, <4>5
        <5>. QED
          BY <4>6, <5>1
    <3>. QED
      BY <3>1, <3>2
  <2>5. 0 \in Good
    BY <1>1
  <2>. HIDE DEF Good
  <2>6. n \in Good
    <3>1. \A i \in 0 .. n : i \in Good
      BY <1>1, <2>4, <2>5, UpTo
    <3>. QED
      BY <1>1, <3>1
  <2>. QED
    BY <2>1, <2>3, <2>6 DEF Good
<1>. QED
  BY <1>2, <1>3

\* A sequence of sequences put together is its first ones put together, and
\* then the others.
LEMMA FlattenSplit ==
  ASSUME NEW S, NEW seqs \in Seq(Seq(S)), NEW n \in 0 .. Len(seqs), NEW m \in n .. Len(seqs)
  PROVE  /\ FlattenSeq(SubSeq(seqs, 1, m)) \in Seq(S)
         /\ FlattenSeq(SubSeq(seqs, 1, n)) \in Seq(S)
         /\ FlattenSeq(SubSeq(seqs, n + 1, m)) \in Seq(S)
         /\ FlattenSeq(SubSeq(seqs, 1, m))
              = FlattenSeq(SubSeq(seqs, 1, n)) \o FlattenSeq(SubSeq(seqs, n + 1, m))
<1>. DEFINE d == m - n
            left == FlattenSeq(SubSeq(seqs, 1, n))
            Right(k) == FlattenSeq(SubSeq(seqs, n + 1, n + k))
            All(k) == FlattenSeq(SubSeq(seqs, 1, n + k))
            Good == {k \in 0 .. d : All(k) = left \o Right(k)}
<1>1. Len(seqs) \in Nat /\ n \in Nat /\ m \in Nat /\ d \in Nat /\ n + d = m /\ m <= Len(seqs)
  BY LenProperties
<1>2. ASSUME NEW k \in 0 .. d  PROVE /\ SubSeq(seqs, 1, n + k) \in Seq(Seq(S))
                                     /\ SubSeq(seqs, n + 1, n + k) \in Seq(Seq(S))
  <2>1. n + k \in 0 .. Len(seqs)
    BY <1>1
  <2>2. \A i \in 1 .. n + k : i \in 1 .. Len(seqs)
    BY <1>1, <2>1
  <2>3. \A i \in n + 1 .. n + k : i \in 1 .. Len(seqs)
    BY <1>1, <2>1
  <2>. QED
    BY <1>1, <2>1, <2>2, <2>3
<1>3. /\ left \in Seq(S) /\ \A k \in 0 .. d : Right(k) \in Seq(S) /\ All(k) \in Seq(S)
  <2>1. \A k \in 0 .. d : Right(k) \in Seq(S) /\ All(k) \in Seq(S)
    BY <1>2, FlattenTyped
  <2>2. 0 \in 0 .. d /\ n + 0 = n
    BY <1>1
  <2>3. All(0) = left
    BY <2>2
  <2>. QED
    BY <2>1, <2>2, <2>3
<1>4. 0 \in Good
  <2>1. n + 0 = n /\ 0 \in 0 .. d /\ n < n + 1
    BY <1>1
  <2>2. SubSeq(seqs, n + 1, n) = <<>>
    BY <1>1, <2>1, SubSeqEmpty
  <2>3. Right(0) = <<>> /\ All(0) = left
    BY <2>1, <2>2 DEF FlattenSeq
  <2>4. left \o <<>> = left
    BY <1>3, ConcatEmptySeq
  <2>. QED
    BY <2>1, <2>3, <2>4
<1>5. ASSUME NEW k \in 1 .. d, k - 1 \in Good  PROVE k \in Good
  <2>. DEFINE j == n + k
              e == seqs[j]
              r == SubSeq(seqs, n + 1, j - 1)
              a == SubSeq(seqs, 1, j - 1)
  <2>1. /\ j \in Nat /\ j \in 1 .. Len(seqs) /\ n + (k - 1) = j - 1 /\ k - 1 \in 0 .. d /\ k \in 0 .. d
        /\ n + 1 <= j /\ j \in n + 1 .. Len(seqs)
    BY <1>1
  <2>2. e \in Seq(S)
    BY <2>1, ElementOfSeq
  <2>3. SubSeq(seqs, n + 1, j) = Append(r, e) /\ SubSeq(seqs, 1, j) = Append(a, e)
    BY <1>1, <2>1
  <2>4. r \in Seq(Seq(S)) /\ a \in Seq(Seq(S)) /\ Right(k - 1) = FlattenSeq(r) /\ All(k - 1) = FlattenSeq(a)
    BY <1>2, <2>1
  <2>. HIDE DEF r, a, e
  <2>5. Right(k) = FlattenSeq(Append(r, e)) /\ All(k) = FlattenSeq(Append(a, e))
    BY <2>3
  <2>6. FlattenSeq(Append(r, e)) = FlattenSeq(r) \o e /\ FlattenSeq(Append(a, e)) = FlattenSeq(a) \o e
    BY <2>2, <2>4, FlattenAppend
  <2>7. FlattenSeq(a) = left \o FlattenSeq(r)
    BY <1>5, <2>4
  <2>8. FlattenSeq(r) \in Seq(S)
    BY <2>4, FlattenTyped
  <2>9. (left \o FlattenSeq(r)) \o e = left \o (FlattenSeq(r) \o e)
    <3>. DEFINE fr == FlattenSeq(r)
    <3>. HIDE DEF fr, left
    <3>1. left \in Seq(S) /\ fr \in Seq(S)
      BY <1>3, <2>8 DEF fr
    <3>2. (left \o fr) \o e = left \o (fr \o e)
      BY <2>2, <3>1, ConcatAssociative
    <3>. QED
      BY <3>2 DEF fr
  <2>. QED
    BY <2>1, <2>5, <2>6, <2>7, <2>9, Zenon
<1>6. d \in Good
  <2>. HIDE DEF Good, d
  <2>1. \A k \in 0 .. d : k \in Good
    BY <1>1, <1>4, <1>5, UpTo
  <2>. QED
    BY <1>1, <2>1
<1>7. d \in 0 .. d
  BY <1>1
<1>. HIDE DEF left
<1>8. All(d) = FlattenSeq(SubSeq(seqs, 1, m)) /\ Right(d) = FlattenSeq(SubSeq(seqs, n + 1, m))
  BY <1>1
<1>. HIDE DEF d
<1>. QED
  BY <1>3, <1>6, <1>7, <1>8 DEF left

\* Sequences of at most one element are no more, put together, than they are.
LEMMA FlattenShort ==
  ASSUME NEW S, NEW seqs \in Seq(Seq(S)), \A i \in 1 .. Len(seqs) : Len(seqs[i]) <= 1
  PROVE  Len(FlattenSeq(seqs)) <= Len(seqs)
<1>. DEFINE n == Len(seqs)
            All(k) == FlattenSeq(SubSeq(seqs, 1, k))
            Good == {k \in 0 .. n : Len(All(k)) <= k}
<1>1. n \in Nat
  BY LenProperties
<1>2. 0 \in Good
  <2>1. SubSeq(seqs, 1, 0) = <<>>
    BY SubSeqEmpty
  <2>2. All(0) = <<>>
    BY <2>1 DEF FlattenSeq
  <2>. QED
    BY <1>1, <2>2
<1>3. ASSUME NEW k \in 1 .. n, k - 1 \in Good  PROVE k \in Good
  <2>. DEFINE a == SubSeq(seqs, 1, k - 1)
              e == seqs[k]
  <2>1. k \in 0 .. n /\ k - 1 \in 0 .. n /\ e \in Seq(S) /\ Len(e) <= 1 /\ Len(e) \in Nat
    BY <1>1, ElementOfSeq, LenProperties
  <2>2. a \in Seq(Seq(S)) /\ SubSeq(seqs, 1, k) = Append(a, e)
    BY <1>1, <2>1
  <2>. HIDE DEF a, e
  <2>3. All(k) = FlattenSeq(a) \o e /\ FlattenSeq(a) \in Seq(S)
    BY <2>1, <2>2, FlattenAppend, FlattenTyped
  <2>4. Len(FlattenSeq(a)) <= k - 1
    BY <1>3 DEF a
  <2>5. Len(FlattenSeq(a) \o e) = Len(FlattenSeq(a)) + Len(e) /\ Len(FlattenSeq(a)) \in Nat
    BY <2>1, <2>3, ConcatProperties, LenProperties
  <2>. QED
    BY <2>1, <2>3, <2>4, <2>5
<1>4. n \in Good
  <2>. HIDE DEF Good, n
  <2>1. \A k \in 0 .. n : k \in Good
    BY <1>1, <1>2, <1>3, UpTo
  <2>. QED
    BY <1>1, <2>1
<1>5. SubSeq(seqs, 1, n) = seqs
  BY SubSeqFull
<1>. QED
  BY <1>4, <1>5

=============================================================================
