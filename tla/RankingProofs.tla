--------------------------- MODULE RankingProofs ---------------------------
(***************************************************************************)
(* What the operators of Search compute, for every value of the constants: *)
(* sorts, filters, the arms, and their fusion into one entry for each      *)
(* document.  SearchProofs has the theorems that rest on these.            *)
(***************************************************************************)
EXTENDS Search, FiniteSetTheorems, FunctionTheorems, SequenceTheorems, TLAPS

-----------------------------------------------------------------------------
(* Sequences.                                                              *)

LEMMA FunctionIsSeq ==
  ASSUME NEW S, NEW n \in Nat, NEW f \in [1..n -> S]
  PROVE  f \in Seq(S) /\ Len(f) = n
<1>1. f \in Seq(S)
  BY SeqDef
<1>2. DOMAIN f = 1..n /\ DOMAIN f = 1..Len(f) /\ Len(f) \in Nat
  BY <1>1, LenProperties
<1>3. QED
  BY <1>1, <1>2

LEMMA FirstIs ==
  ASSUME NEW S, NEW seq \in Seq(S), NEW n \in Nat
  PROVE  /\ First(n, seq) \in Seq(S)
         /\ Len(First(n, seq)) = IF n < Len(seq) THEN n ELSE Len(seq)
         /\ \A i \in 1..Len(First(n, seq)) : First(n, seq)[i] = seq[i]
<1> DEFINE m == IF n < Len(seq) THEN n ELSE Len(seq)
<1>1. Len(seq) \in Nat /\ m \in Nat /\ m <= Len(seq)
  BY LenProperties
<1>2. \A i \in 1..m : seq[i] \in S
  BY <1>1, ElementOfSeq
<1>3. /\ SubSeq(seq, 1, m) \in Seq(S)
      /\ Len(SubSeq(seq, 1, m)) = IF 1 <= m THEN m - 1 + 1 ELSE 0
      /\ \A i \in 1..(m - 1 + 1) : SubSeq(seq, 1, m)[i] = seq[1 + i - 1]
  BY <1>1, <1>2, SubSeqProperties
<1>4. Len(SubSeq(seq, 1, m)) = m
  BY <1>1, <1>3
<1>5. \A i \in 1..m : SubSeq(seq, 1, m)[i] = seq[i]
  BY <1>1, <1>3
<1>6. First(n, seq) = SubSeq(seq, 1, m)
  BY DEF First, Smaller
<1>7. QED
  BY <1>3, <1>4, <1>5, <1>6

-----------------------------------------------------------------------------
(* Sorts.                                                                  *)

\* What comes no later than i contains less than what comes no later than j, or more.
Ranked(I, upto) ==
  /\ upto \in [I -> SUBSET I]
  /\ \A i \in I : i \in upto[i]
  /\ \A i, j \in I : i # j =>
       \/ upto[i] \subseteq upto[j] /\ j \notin upto[i]
       \/ upto[j] \subseteq upto[i] /\ i \notin upto[j]

\* A sort takes every member once, and the place of each is the number of those
\* that come no later.
LEMMA OrderedIs ==
  ASSUME NEW I, IsFiniteSet(I), NEW upto, Ranked(I, upto)
  PROVE  /\ Ordered(I, upto) \in Bijection(1..Cardinality(I), I)
         /\ \A k \in 1..Cardinality(I) : Cardinality(upto[Ordered(I, upto)[k]]) = k
<1> DEFINE n == Cardinality(I)
           c == [i \in I |-> Cardinality(upto[i])]
           f == Ordered(I, upto)
<1>1. n \in Nat /\ IsFiniteSet(1..n) /\ Cardinality(1..n) = n
  <2>1. n \in Nat
    BY FS_CardinalityType
  <2>2. IsFiniteSet(1..n) /\ Cardinality(1..n) = IF 1 > n THEN 0 ELSE n - 1 + 1
    BY <2>1, FS_Interval
  <2>3. QED
    BY <2>1, <2>2
<1>2. ASSUME NEW i \in I PROVE IsFiniteSet(upto[i]) /\ Cardinality(upto[i]) \in 1..n
  <2>1. upto[i] \in SUBSET I /\ i \in upto[i]
    BY DEF Ranked
  <2>2. IsFiniteSet(upto[i]) /\ Cardinality(upto[i]) <= n
    BY <2>1, FS_Subset
  <2>3. Cardinality(upto[i]) \in Nat /\ Cardinality(upto[i]) # 0
    BY <2>1, <2>2, FS_CardinalityType, FS_EmptySet
  <2>4. QED
    BY <1>1, <2>2, <2>3
<1>3. ASSUME NEW i \in I, NEW j \in I, i # j PROVE Cardinality(upto[i]) # Cardinality(upto[j])
  <2>1. upto[i] # upto[j] /\ (upto[i] \in SUBSET upto[j] \/ upto[j] \in SUBSET upto[i])
    BY <1>3 DEF Ranked
  <2>2. CASE upto[i] \in SUBSET upto[j]
    BY <1>2, <2>1, <2>2, FS_Subset
  <2>3. CASE upto[j] \in SUBSET upto[i]
    BY <1>2, <2>1, <2>3, FS_Subset
  <2>4. QED
    BY <2>1, <2>2, <2>3
<1>4. c \in [I -> 1..n] /\ \A i, j \in I : c[i] = c[j] => i = j
  BY <1>2, <1>3
<1>5. c \in Injection(I, 1..n)
  BY <1>4, Fun_IsInj
<1>6. c \in Surjection(I, 1..n)
  BY <1>1, <1>5, FS_Injection
<1>7. \A k \in 1..n : \E i \in I : c[i] = k
  BY <1>6 DEF Surjection
<1>8. \A k \in 1..n : f[k] \in I /\ Cardinality(upto[f[k]]) = k
  BY <1>7 DEF Ordered
<1>9. f \in [1..n -> I]
  BY <1>8 DEF Ordered
<1>10. \A j, k \in 1..n : f[j] = f[k] => j = k
  BY <1>8
<1>11. ASSUME NEW i \in I PROVE \E k \in 1..n : f[k] = i
  <2>1. c[i] \in 1..n
    BY <1>4
  <2>2. f[c[i]] \in I /\ c[f[c[i]]] = c[i]
    BY <1>8, <2>1
  <2>3. QED
    BY <1>4, <2>1, <2>2
<1>12. f \in Bijection(1..n, I)
  BY <1>9, <1>10, <1>11, Fun_IsBij
<1>13. QED
  BY <1>8, <1>12

-----------------------------------------------------------------------------
(* Filters.                                                                *)

LEMMA PlacesRanked ==
  ASSUME NEW n \in Nat, NEW I \in SUBSET (1..n)
  PROVE  /\ IsFiniteSet(I) /\ Cardinality(I) \in 0..n
         /\ Ranked(I, [i \in I |-> {j \in I : j <= i}])
<1>1. IsFiniteSet(1..n) /\ Cardinality(1..n) = n
  BY FS_Interval
<1>2. IsFiniteSet(I) /\ Cardinality(I) <= n /\ Cardinality(I) \in Nat
  BY <1>1, FS_Subset, FS_CardinalityType
<1> DEFINE upto == [i \in I |-> {j \in I : j <= i}]
<1>3. upto \in [I -> SUBSET I] /\ \A i \in I : upto[i] = {j \in I : j <= i}
  OBVIOUS
<1> HIDE DEF upto
<1>4. \A i \in I : i \in Int
  OBVIOUS
<1>5. ASSUME NEW i \in I, NEW j \in I, i < j
      PROVE  upto[i] \subseteq upto[j] /\ j \notin upto[i]
  <2>1. upto[i] = {m \in I : m <= i} /\ upto[j] = {m \in I : m <= j} /\ i \in Int /\ j \in Int
    BY <1>3, <1>4
  <2>2. \A m \in I : m <= i => m <= j
    BY <1>4, <1>5, <2>1
  <2>3. ~(j <= i)
    BY <1>5, <2>1
  <2> QED BY <2>1, <2>2, <2>3
<1>6. Ranked(I, upto)
  <2>1. \A i, j \in I : i # j => i < j \/ j < i
    BY <1>4
  <2>2. \A i \in I : i \in upto[i]
    BY <1>3, <1>4
  <2> QED BY <1>3, <1>5, <2>1, <2>2 DEF Ranked
<1>7. QED
  BY <1>2, <1>6 DEF upto

\* A filter keeps what stands at the chosen places, each once.
LEMMA SelectedIs ==
  ASSUME NEW S, NEW seq \in Seq(S), NEW I \in SUBSET (1..Len(seq))
  PROVE  /\ Selected(seq, I) \in Seq(S)
         /\ Len(Selected(seq, I)) = Cardinality(I) /\ Cardinality(I) \in 0..Len(seq)
         /\ \E at \in Bijection(1..Cardinality(I), I) :
              \A k \in 1..Cardinality(I) : Selected(seq, I)[k] = seq[at[k]]
<1> DEFINE upto == [i \in I |-> {j \in I : j <= i}]
           at == Ordered(I, upto)
           n == Cardinality(I)
<1>1. Len(seq) \in Nat
  BY LenProperties
<1>2. IsFiniteSet(I) /\ n \in 0..Len(seq) /\ Ranked(I, upto)
  BY <1>1, PlacesRanked
<1> HIDE DEF upto
<1>3. at \in Bijection(1..n, I)
  BY <1>2, OrderedIs
<1>4. at \in [1..n -> I]
  BY <1>3, Fun_BijectionProperties
<1>5. Selected(seq, I) = [k \in 1..n |-> seq[at[k]]]
  BY DEF Selected, upto
<1> HIDE DEF at
<1>6. ASSUME NEW k \in 1..n PROVE seq[at[k]] \in S
  BY <1>4, ElementOfSeq
<1>7. Selected(seq, I) \in [1..n -> S]
  BY <1>5, <1>6
<1>8. n \in Nat
  BY <1>1, <1>2
<1>9. Selected(seq, I) \in Seq(S) /\ Len(Selected(seq, I)) = n
  BY <1>7, <1>8, FunctionIsSeq
<1>10. \A k \in 1..n : Selected(seq, I)[k] = seq[at[k]]
  BY <1>5
<1>11. QED
  BY <1>2, <1>3, <1>9, <1>10

LEMMA SelectedMembers ==
  ASSUME NEW S, NEW seq \in Seq(S), NEW I \in SUBSET (1..Len(seq))
  PROVE  /\ Range(Selected(seq, I)) = {seq[i] : i \in I}
         /\ \A k \in 1..Len(Selected(seq, I)) : \E i \in I : Selected(seq, I)[k] = seq[i]
         /\ \A i \in I : \E k \in 1..Len(Selected(seq, I)) : Selected(seq, I)[k] = seq[i]
         /\ IsInjective(seq) => IsInjective(Selected(seq, I))
<1> DEFINE s == Selected(seq, I)
           n == Cardinality(I)
<1>1. s \in Seq(S) /\ Len(s) = n
  BY SelectedIs
<1>2. PICK at \in Bijection(1..n, I) : \A k \in 1..n : s[k] = seq[at[k]]
  BY SelectedIs
<1>3. DOMAIN s = 1..n /\ DOMAIN seq = 1..Len(seq)
  BY <1>1, LenProperties
<1> HIDE DEF s
<1>4. /\ at \in [1..n -> I]
      /\ \A a, b \in 1..n : at[a] = at[b] => a = b
      /\ \A i \in I : \E k \in 1..n : at[k] = i
  BY <1>2 DEF Bijection, Injection, Surjection, IsInjective
<1>5. \A k \in 1..n : \E i \in I : s[k] = seq[i]
  BY <1>2, <1>4
<1>6. \A i \in I : \E k \in 1..n : s[k] = seq[i]
  BY <1>2, <1>4
<1>7. Range(s) = {s[k] : k \in 1..n}
  BY <1>3 DEF Range
<1>8. ASSUME IsInjective(seq) PROVE IsInjective(s)
  <2>1. \A a, b \in 1..Len(seq) : seq[a] = seq[b] => a = b
    BY <1>3, <1>8 DEF IsInjective
  <2>2. ASSUME NEW a \in 1..n, NEW b \in 1..n, s[a] = s[b] PROVE a = b
    <3>1. at[a] \in 1..Len(seq) /\ at[b] \in 1..Len(seq) /\ seq[at[a]] = seq[at[b]]
      BY <1>2, <1>4, <2>2
    <3> QED BY <1>4, <2>1, <3>1
  <2> QED BY <1>3, <2>2 DEF IsInjective
<1>9. QED
  BY <1>1, <1>5, <1>6, <1>7, <1>8 DEF s

\* A filter that drops nothing changes nothing.
LEMMA SelectedWhole ==
  ASSUME NEW S, NEW seq \in Seq(S)
  PROVE  Selected(seq, 1..Len(seq)) = seq
<1> DEFINE n == Len(seq)
           upto == [i \in 1..n |-> {j \in 1..n : j <= i}]
           at == Ordered(1..n, upto)
<1>1. n \in Nat /\ 1..n \in SUBSET (1..n)
  BY LenProperties
<1>2. IsFiniteSet(1..n) /\ Cardinality(1..n) = n
  BY <1>1, FS_Interval
<1>3. Ranked(1..n, upto)
  BY <1>1, PlacesRanked
<1>4. ASSUME NEW k \in 1..n PROVE at[k] = k
  <2>1. \A i \in 1..n : upto[i] = 1..i
    BY <1>1
  <2>2. ASSUME NEW i \in 1..n PROVE Cardinality(upto[i]) = i
    <3>1. Cardinality(1..i) = IF 1 > i THEN 0 ELSE i - 1 + 1
      BY <1>1, FS_Interval
    <3>2. Cardinality(1..i) = i
      BY <1>1, <3>1
    <3> QED BY <2>1, <3>2
  <2> HIDE DEF upto
  <2>3. /\ at \in Bijection(1..n, 1..n)
        /\ Cardinality(upto[at[k]]) = k
    <3>1. /\ at \in Bijection(1..Cardinality(1..n), 1..n)
          /\ \A l \in 1..Cardinality(1..n) : Cardinality(upto[at[l]]) = l
      BY <1>2, <1>3, OrderedIs
    <3> QED BY <1>2, <3>1
  <2>4. at[k] \in 1..n
    BY <2>3 DEF Bijection, Injection
  <2>5. QED
    BY <2>2, <2>3, <2>4
<1>5. Selected(seq, 1..n) = [k \in 1..n |-> seq[at[k]]]
  BY <1>2 DEF Selected
<1> HIDE DEF at
<1>6. Selected(seq, 1..n) \in Seq(S) /\ Len(Selected(seq, 1..n)) = n
  BY <1>1, <1>2, SelectedIs
<1>7. \A k \in 1..n : Selected(seq, 1..n)[k] = seq[k]
  BY <1>4, <1>5
<1>8. QED
  BY <1>6, <1>7, SeqEqual

-----------------------------------------------------------------------------
(* Linear orders, as sets of pairs.                                        *)

Linear(B, R) ==
  /\ \A g, h \in B : <<g, h>> \in R \/ <<h, g>> \in R
  /\ \A g, h \in B : <<g, h>> \in R /\ <<h, g>> \in R => g = h
  /\ \A f, g, h \in B : <<f, g>> \in R /\ <<g, h>> \in R => <<f, h>> \in R

LEMMA LinearRanked ==
  ASSUME NEW B, NEW R, Linear(B, R)
  PROVE  Ranked(B, [h \in B |-> {g \in B : <<g, h>> \in R}])
<1> DEFINE upto == [h \in B |-> {g \in B : <<g, h>> \in R}]
<1>1. upto \in [B -> SUBSET B] /\ \A h \in B : upto[h] = {g \in B : <<g, h>> \in R}
  OBVIOUS
<1> HIDE DEF upto
<1>2. ASSUME NEW h \in B PROVE h \in upto[h]
  <2>1. <<h, h>> \in R
    BY DEF Linear
  <2> QED BY <1>1, <2>1
<1>3. ASSUME NEW g \in B, NEW h \in B, g # h, <<g, h>> \in R
      PROVE  upto[g] \subseteq upto[h] /\ h \notin upto[g]
  <2>1. <<h, g>> \notin R
    BY <1>3 DEF Linear
  <2>2. \A f \in B : <<f, g>> \in R => <<f, h>> \in R
    BY <1>3 DEF Linear
  <2> QED BY <1>1, <2>1, <2>2
<1>4. \A g, h \in B : g # h =>
        \/ upto[g] \subseteq upto[h] /\ h \notin upto[g]
        \/ upto[h] \subseteq upto[g] /\ g \notin upto[h]
  BY <1>3 DEF Linear
<1>5. Ranked(B, upto)
  BY <1>1, <1>2, <1>4 DEF Ranked
<1>6. QED
  BY <1>5 DEF upto

\* A finite set has a first member.
LEMMA LinearLeast ==
  ASSUME NEW B, IsFiniteSet(B), B # {}, NEW R, Linear(B, R)
  PROVE  \E h \in B : \A g \in B : <<h, g>> \in R
<1> DEFINE upto == [h \in B |-> {g \in B : <<g, h>> \in R}]
           h == Ordered(B, upto)[1]
<1>1. Ranked(B, upto)
  BY LinearRanked
<1>2. Cardinality(B) \in Nat /\ Cardinality(B) # 0
  BY FS_CardinalityType, FS_EmptySet
<1>3. 1 \in 1..Cardinality(B)
  BY <1>2
<1>4. Ordered(B, upto) \in Bijection(1..Cardinality(B), B) /\ Cardinality(upto[h]) = 1
  BY <1>1, <1>3, OrderedIs
<1>5. h \in B
  BY <1>3, <1>4 DEF Bijection, Injection
<1>6. upto[h] = {g \in B : <<g, h>> \in R}
  BY <1>5
<1> HIDE DEF upto, h
<1>7. IsFiniteSet(upto[h]) /\ h \in upto[h]
  <2>1. upto[h] \in SUBSET B
    BY <1>6
  <2>2. h \in upto[h]
    BY <1>5, <1>6 DEF Linear
  <2> QED BY <2>1, <2>2, FS_Subset
<1>8. PICK x : upto[h] = {x}
  BY <1>4, <1>7, FS_Singleton
<1>9. \A g \in B : <<g, h>> \in R => g = h
  BY <1>6, <1>7, <1>8
<1>10. \A g \in B : <<h, g>> \in R
  BY <1>5, <1>9 DEF Linear
<1>11. QED
  BY <1>5, <1>10

-----------------------------------------------------------------------------
(* Scores.                                                                 *)

Fraction == [num : Nat, den : Nat \ {0}]

LEMMA CommonFactor ==
  ASSUME NEW a \in Nat, NEW b \in Nat, NEW c \in Nat \ {0}, c * a >= c * b
  PROVE  a >= b
<1>1. SUFFICES ASSUME a < b PROVE FALSE
  OBVIOUS
<1>2. PICK d \in Nat : b = a + 1 + d
  <2>1. b - a - 1 \in Nat /\ b = a + 1 + (b - a - 1)
    BY <1>1
  <2> QED BY <2>1
<1>3. c * b = c * a + c + c * d
  BY <1>2
<1>4. c * d \in Nat /\ c * a \in Nat
  OBVIOUS
<1>5. QED
  BY <1>3, <1>4

LEMMA FractionsOrdered ==
  /\ \A s, t \in Fraction : AtLeast(s, t) \/ AtLeast(t, s)
  /\ \A s, t, u \in Fraction : AtLeast(s, t) /\ AtLeast(t, u) => AtLeast(s, u)
<1>1. \A s, t \in Fraction : AtLeast(s, t) \/ AtLeast(t, s)
  <2> SUFFICES ASSUME NEW s \in Fraction, NEW t \in Fraction
               PROVE  AtLeast(s, t) \/ AtLeast(t, s)
    OBVIOUS
  <2>1. s.num * t.den \in Nat /\ t.num * s.den \in Nat
    BY DEF Fraction
  <2> QED BY <2>1 DEF AtLeast
<1>2. ASSUME NEW s \in Fraction, NEW t \in Fraction, NEW u \in Fraction,
             AtLeast(s, t), AtLeast(t, u)
      PROVE  AtLeast(s, u)
  <2> DEFINE sn == s.num
             sd == s.den
             tn == t.num
             td == t.den
             un == u.num
             ud == u.den
  <2>1. {sn, sd, tn, td, un, ud} \subseteq Nat /\ td # 0
    BY DEF Fraction
  <2>2. sn * td >= tn * sd /\ tn * ud >= un * td
    BY <1>2 DEF AtLeast
  <2> HIDE DEF sn, sd, tn, td, un, ud
  <2>3. /\ sn * td \in Nat /\ tn * sd \in Nat /\ tn * ud \in Nat /\ un * td \in Nat
        /\ sn * ud \in Nat /\ un * sd \in Nat
    BY <2>1
  <2>4. (sn * td) * ud >= (tn * sd) * ud
    BY <2>1, <2>2, <2>3
  <2>5. (tn * ud) * sd >= (un * td) * sd
    BY <2>1, <2>2, <2>3
  <2>6. /\ (sn * td) * ud = td * (sn * ud)
        /\ (tn * sd) * ud = (tn * ud) * sd
        /\ (un * td) * sd = td * (un * sd)
    BY <2>1
  <2>7. (tn * ud) * sd \in Int /\ td * (sn * ud) \in Int /\ td * (un * sd) \in Int
    BY <2>1, <2>3
  <2>8. td * (sn * ud) >= td * (un * sd)
    BY <2>4, <2>5, <2>6, <2>7
  <2>9. sn * ud >= un * sd
    BY <2>1, <2>3, <2>8, CommonFactor
  <2> QED BY <2>9 DEF AtLeast, sn, sd, tn, td, un, ud
<1>3. QED
  BY <1>1, <1>2

-----------------------------------------------------------------------------
(* Fusion.                                                                 *)

LEMMA RankIs ==
  ASSUME NEW arm \in Seq(Hits), NEW hit \in Range(arm)
  PROVE  Rank(hit, arm) \in 1..Len(arm) /\ arm[Rank(hit, arm)] = hit
<1>1. \E rank \in 1..Len(arm) : arm[rank] = hit
  BY LenProperties DEF Range
<1>2. QED
  BY <1>1 DEF Rank

LEMMA ScoreIs ==
  ASSUME NEW lexical \in Seq(Hits), NEW vector \in Seq(Hits), NEW hit
  PROVE  Score(hit, lexical, vector) \in Fraction
<1>1. ASSUME NEW arm \in Seq(Hits) PROVE Weight(hit, arm) \in Fraction
  <2>1. rrfK \in Nat /\ Len(arm) \in Nat
    BY SearchAssumption, LenProperties
  <2>2. CASE hit \in Range(arm)
    <3>1. Rank(hit, arm) \in 1..Len(arm)
      BY <2>2, RankIs
    <3>2. rrfK + Rank(hit, arm) \in Nat \ {0}
      BY <2>1, <3>1
    <3> QED BY <2>2, <3>2 DEF Weight, Fraction
  <2>3. CASE hit \notin Range(arm)
    BY <2>3 DEF Weight, Fraction
  <2> QED BY <2>2, <2>3
<1> DEFINE l == Weight(hit, lexical)
           v == Weight(hit, vector)
<1>2. l \in Fraction /\ v \in Fraction
  BY <1>1
<1> HIDE DEF l, v
<1>3. l.num * v.den + v.num * l.den \in Nat /\ l.den * v.den \in Nat \ {0}
  <2>1. l.num \in Nat /\ v.num \in Nat /\ l.den \in Nat \ {0} /\ v.den \in Nat \ {0}
    BY <1>2 DEF Fraction
  <2>2. l.num * v.den \in Nat /\ v.num * l.den \in Nat /\ l.den * v.den \in Nat
    BY <2>1
  <2>3. l.den * v.den # 0
    BY <2>1
  <2> QED BY <2>2, <2>3
<1>4. QED
  BY <1>3 DEF Score, Fraction, l, v

LEMMA MetOnce ==
  ASSUME NEW lexical \in Seq(Hits), NEW vector \in Seq(Hits)
  PROVE  LET hits == Range(lexical) \cup Range(vector)
         IN  /\ \A g \in hits : Met(g, lexical, vector) \in Nat
             /\ \A g, h \in hits : Met(g, lexical, vector) = Met(h, lexical, vector) => g = h
<1> DEFINE hits == Range(lexical) \cup Range(vector)
<1>1. Len(lexical) \in Nat /\ Len(vector) \in Nat
  BY LenProperties
<1>2. ASSUME NEW g \in hits, g \in Range(lexical)
      PROVE  Met(g, lexical, vector) \in 1..Len(lexical) /\ lexical[Met(g, lexical, vector)] = g
  BY <1>2, RankIs DEF Met
<1>3. ASSUME NEW g \in hits, g \notin Range(lexical)
      PROVE  /\ Met(g, lexical, vector) \in Nat /\ Met(g, lexical, vector) > Len(lexical)
             /\ vector[Met(g, lexical, vector) - Len(lexical)] = g
  <2>1. Rank(g, vector) \in 1..Len(vector) /\ vector[Rank(g, vector)] = g
    BY <1>3, RankIs
  <2>2. Met(g, lexical, vector) = Len(lexical) + Rank(g, vector)
    BY <1>3 DEF Met
  <2>3. Len(lexical) + Rank(g, vector) - Len(lexical) = Rank(g, vector)
    BY <1>1, <2>1
  <2> QED BY <1>1, <2>1, <2>2, <2>3
<1>4. \A g \in hits : Met(g, lexical, vector) \in Nat
  BY <1>1, <1>2, <1>3
<1>5. ASSUME NEW g \in hits, NEW h \in hits, Met(g, lexical, vector) = Met(h, lexical, vector)
      PROVE  g = h
  <2>1. CASE g \in Range(lexical) /\ h \in Range(lexical)
    BY <1>2, <1>5, <2>1
  <2>2. CASE g \notin Range(lexical) /\ h \notin Range(lexical)
    BY <1>3, <1>5, <2>2
  <2>3. CASE g \in Range(lexical) /\ h \notin Range(lexical)
    BY <1>1, <1>2, <1>3, <1>5, <2>3
  <2>4. CASE g \notin Range(lexical) /\ h \in Range(lexical)
    BY <1>1, <1>2, <1>3, <1>5, <2>4
  <2> QED BY <2>1, <2>2, <2>3, <2>4
<1>6. QED
  BY <1>4, <1>5

\* The order of fusion, as pairs.
Fused(hits, lexical, vector) ==
  {p \in hits \X hits : reciprocalRankFusion(p[1], p[2], lexical, vector)}

\* Fusion puts the hits of both arms in one order, whatever the ranks.
LEMMA FusionIsLinear ==
  ASSUME NEW lexical \in Seq(Hits), NEW vector \in Seq(Hits),
         NEW hits \in SUBSET (Range(lexical) \cup Range(vector))
  PROVE  Linear(hits, Fused(hits, lexical, vector))
<1> DEFINE R == Fused(hits, lexical, vector)
           s(h) == Score(h, lexical, vector)
           m(h) == Met(h, lexical, vector)
<1>1. \A g, h \in hits : <<g, h>> \in R <=> AtLeast(s(g), s(h)) /\ (AtLeast(s(h), s(g)) => m(g) <= m(h))
  BY DEF Fused, reciprocalRankFusion
<1>2. \A h \in hits : s(h) \in Fraction /\ m(h) \in Nat
  BY ScoreIs, MetOnce
<1>3. \A g, h \in hits : m(g) = m(h) => g = h
  BY MetOnce
<1> HIDE DEF R, s, m
<1>4. \A g, h \in hits : AtLeast(s(g), s(h)) \/ AtLeast(s(h), s(g))
  BY <1>2, FractionsOrdered
<1>5. \A f, g, h \in hits : AtLeast(s(f), s(g)) /\ AtLeast(s(g), s(h)) => AtLeast(s(f), s(h))
  BY <1>2, FractionsOrdered
<1>6. ASSUME NEW g \in hits, NEW h \in hits PROVE <<g, h>> \in R \/ <<h, g>> \in R
  <2>1. m(g) <= m(h) \/ m(h) <= m(g)
    BY <1>2
  <2> QED BY <1>1, <1>4, <2>1
<1>7. ASSUME NEW g \in hits, NEW h \in hits, <<g, h>> \in R, <<h, g>> \in R PROVE g = h
  <2>1. m(g) <= m(h) /\ m(h) <= m(g)
    BY <1>1, <1>7
  <2>2. m(g) = m(h)
    BY <1>2, <2>1
  <2> QED BY <1>3, <2>2
<1>8. ASSUME NEW f \in hits, NEW g \in hits, NEW h \in hits, <<f, g>> \in R, <<g, h>> \in R
      PROVE  <<f, h>> \in R
  <2>1. AtLeast(s(f), s(g)) /\ AtLeast(s(g), s(h)) /\ AtLeast(s(f), s(h))
    BY <1>1, <1>5, <1>8
  <2>2. ASSUME AtLeast(s(h), s(f)) PROVE m(f) <= m(h)
    <3>1. AtLeast(s(g), s(f)) /\ AtLeast(s(h), s(g))
      BY <1>5, <2>1, <2>2
    <3>2. m(f) <= m(g) /\ m(g) <= m(h)
      BY <1>1, <1>8, <3>1
    <3> QED BY <1>2, <3>2
  <2> QED BY <1>1, <2>1, <2>2
<1>9. QED
  BY <1>6, <1>7, <1>8 DEF Linear, R

-----------------------------------------------------------------------------
(* One entry for each document.                                            *)

DocumentsIn(hits) == {DocumentOf[h.passage] : h \in hits}

LEMMA HitIs ==
  \A h \in Hits : h.passage \in Passages /\ DocumentOf[h.passage] \in Documents
BY SearchAssumption DEF Hits

LEMMA DocumentsFinite == IsFiniteSet(Documents)
<1> DEFINE f == [p \in Passages |-> DocumentOf[p]]
<1>1. f \in Surjection(Passages, Documents)
  BY DEF Surjection, Documents
<1>2. QED
  BY <1>1, SearchAssumption, FS_Surjection

LEMMA SeqRangeFinite ==
  ASSUME NEW S, NEW seq \in Seq(S)
  PROVE  IsFiniteSet(Range(seq)) /\ Range(seq) \subseteq S
<1>1. Len(seq) \in Nat /\ seq \in [1..Len(seq) -> S] /\ IsFiniteSet(1..Len(seq))
  BY LenProperties, FS_Interval
<1>2. seq \in Surjection(1..Len(seq), Range(seq)) /\ Range(seq) \subseteq S
  BY <1>1, Fun_RangeProperties
<1>3. QED
  BY <1>1, <1>2, FS_Surjection

LEMMA CollapsedIs ==
  ASSUME NEW lexical \in Seq(Hits), NEW vector \in Seq(Hits)
  PROVE  LET hits == Range(lexical) \cup Range(vector)
             best == Collapsed(lexical, vector)
         IN  /\ best \subseteq hits /\ hits \subseteq Hits /\ IsFiniteSet(hits)
             /\ \A g, h \in best : DocumentOf[g.passage] = DocumentOf[h.passage] => g = h
             /\ DocumentsIn(best) = DocumentsIn(hits)
<1> DEFINE hits == Range(lexical) \cup Range(vector)
           best == Collapsed(lexical, vector)
           R == Fused(hits, lexical, vector)
<1>1. hits \subseteq Hits /\ IsFiniteSet(hits)
  BY SeqRangeFinite, FS_Union
<1>2. Linear(hits, R)
  BY FusionIsLinear
<1>3. best = {h \in hits : \A g \in hits :
                DocumentOf[g.passage] = DocumentOf[h.passage] => <<h, g>> \in R}
  BY DEF Collapsed, Fused
<1> HIDE DEF hits, best, R
<1>4. ASSUME NEW g \in best, NEW h \in best, DocumentOf[g.passage] = DocumentOf[h.passage]
      PROVE  g = h
  <2>1. g \in hits /\ h \in hits /\ <<g, h>> \in R /\ <<h, g>> \in R
    BY <1>3, <1>4
  <2> QED BY <1>2, <2>1 DEF Linear
<1>5. ASSUME NEW h \in hits PROVE \E b \in best : DocumentOf[b.passage] = DocumentOf[h.passage]
  <2> DEFINE same == {g \in hits : DocumentOf[g.passage] = DocumentOf[h.passage]}
  <2>1. same \in SUBSET hits /\ same # {}
    BY <1>5
  <2>2. IsFiniteSet(same)
    BY <1>1, <2>1, FS_Subset
  <2>3. Linear(same, R)
    BY <1>2, <2>1 DEF Linear
  <2>4. PICK b \in same : \A g \in same : <<b, g>> \in R
    BY <2>1, <2>2, <2>3, LinearLeast
  <2>5. b \in best
    BY <1>3, <2>4
  <2> QED BY <2>4, <2>5
<1>6. best \subseteq hits
  BY <1>3
<1>7. DocumentsIn(best) = DocumentsIn(hits)
  <2>1. \A d : d \in DocumentsIn(best) => d \in DocumentsIn(hits)
    BY <1>6 DEF DocumentsIn
  <2>2. ASSUME NEW h \in hits PROVE DocumentOf[h.passage] \in DocumentsIn(best)
    BY <1>5 DEF DocumentsIn
  <2> QED BY <2>1, <2>2 DEF DocumentsIn
<1>8. QED
  BY <1>1, <1>4, <1>6, <1>7 DEF hits, best

\* What a search shows: hits of the arms, one for each document they have a passage
\* of, and no document missing.
LEMMA RankingIs ==
  ASSUME NEW lexical \in Seq(Hits), NEW vector \in Seq(Hits)
  PROVE  LET documents == Ranking(lexical, vector)
             hits == Range(lexical) \cup Range(vector)
         IN  /\ documents \in Seq(Hits)
             /\ \A k \in 1..Len(documents) : documents[k] \in hits
             /\ \A j, k \in 1..Len(documents) :
                  DocumentOf[documents[j].passage] = DocumentOf[documents[k].passage] => j = k
             /\ \A h \in hits : \E k \in 1..Len(documents) :
                  DocumentOf[documents[k].passage] = DocumentOf[h.passage]
<1> DEFINE hits == Range(lexical) \cup Range(vector)
           best == Collapsed(lexical, vector)
           R == Fused(best, lexical, vector)
           n == Cardinality(best)
           documents == Ranking(lexical, vector)
<1>1. /\ best \subseteq hits /\ hits \subseteq Hits /\ IsFiniteSet(hits)
      /\ \A g, h \in best : DocumentOf[g.passage] = DocumentOf[h.passage] => g = h
      /\ DocumentsIn(best) = DocumentsIn(hits)
  BY CollapsedIs
<1>2. best \in SUBSET hits
  BY <1>1
<1>3. IsFiniteSet(best) /\ n \in Nat
  BY <1>1, <1>2, FS_Subset, FS_CardinalityType
<1>4. Linear(best, R)
  BY <1>2, FusionIsLinear
<1>5. Ranked(best, [h \in best |-> {g \in best : <<g, h>> \in R}])
  BY <1>4, LinearRanked
<1>6. documents = Ordered(best, [h \in best |-> {g \in best : <<g, h>> \in R}])
  BY DEF Ranking, Fused
<1>7. documents \in Bijection(1..n, best)
  BY <1>3, <1>5, <1>6, OrderedIs
<1> HIDE DEF documents, best, hits, R
<1>8. /\ documents \in [1..n -> best]
      /\ \A j, k \in 1..n : documents[j] = documents[k] => j = k
      /\ \A b \in best : \E k \in 1..n : documents[k] = b
  BY <1>7 DEF Bijection, Injection, Surjection, IsInjective
<1>9. documents \in [1..n -> Hits]
  BY <1>1, <1>8
<1>10. documents \in Seq(Hits) /\ Len(documents) = n
  BY <1>3, <1>9, FunctionIsSeq
<1>11. \A k \in 1..n : documents[k] \in hits
  BY <1>1, <1>8
<1>12. ASSUME NEW j \in 1..n, NEW k \in 1..n,
              DocumentOf[documents[j].passage] = DocumentOf[documents[k].passage]
       PROVE  j = k
  BY <1>1, <1>8, <1>12
<1>13. ASSUME NEW h \in hits
       PROVE  \E k \in 1..n : DocumentOf[documents[k].passage] = DocumentOf[h.passage]
  <2>1. DocumentOf[h.passage] \in DocumentsIn(best)
    BY <1>1 DEF DocumentsIn
  <2>2. PICK b \in best : DocumentOf[b.passage] = DocumentOf[h.passage]
    BY <2>1 DEF DocumentsIn
  <2> QED BY <1>8, <2>2
<1>14. QED
  BY <1>10, <1>11, <1>12, <1>13 DEF documents, hits

LEMMA DocumentsOfIs ==
  ASSUME NEW hits \in Seq(Hits)
  PROVE  /\ DocumentsOf(hits) \in Seq(Documents)
         /\ Len(DocumentsOf(hits)) = Len(hits)
         /\ \A k \in 1..Len(hits) : DocumentsOf(hits)[k] = DocumentOf[hits[k].passage]
<1>1. Len(hits) \in Nat
  BY LenProperties
<1>2. \A k \in 1..Len(hits) : DocumentOf[hits[k].passage] \in Documents
  BY HitIs, ElementOfSeq
<1>3. DocumentsOf(hits) \in [1..Len(hits) -> Documents]
  BY <1>2 DEF DocumentsOf
<1>4. QED
  BY <1>1, <1>3, FunctionIsSeq DEF DocumentsOf

\* There are no more entries than documents.
LEMMA EntriesBounded ==
  ASSUME NEW hits \in Seq(Hits),
         \A j, k \in 1..Len(hits) : DocumentOf[hits[j].passage] = DocumentOf[hits[k].passage] => j = k
  PROVE  IsInjective(DocumentsOf(hits)) /\ Len(hits) <= Cardinality(Documents)
<1> DEFINE ds == DocumentsOf(hits)
           n == Len(hits)
<1>1. ds \in Seq(Documents) /\ Len(ds) = n /\ n \in Nat
      /\ \A k \in 1..n : ds[k] = DocumentOf[hits[k].passage]
  BY DocumentsOfIs, LenProperties
<1>2. ds \in [1..n -> Documents] /\ DOMAIN ds = 1..n
  BY <1>1, LenProperties
<1> HIDE DEF ds
<1>3. \A j, k \in 1..n : ds[j] = ds[k] => j = k
  BY <1>1
<1>4. IsInjective(ds)
  BY <1>2, <1>3 DEF IsInjective
<1>5. ds \in Injection(1..n, Documents)
  BY <1>2, <1>4 DEF Injection
<1>6. Cardinality(1..n) <= Cardinality(Documents)
  BY <1>5, DocumentsFinite, FS_Injection
<1>7. Cardinality(1..n) = n
  <2> HIDE DEF n
  <2>1. n \in Nat
    BY <1>1
  <2>2. Cardinality(1..n) = IF 1 > n THEN 0 ELSE n - 1 + 1
    BY <2>1, FS_Interval
  <2> QED BY <2>1, <2>2
<1>8. QED
  BY <1>4, <1>6, <1>7 DEF ds

-----------------------------------------------------------------------------
(* The arms.                                                               *)

LEMMA HeldIs ==
  ASSUME NEW order \in Seq(Passages)
  PROVE  /\ Held(order) \in Seq(Passages)
         /\ Range(Held(order)) = {p \in Range(order) : stamp[DocumentOf[p]] # 0}
         /\ IsInjective(order) => IsInjective(Held(order))
<1> DEFINE I == {n \in 1..Len(order) : stamp[DocumentOf[order[n]]] # 0}
<1>1. I \in SUBSET (1..Len(order)) /\ Held(order) = Selected(order, I)
  BY DEF Held
<1>2. DOMAIN order = 1..Len(order)
  BY LenProperties
<1>3. {order[i] : i \in I} = {p \in Range(order) : stamp[DocumentOf[p]] # 0}
  BY <1>2 DEF Range
<1>4. Held(order) \in Seq(Passages)
  BY <1>1, SelectedIs
<1>5. /\ Range(Held(order)) = {order[i] : i \in I}
      /\ IsInjective(order) => IsInjective(Held(order))
  BY <1>1, SelectedMembers
<1>6. QED
  BY <1>3, <1>4, <1>5

\* An arm reports what it has, as it is, each passage once, to its depth; and
\* everything it has if it comes back short.
LEMMA RetrievedIs ==
  ASSUME NEW order \in Seq(Passages), IsInjective(order), NEW offset,
         stamp \in [Documents -> 0..(MaxEdits + 1)]
  PROVE  LET arm == Retrieved(order, offset)
         IN  /\ arm \in Seq(Hits) /\ IsInjective(arm) /\ Len(arm) <= candidates
             /\ \A k \in 1..Len(arm) :
                  /\ arm[k].passage \in Range(order)
                  /\ arm[k].stamp = stamp[DocumentOf[arm[k].passage]]
                  /\ arm[k].stamp # 0
             /\ Len(arm) < candidates =>
                  \A p \in Range(order) : stamp[DocumentOf[p]] # 0 =>
                    \E k \in 1..Len(arm) : arm[k].passage = p
<1> DEFINE held == Held(order)
           first == First(candidates, held)
           arm == Retrieved(order, offset)
<1>1. candidates \in Nat /\ MaxEdits \in Nat
  BY SearchAssumption
<1>2. /\ held \in Seq(Passages)
      /\ Range(held) = {p \in Range(order) : stamp[DocumentOf[p]] # 0}
      /\ IsInjective(held)
  BY HeldIs
<1>3. Len(held) \in Nat /\ DOMAIN held = 1..Len(held) /\ \A k \in 1..Len(held) : held[k] \in Range(held)
  BY <1>2, LenProperties DEF Range
<1>4. /\ first \in Seq(Passages)
      /\ Len(first) = IF candidates < Len(held) THEN candidates ELSE Len(held)
      /\ \A k \in 1..Len(first) : first[k] = held[k]
  BY <1>1, <1>2, FirstIs
<1>5. arm = [n \in 1..Len(first) |-> [passage |-> first[n], stamp |-> stamp[DocumentOf[first[n]]]]]
  BY DEF Retrieved, HitsOf, Hit
<1> HIDE DEF held, first, arm
<1>6. Len(first) \in Nat /\ Len(first) <= candidates /\ Len(first) <= Len(held)
  BY <1>1, <1>3, <1>4
<1>7. \A k \in 1..Len(first) :
        /\ first[k] \in Passages /\ first[k] \in Range(order)
        /\ stamp[DocumentOf[first[k]]] # 0 /\ k \in 1..Len(held)
  BY <1>2, <1>3, <1>4, <1>6, ElementOfSeq
<1>8. ASSUME NEW k \in 1..Len(first) PROVE arm[k] \in Hits
  <2>1. DocumentOf[first[k]] \in Documents
    BY <1>7, SearchAssumption
  <2>2. stamp[DocumentOf[first[k]]] \in 1..(MaxEdits + 1)
    BY <1>1, <1>7, <2>1
  <2> QED BY <1>5, <1>7, <2>2 DEF Hits
<1>9. arm \in [1..Len(first) -> Hits]
  BY <1>5, <1>8
<1>10. arm \in Seq(Hits) /\ Len(arm) = Len(first)
  BY <1>6, <1>9, FunctionIsSeq
<1>11. \A k \in 1..Len(first) : arm[k].passage = first[k] /\ arm[k].stamp = stamp[DocumentOf[first[k]]]
  BY <1>5
<1>12. IsInjective(arm)
  <2>1. \A a, b \in 1..Len(held) : held[a] = held[b] => a = b
    BY <1>2, <1>3 DEF IsInjective
  <2>2. ASSUME NEW a \in 1..Len(first), NEW b \in 1..Len(first), arm[a] = arm[b] PROVE a = b
    <3>1. held[a] = held[b]
      BY <1>4, <1>11, <2>2
    <3> QED BY <1>7, <2>1, <3>1
  <2>3. DOMAIN arm = 1..Len(first)
    BY <1>5
  <2> QED BY <2>2, <2>3 DEF IsInjective
<1>13. ASSUME Len(arm) < candidates, NEW p \in Range(order), stamp[DocumentOf[p]] # 0
       PROVE  \E k \in 1..Len(arm) : arm[k].passage = p
  <2>1. Len(first) = Len(held)
    <3>1. ASSUME candidates < Len(held) PROVE FALSE
      BY <1>1, <1>4, <1>10, <1>13, <3>1
    <3> QED BY <1>4, <3>1
  <2>2. p \in Range(held)
    BY <1>2, <1>13
  <2>3. PICK k \in 1..Len(held) : held[k] = p
    BY <1>3, <2>2 DEF Range
  <2> QED BY <1>4, <1>10, <1>11, <2>1, <2>3
<1>14. QED
  BY <1>6, <1>7, <1>10, <1>11, <1>12, <1>13 DEF arm

-----------------------------------------------------------------------------
(* Pages.                                                                  *)

\* No document twice.
OnePerDocument(hits) ==
  \A j, k \in 1..Len(hits) : DocumentOf[hits[j].passage] = DocumentOf[hits[k].passage] => j = k

LEMMA PageIs ==
  ASSUME NEW S, NEW seq \in Seq(S), NEW offset \in Nat, NEW topK \in Nat
  PROVE  LET page == SubSeq(seq, offset + 1, Smaller(offset + topK, Len(seq)))
         IN  /\ page \in Seq(S)
             /\ offset >= Len(seq) => Len(page) = 0
             /\ offset < Len(seq) /\ offset + topK < Len(seq) => Len(page) = topK
             /\ offset < Len(seq) /\ offset + topK >= Len(seq) => Len(page) = Len(seq) - offset
             /\ Len(page) <= topK
             /\ \A k \in 1..Len(page) : offset + k \in 1..Len(seq) /\ page[k] = seq[offset + k]
<1> DEFINE last == Smaller(offset + topK, Len(seq))
           page == SubSeq(seq, offset + 1, last)
<1>1. Len(seq) \in Nat
  BY LenProperties
<1>2. last \in Nat /\ last <= Len(seq) /\ last <= offset + topK
  BY <1>1 DEF Smaller
<1>3. \A i \in (offset + 1)..last : i \in 1..Len(seq) /\ seq[i] \in S
  BY <1>1, <1>2, ElementOfSeq
<1>4. /\ page \in Seq(S)
      /\ Len(page) = IF offset + 1 <= last THEN last - (offset + 1) + 1 ELSE 0
      /\ \A i \in 1..(last - (offset + 1) + 1) : page[i] = seq[offset + 1 + i - 1]
  <2> HIDE DEF last
  <2>1. offset + 1 \in Int /\ last \in Int
    BY <1>2
  <2> QED BY <1>3, <2>1, SubSeqProperties
<1>5. last = IF offset + topK < Len(seq) THEN offset + topK ELSE Len(seq)
  BY DEF Smaller
<1> HIDE DEF last, page
<1>6. Len(page) \in Nat
  BY <1>4, LenProperties
<1>7. offset >= Len(seq) => Len(page) = 0
  BY <1>1, <1>2, <1>4
<1>8. offset < Len(seq) => Len(page) = last - offset
  BY <1>1, <1>2, <1>4, <1>5
<1>9. Len(page) <= topK
  BY <1>1, <1>2, <1>7, <1>8
<1>10. ASSUME NEW k \in 1..Len(page) PROVE offset + k \in 1..Len(seq) /\ page[k] = seq[offset + k]
  <2>1. offset < Len(seq) /\ Len(page) = last - offset
    BY <1>1, <1>6, <1>7, <1>8
  <2>2. k \in 1..(last - (offset + 1) + 1) /\ offset + 1 + k - 1 = offset + k
    BY <1>2, <2>1
  <2> QED BY <1>1, <1>2, <1>4, <2>1, <2>2
<1>11. offset < Len(seq) /\ offset + topK < Len(seq) => Len(page) = topK
  BY <1>1, <1>5, <1>8
<1>12. offset < Len(seq) /\ offset + topK >= Len(seq) => Len(page) = Len(seq) - offset
  BY <1>1, <1>5, <1>8
<1>13. QED
  BY <1>4, <1>7, <1>9, <1>10, <1>11, <1>12 DEF page, last

\* What a page shows, after what is gone has been dropped, is documents, each once.
LEMMA PageOfDocuments ==
  ASSUME NEW hits \in Seq(Hits), OnePerDocument(hits), NEW offset \in Nat, NEW topK \in Nat,
         NEW I \in SUBSET (1..Len(SubSeq(hits, offset + 1, Smaller(offset + topK, Len(hits)))))
  PROVE  LET page == SubSeq(hits, offset + 1, Smaller(offset + topK, Len(hits)))
             shown == DocumentsOf(Selected(page, I))
         IN  shown \in Seq(Documents) /\ IsInjective(shown) /\ Len(shown) <= topK
<1> DEFINE page == SubSeq(hits, offset + 1, Smaller(offset + topK, Len(hits)))
           found == Selected(page, I)
<1>1. /\ page \in Seq(Hits) /\ Len(page) <= topK
      /\ \A k \in 1..Len(page) : offset + k \in 1..Len(hits) /\ page[k] = hits[offset + k]
  BY PageIs
<1> HIDE DEF page
<1>2. I \in SUBSET (1..Len(page)) /\ Len(page) \in Nat
  BY <1>1, LenProperties DEF page
<1>3. /\ found \in Seq(Hits) /\ Len(found) = Cardinality(I) /\ Cardinality(I) \in 0..Len(page)
      /\ \E at \in Bijection(1..Cardinality(I), I) :
           \A k \in 1..Cardinality(I) : found[k] = page[at[k]]
  BY <1>1, <1>2, SelectedIs
<1> HIDE DEF found
<1>4. PICK at \in Bijection(1..Cardinality(I), I) :
        \A k \in 1..Cardinality(I) : found[k] = page[at[k]]
  BY <1>3
<1>5. /\ at \in [1..Cardinality(I) -> I]
      /\ \A a, b \in 1..Cardinality(I) : at[a] = at[b] => a = b
  BY <1>4 DEF Bijection, Injection, IsInjective
<1>6. ASSUME NEW j \in 1..Len(found), NEW k \in 1..Len(found),
             DocumentOf[found[j].passage] = DocumentOf[found[k].passage]
      PROVE  j = k
  <2>1. /\ at[j] \in 1..Len(page) /\ at[k] \in 1..Len(page)
        /\ found[j] = page[at[j]] /\ found[k] = page[at[k]]
    BY <1>2, <1>3, <1>4, <1>5
  <2>2. /\ offset + at[j] \in 1..Len(hits) /\ offset + at[k] \in 1..Len(hits)
        /\ found[j] = hits[offset + at[j]] /\ found[k] = hits[offset + at[k]]
    BY <1>1, <2>1
  <2>3. offset + at[j] = offset + at[k]
    BY <1>6, <2>2 DEF OnePerDocument
  <2>4. at[j] = at[k]
    BY <2>1, <2>3
  <2> QED BY <1>3, <1>5, <2>4
<1>7. Len(found) <= topK
  BY <1>1, <1>2, <1>3
<1>8. IsInjective(DocumentsOf(found)) /\ DocumentsOf(found) \in Seq(Documents)
      /\ Len(DocumentsOf(found)) = Len(found)
  BY <1>3, <1>6, EntriesBounded, DocumentsOfIs
<1>9. QED
  BY <1>7, <1>8 DEF found, page
=============================================================================
