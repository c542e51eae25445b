--------------------------- MODULE SequenceLemmas ---------------------------
(***************************************************************************)
(* Induction over numbers and sequences, as statements about sets so that  *)
(* no operator has to be instantiated, and what it gives for the sequence  *)
(* operators the specifications are written with.                          *)
(***************************************************************************)
EXTENDS Subsequences, SequenceTheorems, WellFoundedInduction, TLAPS

\* A set of numbers that has 0 and each number's successor is all of them.
LEMMA NatSetInduction ==
  ASSUME NEW T \in SUBSET Nat, 0 \in T, \A n \in T : n + 1 \in T
  PROVE  T = Nat
<1> SUFFICES ASSUME T # Nat PROVE FALSE
  OBVIOUS
<1> DEFINE Rest == Nat \ T
           R == OpToRel(<, Nat)
<1>1. Rest # {} /\ Rest \subseteq Nat
  OBVIOUS
<1>2. IsWellFoundedOn(R, Nat)
  BY NatLessThanWellFounded
<1>3. \A x, y \in Nat : <<y, x>> \in R <=> y < x
  BY DEF OpToRel
<1> HIDE DEF R, Rest
<1>4. PICK x \in Rest : \A y \in Rest : ~ (<<y, x>> \in R)
  BY <1>1, <1>2, WFMin
<1>5. x \in Nat /\ x \notin T /\ \A y \in Nat \ T : ~ (y < x)
  BY <1>1, <1>3, <1>4 DEF Rest
<1>6. x # 0 /\ x - 1 \in Nat /\ x - 1 < x
  BY <1>5
<1>7. x - 1 \in T
  BY <1>5, <1>6
<1> QED
  BY <1>5, <1>6, <1>7

\* A set of sequences that has the empty one and, with a sequence, each longer
\* by one element is all of them.
LEMMA SeqSetInduction ==
  ASSUME NEW S, NEW T \in SUBSET Seq(S), <<>> \in T,
         \A s \in T, e \in S : Append(s, e) \in T
  PROVE  T = Seq(S)
<1> DEFINE Good == {n \in Nat : \A s \in Seq(S) : Len(s) = n => s \in T}
<1>1. 0 \in Good
  <2>1. \A s \in Seq(S) : Len(s) = 0 => s = <<>>
    OBVIOUS
  <2> QED
    BY <2>1
<1>2. ASSUME NEW n \in Nat, n \in Good PROVE n + 1 \in Good
  <2>1. ASSUME NEW s \in Seq(S), Len(s) = n + 1 PROVE s \in T
    <3>1. PICK r \in Seq(S), e \in S : s = Append(r, e)
      <4>1. s # <<>>
        BY <2>1
      <4> QED
        BY <4>1, SequenceEmptyOrAppend
    <3>2. Len(r) = n
      BY <2>1, <3>1
    <3> QED
      BY <1>2, <3>1, <3>2
  <2> QED
    BY <2>1
<1>3. Good = Nat
  <2>1. Good \subseteq Nat
    OBVIOUS
  <2> HIDE DEF Good
  <2> QED
    BY <1>1, <1>2, <2>1, NatSetInduction
<1>4. ASSUME NEW s \in Seq(S) PROVE s \in T
  <2>1. Len(s) \in Good
    BY <1>3
  <2> QED
    BY <2>1
<1> QED
  BY <1>4

\* A function on the first n numbers is a sequence.
LEMMA FunctionIsSeq ==
  ASSUME NEW S, NEW n \in Nat, NEW f \in [1 .. n -> S]
  PROVE  f \in Seq(S) /\ Len(f) = n
<1>1. f \in Seq(S)
  BY SeqDef
<1> QED
  BY <1>1

\* Appending to a sequence of some set makes one of a larger set.
LEMMA AppendSeq ==
  ASSUME NEW s, \E S : s \in Seq(S), NEW e
  PROVE  /\ \E S : Append(s, e) \in Seq(S)
         /\ Len(s) \in Nat /\ Len(Append(s, e)) = Len(s) + 1
         /\ DOMAIN s = 1 .. Len(s) /\ DOMAIN Append(s, e) = 1 .. Len(s) + 1
         /\ Append(s, e) # <<>>
         /\ \A i \in 1 .. Len(s) : Append(s, e)[i] = s[i]
         /\ Append(s, e)[Len(s) + 1] = e
<1>1. PICK S : s \in Seq(S)
  OBVIOUS
<1>2. /\ s \in Seq(S \cup {e}) /\ e \in S \cup {e}
      /\ Len(s) \in Nat /\ DOMAIN s = 1 .. Len(s)
  BY <1>1, SeqMonotonic, LenProperties
<1>3. /\ Append(s, e) \in Seq(S \cup {e})
      /\ Len(Append(s, e)) = Len(s) + 1
      /\ \A i \in 1 .. Len(s) : Append(s, e)[i] = s[i]
      /\ Append(s, e)[Len(s) + 1] = e
  BY <1>2, AppendProperties
<1>4. DOMAIN Append(s, e) = 1 .. Len(s) + 1 /\ Append(s, e) # <<>>
  BY <1>2, <1>3, LenProperties, EmptySeq
<1> QED
  BY <1>2, <1>3, <1>4

-----------------------------------------------------------------------------
(* FlattenSeq.                                                             *)

\* f[i] is the concatenation of the first i members of ss.
IsFlat(f, ss, n) ==
  f = [i \in 1 .. n |-> IF i = 1 THEN ss[i] ELSE f[i - 1] \o ss[i]]

LEMMA FlatExists ==
  ASSUME NEW ss, NEW n \in Nat
  PROVE  \E f : IsFlat(f, ss, n)
<1> DEFINE T == {k \in Nat : \E f : IsFlat(f, ss, k)}
<1>1. 0 \in T
  <2> DEFINE f == [i \in 1 .. 0 |-> ss[i]]
  <2>1. IsFlat(f, ss, 0)
    BY DEF IsFlat
  <2> QED
    BY <2>1
<1>2. ASSUME NEW k \in Nat, k \in T PROVE k + 1 \in T
  <2>1. PICK f : f = [i \in 1 .. k |-> IF i = 1 THEN ss[i] ELSE f[i - 1] \o ss[i]]
    BY <1>2 DEF IsFlat
  <2>2. \A j \in 1 .. k : f[j] = IF j = 1 THEN ss[j] ELSE f[j - 1] \o ss[j]
    BY <2>1, Zenon
  <2> DEFINE last == IF k = 0 THEN ss[1] ELSE f[k] \o ss[k + 1]
             g == [i \in 1 .. k + 1 |-> IF i <= k THEN f[i] ELSE last]
  <2>3. \A i \in 1 .. k + 1 : g[i] = IF i = 1 THEN ss[i] ELSE g[i - 1] \o ss[i]
    <3> TAKE i \in 1 .. k + 1
    <3>1. CASE i <= k
      <4>1. g[i] = f[i] /\ f[i] = IF i = 1 THEN ss[i] ELSE f[i - 1] \o ss[i]
        BY <2>2, <3>1
      <4>2. i # 1 => g[i - 1] = f[i - 1]
        BY <3>1
      <4> QED
        BY <4>1, <4>2
    <3>2. CASE i = k + 1
      <4>1. g[i] = last
        BY <3>2
      <4>2. k # 0 => g[i - 1] = f[k]
        BY <3>2
      <4> QED
        BY <3>2, <4>1, <4>2
    <3> QED
      BY <3>1, <3>2
  <2>4. DOMAIN g = 1 .. k + 1 /\ g = [i \in 1 .. k + 1 |-> g[i]]
    OBVIOUS
  <2> HIDE DEF g, last
  <2>5. g = [i \in 1 .. k + 1 |-> IF i = 1 THEN ss[i] ELSE g[i - 1] \o ss[i]]
    BY <2>3, <2>4
  <2>6. IsFlat(g, ss, k + 1)
    BY <2>5, Zenon DEF IsFlat
  <2> QED
    BY <2>6
<1>3. T = Nat
  <2> HIDE DEF T
  <2>1. T \subseteq Nat
    BY DEF T
  <2> QED
    BY <1>1, <1>2, <2>1, NatSetInduction
<1> QED
  BY <1>3

\* Two functions agree on 1 .. n.
AgreeTo(f, g, n) == \A i \in 1 .. n : f[i] = g[i]

\* Partial concatenations agree as far as what is put together does.
LEMMA FlatAgree ==
  ASSUME NEW ss, NEW tt, NEW n \in Nat, NEW m \in Nat, n <= m,
         NEW f, NEW g, IsFlat(f, ss, n), IsFlat(g, tt, m), AgreeTo(ss, tt, n)
  PROVE  AgreeTo(f, g, n)
<1> USE DEF AgreeTo
<1> DEFINE T == {k \in Nat : k = 0 \/ k > n \/ f[k] = g[k]}
<1>1. /\ \A i \in 1 .. n : f[i] = IF i = 1 THEN ss[i] ELSE f[i - 1] \o ss[i]
      /\ \A i \in 1 .. m : g[i] = IF i = 1 THEN tt[i] ELSE g[i - 1] \o tt[i]
  BY Zenon DEF IsFlat
<1>2. ASSUME NEW k \in T PROVE k + 1 \in T
  BY <1>1
<1>3. T = Nat
  <2>1. 0 \in T /\ T \subseteq Nat
    OBVIOUS
  <2> HIDE DEF T
  <2> QED
    BY <1>2, <2>1, NatSetInduction
<1> QED
  BY <1>3

\* Whatever gives the partial concatenations gives FlattenSeq.
LEMMA FlattenIs ==
  ASSUME NEW ss, Len(ss) \in Nat \ {0}, NEW f, IsFlat(f, ss, Len(ss))
  PROVE  FlattenSeq(ss) = f[Len(ss)]
<1> DEFINE flatten == CHOOSE g : IsFlat(g, ss, Len(ss))
<1>1. IsFlat(flatten, ss, Len(ss))
  BY FlatExists
<1>2. FlattenSeq(ss) = flatten[Len(ss)]
  BY DEF FlattenSeq, IsFlat
<1> HIDE DEF flatten
<1>3. AgreeTo(ss, ss, Len(ss))
  BY DEF AgreeTo
<1>4. AgreeTo(flatten, f, Len(ss))
  BY <1>1, <1>3, FlatAgree
<1> QED
  BY <1>2, <1>4 DEF AgreeTo

LEMMA FlattenEmpty == FlattenSeq(<<>>) = <<>>
  BY DEF FlattenSeq

LEMMA FlatTyped ==
  ASSUME NEW S, NEW ss \in Seq(Seq(S)), NEW f, IsFlat(f, ss, Len(ss))
  PROVE  \A i \in 1 .. Len(ss) : f[i] \in Seq(S)
<1> DEFINE T == {k \in Nat : k = 0 \/ k > Len(ss) \/ f[k] \in Seq(S)}
<1>1. \A i \in 1 .. Len(ss) : f[i] = IF i = 1 THEN ss[i] ELSE f[i - 1] \o ss[i]
  BY Zenon DEF IsFlat
<1>2. ASSUME NEW k \in Nat, k \in T PROVE k + 1 \in T
  <2>1. CASE k + 1 > Len(ss)
    BY <2>1
  <2>2. CASE k + 1 <= Len(ss)
    <3>1. ss[k + 1] \in Seq(S)
      BY <2>2
    <3>2. f[k + 1] = IF k = 0 THEN ss[k + 1] ELSE f[k] \o ss[k + 1]
      BY <1>1, <2>2
    <3>3. k # 0 => f[k] \in Seq(S)
      BY <1>2, <2>2
    <3>4. f[k + 1] \in Seq(S)
      BY <3>1, <3>2, <3>3, ConcatProperties
    <3> QED
      BY <3>4
  <2> QED
    BY <2>1, <2>2
<1>3. T = Nat
  <2>1. 0 \in T /\ T \subseteq Nat
    OBVIOUS
  <2> HIDE DEF T
  <2> QED
    BY <1>2, <2>1, NatSetInduction
<1> QED
  BY <1>3

LEMMA FlattenTyped ==
  ASSUME NEW S, NEW ss \in Seq(Seq(S))
  PROVE  FlattenSeq(ss) \in Seq(S)
<1>1. Len(ss) \in Nat
  BY LenProperties
<1>2. CASE Len(ss) = 0
  <2>1. ss = <<>>
    BY <1>2, EmptySeq
  <2> QED
    BY <2>1, FlattenEmpty, EmptySeq
<1>3. CASE Len(ss) # 0
  <2>1. PICK f : IsFlat(f, ss, Len(ss))
    BY <1>1, FlatExists
  <2>2. f[Len(ss)] \in Seq(S)
    BY <1>1, <1>3, <2>1, FlatTyped
  <2> QED
    BY <1>1, <1>3, <2>1, <2>2, FlattenIs
<1> QED
  BY <1>2, <1>3

\* FlattenSeq by its last member.
LEMMA FlattenAppend ==
  ASSUME NEW S, NEW ss \in Seq(Seq(S)), NEW t \in Seq(S)
  PROVE  FlattenSeq(Append(ss, t)) = FlattenSeq(ss) \o t
<1> DEFINE tt == Append(ss, t)
           n == Len(ss)
           m == n + 1
<1>1. /\ n \in Nat /\ Len(tt) = m /\ tt[m] = t
      /\ \A i \in 1 .. n : ss[i] = tt[i]
  BY LenProperties, AppendProperties
<1>2. m \in Nat \ {0} /\ n <= m /\ m - 1 = n
  BY <1>1
<1> HIDE DEF tt, n, m
<1>3. PICK g : IsFlat(g, tt, m)
  BY <1>2, FlatExists
<1>4. FlattenSeq(tt) = g[m]
  BY <1>1, <1>2, <1>3, FlattenIs
<1>5. g[m] = IF n = 0 THEN t ELSE g[n] \o t
  <2>1. \A i \in 1 .. m : g[i] = IF i = 1 THEN tt[i] ELSE g[i - 1] \o tt[i]
    BY <1>3, Zenon DEF IsFlat
  <2>2. m = 1 <=> n = 0
    BY <1>1 DEF m
  <2>3. m \in 1 .. m
    BY <1>2
  <2> QED
    BY <1>1, <1>2, <2>1, <2>2, <2>3
<1>6. CASE n = 0
  <2>1. ss = <<>>
    BY <1>6, EmptySeq DEF n
  <2>2. FlattenSeq(ss) = <<>>
    BY <2>1, FlattenEmpty
  <2>3. FlattenSeq(tt) = t
    BY <1>4, <1>5, <1>6
  <2> QED
    BY <2>2, <2>3, ConcatEmptySeq DEF tt
<1>7. CASE n # 0
  <2>1. PICK f : IsFlat(f, ss, n)
    BY <1>1, FlatExists
  <2>2. FlattenSeq(ss) = f[n]
    BY <1>1, <1>7, <2>1, FlattenIs DEF n
  <2>3. \A i \in 1 .. n : f[i] = g[i]
    <3>1. n \in Nat /\ m \in Nat /\ n <= m /\ AgreeTo(ss, tt, n)
      BY <1>1, <1>2 DEF AgreeTo
    <3>2. AgreeTo(f, g, n)
      BY <1>3, <2>1, <3>1, FlatAgree
    <3> QED
      BY <3>2 DEF AgreeTo
  <2>4. f[n] = g[n]
    BY <1>1, <1>7, <2>3
  <2> QED
    BY <1>4, <1>5, <1>7, <2>2, <2>4 DEF tt
<1> QED
  BY <1>6, <1>7

\* FlattenSeq of two sequences one after the other.
LEMMA FlattenConcat ==
  ASSUME NEW S, NEW ss \in Seq(Seq(S)), NEW tt \in Seq(Seq(S))
  PROVE  FlattenSeq(ss \o tt) = FlattenSeq(ss) \o FlattenSeq(tt)
<1> DEFINE T == {t \in Seq(Seq(S)) : FlattenSeq(ss \o t) = FlattenSeq(ss) \o FlattenSeq(t)}
<1>1. <<>> \in T
  <2>1. ss \o <<>> = ss /\ FlattenSeq(ss) \o <<>> = FlattenSeq(ss) /\ <<>> \in Seq(Seq(S))
    BY ConcatEmptySeq, FlattenTyped, EmptySeq
  <2> QED
    BY <2>1, FlattenEmpty
<1>2. ASSUME NEW t \in Seq(Seq(S)), t \in T, NEW u \in Seq(S) PROVE Append(t, u) \in T
  <2>1. /\ FlattenSeq(ss) \in Seq(S) /\ FlattenSeq(t) \in Seq(S) /\ ss \o t \in Seq(Seq(S))
        /\ Append(t, u) \in Seq(Seq(S))
    BY FlattenTyped, ConcatProperties, AppendProperties
  <2>2. ss \o Append(t, u) = Append(ss \o t, u)
    OBVIOUS
  <2>3. FlattenSeq(Append(ss \o t, u)) = FlattenSeq(ss \o t) \o u
    BY <2>1, FlattenAppend
  <2>4. FlattenSeq(Append(t, u)) = FlattenSeq(t) \o u
    BY FlattenAppend
  <2>5. (FlattenSeq(ss) \o FlattenSeq(t)) \o u = FlattenSeq(ss) \o (FlattenSeq(t) \o u)
    BY SMTT(20), <2>1, ConcatAssociative
  <2> QED
    BY <1>2, <2>1, <2>2, <2>3, <2>4, <2>5
<1>3. T = Seq(Seq(S))
  <2>1. T \subseteq Seq(Seq(S))
    OBVIOUS
  <2> HIDE DEF T
  <2>2. \A t \in T, u \in Seq(S) : Append(t, u) \in T
    BY <1>2, <2>1
  <2> QED
    BY <1>1, <2>1, <2>2, SeqSetInduction
<1> QED
  BY <1>3

-----------------------------------------------------------------------------
(* The members in a set.                                                   *)

LEMMA AmongEmpty == \A T : Among(<<>>, T) = <<>>
<1> SUFFICES ASSUME NEW T PROVE Among(<<>>, T) = <<>>
  OBVIOUS
<1>1. [i \in DOMAIN <<>> |-> IF <<>>[i] \in T THEN <<(<<>>[i])>> ELSE <<>>] = <<>>
  OBVIOUS
<1> QED
  BY <1>1, FlattenEmpty DEF Among

\* Each member is kept as a sequence of one, or of none.
LEMMA PickedTyped ==
  ASSUME NEW S, NEW T, NEW s \in Seq(S)
  PROVE  [i \in DOMAIN s |-> IF s[i] \in T THEN <<s[i]>> ELSE <<>>] \in Seq(Seq(S \cap T))
<1> DEFINE picked == [i \in DOMAIN s |-> IF s[i] \in T THEN <<s[i]>> ELSE <<>>]
<1>1. Len(s) \in Nat /\ DOMAIN s = 1 .. Len(s) /\ \A i \in DOMAIN s : s[i] \in S
  BY LenProperties, ElementOfSeq
<1>2. ASSUME NEW i \in DOMAIN s PROVE picked[i] \in Seq(S \cap T)
  <2>1. CASE s[i] \in T
    <3>1. s[i] \in S \cap T
      BY <1>1, <2>1
    <3>2. <<s[i]>> \in Seq(S \cap T)
      BY <3>1
    <3> QED
      BY <2>1, <3>2
  <2>2. CASE s[i] \notin T
    <3>1. picked[i] = <<>>
      BY <2>2
    <3> QED
      BY <3>1, EmptySeq
  <2> QED
    BY <2>1, <2>2
<1>3. DOMAIN picked = 1 .. Len(s)
  BY <1>1
<1>4. picked \in [1 .. Len(s) -> Seq(S \cap T)]
  BY <1>1, <1>2, <1>3 DEF picked
<1> QED
  BY <1>1, <1>4, FunctionIsSeq

LEMMA AmongTyped ==
  ASSUME NEW S, NEW T, NEW s \in Seq(S)
  PROVE  Among(s, T) \in Seq(S \cap T) /\ Among(s, T) \in Seq(S) /\ Among(s, T) \in Seq(T)
<1>1. Among(s, T) \in Seq(S \cap T)
  BY PickedTyped, FlattenTyped DEF Among
<1> QED
  BY <1>1, SeqMonotonic

\* One member more.
LEMMA AmongAppend ==
  ASSUME NEW S, NEW T, NEW s \in Seq(S), NEW e \in S
  PROVE  Among(Append(s, e), T) = IF e \in T THEN Append(Among(s, T), e) ELSE Among(s, T)
<1> DEFINE r == Append(s, e)
           ps == [i \in DOMAIN s |-> IF s[i] \in T THEN <<s[i]>> ELSE <<>>]
           pr == [i \in DOMAIN r |-> IF r[i] \in T THEN <<r[i]>> ELSE <<>>]
           p  == IF e \in T THEN <<e>> ELSE <<>>
<1>1. ps \in Seq(Seq(S \cap T)) /\ p \in Seq(S \cap T) /\ r \in Seq(S)
  <2>1. e \in T => <<e>> \in Seq(S \cap T)
    <3>1. e \in T => e \in S \cap T
      OBVIOUS
    <3> QED
      BY <3>1
  <2> QED
    BY <2>1, PickedTyped, AppendProperties, EmptySeq
<1>2. pr \in Seq(Seq(S \cap T))
  BY <1>1, PickedTyped
<1>3. /\ Len(s) \in Nat /\ DOMAIN s = 1 .. Len(s) /\ DOMAIN r = 1 .. Len(s) + 1
      /\ r[Len(s) + 1] = e
      /\ \A i \in 1 .. Len(s) : r[i] = s[i]
  BY LenProperties, AppendProperties
<1>4. /\ Len(ps) = Len(s) /\ Len(pr) = Len(s) + 1 /\ pr[Len(s) + 1] = p
      /\ \A i \in 1 .. Len(s) : pr[i] = ps[i]
  BY <1>1, <1>2, <1>3
<1> HIDE DEF r, ps, pr, p
<1>5. pr = Append(ps, p)
  <2>1. Append(ps, p) \in Seq(Seq(S \cap T)) /\ Len(Append(ps, p)) = Len(s) + 1
    BY <1>1, <1>4, AppendProperties
  <2>2. \A i \in 1 .. Len(s) + 1 : pr[i] = Append(ps, p)[i]
    BY <1>1, <1>3, <1>4, AppendProperties
  <2> QED
    BY <1>2, <1>4, <2>1, <2>2, SeqEqual
<1>6. FlattenSeq(pr) = FlattenSeq(ps) \o p
  BY <1>1, <1>5, FlattenAppend
<1>7. FlattenSeq(ps) \in Seq(S)
  BY <1>1, FlattenTyped, SeqMonotonic
<1>8. FlattenSeq(pr) = IF e \in T THEN Append(FlattenSeq(ps), e) ELSE FlattenSeq(ps)
  BY <1>6, <1>7, ConcatEmptySeq, AppendIsConcat DEF p
<1> QED
  BY <1>8 DEF Among, r, ps, pr

\* Nothing is left out of a sequence of the set.
LEMMA AmongWhole ==
  ASSUME NEW T, NEW s \in Seq(T)
  PROVE  Among(s, T) = s
<1> DEFINE Good == {t \in Seq(T) : Among(t, T) = t}
<1>1. <<>> \in Good
  BY AmongEmpty, EmptySeq
<1>2. \A t \in Good, e \in T : Append(t, e) \in Good
  BY AmongAppend, AppendProperties
<1>3. Good = Seq(T)
  <2>1. Good \subseteq Seq(T)
    OBVIOUS
  <2> HIDE DEF Good
  <2> QED
    BY <1>1, <1>2, <2>1, SeqSetInduction
<1> QED
  BY <1>3

\* There is a member in the set exactly when one is kept.
LEMMA AmongSome ==
  ASSUME NEW S, NEW T, NEW s \in Seq(S)
  PROVE  Among(s, T) # <<>> <=> \E i \in DOMAIN s : s[i] \in T
<1> DEFINE Good == {t \in Seq(S) : Among(t, T) # <<>> <=> \E i \in DOMAIN t : t[i] \in T}
<1>1. <<>> \in Good
  BY AmongEmpty, EmptySeq
<1>2. ASSUME NEW t \in Seq(S), t \in Good, NEW e \in S PROVE Append(t, e) \in Good
  <2> DEFINE u == Append(t, e)
  <2>1. /\ u \in Seq(S)
        /\ Len(t) \in Nat /\ DOMAIN t = 1 .. Len(t) /\ DOMAIN u = 1 .. Len(t) + 1
        /\ u[Len(t) + 1] = e
        /\ \A i \in 1 .. Len(t) : u[i] = t[i]
    BY LenProperties, AppendProperties
  <2>2. Among(u, T) = IF e \in T THEN Append(Among(t, T), e) ELSE Among(t, T)
    BY AmongAppend
  <2>3. e \in T => Append(Among(t, T), e) # <<>>
    BY AmongTyped, AppendProperties
  <2> HIDE DEF u
  <2>4. (\E i \in DOMAIN u : u[i] \in T) <=> e \in T \/ \E i \in DOMAIN t : t[i] \in T
    BY <2>1
  <2> QED
    BY <1>2, <2>1, <2>2, <2>3, <2>4 DEF u
<1>3. Good = Seq(S)
  <2>1. Good \subseteq Seq(S)
    OBVIOUS
  <2> HIDE DEF Good
  <2>2. \A t \in Good, e \in S : Append(t, e) \in Good
    BY <1>2, <2>1
  <2> QED
    BY <1>1, <2>1, <2>2, SeqSetInduction
<1> QED
  BY <1>3
-----------------------------------------------------------------------------
(* A sequence mapped member by member, and mapped and flattened.           *)

Mapped(s, g)  == [i \in DOMAIN s |-> g[s[i]]]
FlatMap(s, g) == FlattenSeq(Mapped(s, g))

\* A function applied to each member gives as many members of its range.
LEMMA MappedTyped ==
  ASSUME NEW S, NEW T, NEW g \in [S -> T], NEW s \in Seq(S)
  PROVE  /\ Mapped(s, g) \in Seq(T) /\ Len(Mapped(s, g)) = Len(s)
         /\ DOMAIN Mapped(s, g) = 1 .. Len(s)
         /\ \A i \in 1 .. Len(s) : Mapped(s, g)[i] = g[s[i]]
<1>1. Len(s) \in Nat /\ DOMAIN s = 1 .. Len(s) /\ \A i \in 1 .. Len(s) : s[i] \in S
  BY LenProperties, ElementOfSeq
<1>2. Mapped(s, g) \in [1 .. Len(s) -> T] /\ \A i \in 1 .. Len(s) : Mapped(s, g)[i] = g[s[i]]
  BY <1>1 DEF Mapped
<1>3. Mapped(s, g) \in Seq(T) /\ Len(Mapped(s, g)) = Len(s)
  BY <1>1, <1>2, FunctionIsSeq
<1> QED
  BY <1>2, <1>3

\* What the members of two sequences are mapped to, put end to end.
LEMMA MappedConcat ==
  ASSUME NEW S, NEW T, NEW g \in [S -> T], NEW s \in Seq(S), NEW t \in Seq(S)
  PROVE  Mapped(s \o t, g) = Mapped(s, g) \o Mapped(t, g)
<1> DEFINE n == Len(s)
           m == Len(t)
           ms == Mapped(s, g)
           mt == Mapped(t, g)
           mst == Mapped(s \o t, g)
<1>1. /\ n \in Nat /\ m \in Nat /\ s \o t \in Seq(S) /\ Len(s \o t) = n + m
      /\ \A i \in 1 .. n + m : (s \o t)[i] = IF i <= n THEN s[i] ELSE t[i - n]
  BY LenProperties, ConcatProperties
<1>2. /\ ms \in Seq(T) /\ Len(ms) = n /\ \A i \in 1 .. n : ms[i] = g[s[i]]
      /\ mt \in Seq(T) /\ Len(mt) = m /\ \A i \in 1 .. m : mt[i] = g[t[i]]
      /\ mst \in Seq(T) /\ Len(mst) = n + m
      /\ \A i \in 1 .. n + m : mst[i] = g[(s \o t)[i]]
  <2>1. ASSUME NEW r \in Seq(S)
        PROVE  /\ Mapped(r, g) \in Seq(T) /\ Len(Mapped(r, g)) = Len(r)
               /\ \A i \in 1 .. Len(r) : Mapped(r, g)[i] = g[r[i]]
    BY MappedTyped
  <2>2. /\ mst \in Seq(T) /\ Len(mst) = Len(s \o t)
        /\ \A i \in 1 .. Len(s \o t) : mst[i] = g[(s \o t)[i]]
    BY <1>1, <2>1
  <2> QED
    BY <1>1, <2>1, <2>2
<1>3. /\ ms \o mt \in Seq(T) /\ Len(ms \o mt) = n + m
      /\ \A i \in 1 .. n + m : (ms \o mt)[i] = IF i <= n THEN ms[i] ELSE mt[i - n]
  BY <1>2, ConcatProperties
<1> HIDE DEF n, m, ms, mt, mst
<1>4. ASSUME NEW i \in 1 .. n + m PROVE mst[i] = (ms \o mt)[i]
  <2>1. /\ mst[i] = g[(s \o t)[i]]
        /\ (s \o t)[i] = IF i <= n THEN s[i] ELSE t[i - n]
        /\ (ms \o mt)[i] = IF i <= n THEN ms[i] ELSE mt[i - n]
    BY <1>1, <1>2, <1>3, Zenon
  <2>2. CASE i <= n
    <3>1. i \in 1 .. n
      BY <1>1, <2>2
    <3> QED
      BY <1>2, <2>1, <2>2, <3>1, Zenon
  <2>3. CASE ~ i <= n
    <3>1. i - n \in 1 .. m
      BY <1>1, <2>3
    <3> QED
      BY <1>2, <2>1, <2>3, <3>1, Zenon
  <2> QED
    BY <2>2, <2>3
<1>5. mst = ms \o mt
  BY <1>2, <1>3, <1>4, SeqEqual
<1> QED
  BY <1>5 DEF mst, ms, mt

LEMMA MappedOne ==
  ASSUME NEW S, NEW T, NEW g \in [S -> T], NEW e \in S
  PROVE  Mapped(<<e>>, g) = <<g[e]>>
<1>1. <<e>> \in Seq(S) /\ Len(<<e>>) = 1 /\ <<e>>[1] = e
  OBVIOUS
<1>2. /\ Mapped(<<e>>, g) \in Seq(T) /\ Len(Mapped(<<e>>, g)) = 1
      /\ Mapped(<<e>>, g)[1] = g[e]
  <2> DEFINE r == <<e>>
  <2>1. r \in Seq(S) /\ Len(r) = 1 /\ r[1] = e
    BY <1>1
  <2> HIDE DEF r
  <2>2. /\ Mapped(r, g) \in Seq(T) /\ Len(Mapped(r, g)) = 1
        /\ \A i \in 1 .. 1 : Mapped(r, g)[i] = g[r[i]]
    BY <2>1, MappedTyped
  <2> QED
    BY <2>1, <2>2 DEF r
<1>3. <<g[e]>> \in Seq(T) /\ Len(<<g[e]>>) = 1 /\ <<g[e]>>[1] = g[e]
  OBVIOUS
<1> QED
  BY <1>2, <1>3, SeqEqual

LEMMA MappedAppend ==
  ASSUME NEW S, NEW T, NEW g \in [S -> T], NEW s \in Seq(S), NEW e \in S
  PROVE  Mapped(Append(s, e), g) = Append(Mapped(s, g), g[e])
<1>1. <<e>> \in Seq(S) /\ Append(s, e) = s \o <<e>>
  BY AppendIsConcat
<1>2. Mapped(Append(s, e), g) = Mapped(s, g) \o <<g[e]>>
  <2>1. Mapped(s \o <<e>>, g) = Mapped(s, g) \o Mapped(<<e>>, g)
    BY <1>1, MappedConcat, Zenon
  <2> QED
    BY <1>1, <2>1, MappedOne, Zenon
<1>3. Mapped(s, g) \in Seq(T) /\ g[e] \in T
  BY MappedTyped
<1> QED
  BY <1>2, <1>3, AppendIsConcat

LEMMA FlatMapEmpty == \A g : FlatMap(<<>>, g) = <<>>
<1>1. \A g : Mapped(<<>>, g) = <<>>
  BY DEF Mapped
<1> QED
  BY <1>1, FlattenEmpty DEF FlatMap

LEMMA FlatMapTyped ==
  ASSUME NEW S, NEW T, NEW g \in [S -> Seq(T)], NEW s \in Seq(S)
  PROVE  FlatMap(s, g) \in Seq(T)
  BY MappedTyped, FlattenTyped DEF FlatMap

LEMMA FlatMapAppend ==
  ASSUME NEW S, NEW T, NEW g \in [S -> Seq(T)], NEW s \in Seq(S), NEW e \in S
  PROVE  FlatMap(Append(s, e), g) = FlatMap(s, g) \o g[e]
<1>1. Mapped(s, g) \in Seq(Seq(T)) /\ g[e] \in Seq(T)
  BY MappedTyped
<1>2. Mapped(Append(s, e), g) = Append(Mapped(s, g), g[e])
  BY MappedAppend
<1> QED
  BY <1>1, <1>2, FlattenAppend DEF FlatMap

LEMMA FlatMapConcat ==
  ASSUME NEW S, NEW T, NEW g \in [S -> Seq(T)], NEW s \in Seq(S), NEW t \in Seq(S)
  PROVE  FlatMap(s \o t, g) = FlatMap(s, g) \o FlatMap(t, g)
<1>1. Mapped(s, g) \in Seq(Seq(T)) /\ Mapped(t, g) \in Seq(Seq(T))
  BY MappedTyped
<1>2. Mapped(s \o t, g) = Mapped(s, g) \o Mapped(t, g)
  BY MappedConcat
<1> QED
  BY <1>1, <1>2, FlattenConcat DEF FlatMap

\* Without its last member an appended sequence is what it was.
LEMMA FrontAppend ==
  ASSUME NEW s, \E S : s \in Seq(S), NEW e
  PROVE  Front(Append(s, e)) = s /\ Last(Append(s, e)) = e /\ Append(s, e) # <<>>
<1>1. PICK S : s \in Seq(S)
  OBVIOUS
<1>2. /\ Len(s) \in Nat /\ Len(Append(s, e)) = Len(s) + 1 /\ Append(s, e) # <<>>
      /\ \A i \in 1 .. Len(s) : Append(s, e)[i] = s[i]
      /\ Append(s, e)[Len(s) + 1] = e
      /\ \A i \in 1 .. Len(s) : s[i] \in S
  BY <1>1, AppendSeq, ElementOfSeq
<1> DEFINE r == Append(s, e)
           f == SubSeq(r, 1, Len(s))
<1> HIDE DEF r
<1>3. f \in Seq(S) /\ Len(f) = Len(s) /\ \A i \in 1 .. Len(s) : f[i] = s[i]
  <2>1. \A i \in 1 .. Len(s) : r[i] \in S /\ r[i] = s[i]
    BY <1>2 DEF r
  <2>2. Len(s) = 0 \/ 1 <= Len(s)
    BY <1>2
  <2> HIDE DEF f
  <2>3. /\ f \in Seq(S)
        /\ Len(f) = IF 1 <= Len(s) THEN Len(s) - 1 + 1 ELSE 0
        /\ \A i \in 1 .. Len(s) - 1 + 1 : f[i] = r[1 + i - 1]
    BY <1>2, <2>1, SubSeqProperties DEF f
  <2> QED
    BY <1>2, <2>1, <2>2, <2>3
<1>4. f = s
  BY <1>1, <1>3, SeqEqual
<1> QED
  BY <1>2, <1>4 DEF Front, Last, r

\* The types of the events of a log: one event more, and the last of them.
LEMMA TypesFacts ==
  ASSUME NEW S, NEW s \in Seq(S)
  PROVE  LET types == [i \in DOMAIN s |-> s[i].type]
         IN  /\ types \in Seq({e.type : e \in S}) /\ Len(types) = Len(s)
             /\ s = <<>> <=> types = <<>>
             /\ s # <<>> => types[Len(types)] = s[Len(s)].type
             /\ \A e \in S : [i \in DOMAIN Append(s, e) |-> Append(s, e)[i].type]
                               = Append(types, e.type)
<1> DEFINE T == {e.type : e \in S}
           g == [e \in S |-> e.type]
           types(r) == [i \in DOMAIN r |-> r[i].type]
<1>1. g \in [S -> T]
  OBVIOUS
<1>2. ASSUME NEW r \in Seq(S) PROVE types(r) = Mapped(r, g)
  <2>1. \A i \in DOMAIN r : r[i] \in S
    BY LenProperties
  <2> QED
    BY <2>1 DEF Mapped
<1>3. \A e \in S : g[e] = e.type
  OBVIOUS
<1> HIDE DEF T, g
<1>4. ASSUME NEW r \in Seq(S)
      PROVE  /\ Mapped(r, g) \in Seq(T) /\ Len(Mapped(r, g)) = Len(r)
             /\ \A i \in 1 .. Len(r) : Mapped(r, g)[i] = g[r[i]]
  BY <1>1, MappedTyped
<1>5. \A i \in 1 .. Len(s) : Mapped(s, g)[i] = g[s[i]]
  BY <1>4
<1>6. /\ Len(s) \in Nat /\ (s = <<>> <=> Len(s) = 0)
      /\ Mapped(s, g) = <<>> <=> Len(Mapped(s, g)) = 0
  BY <1>4, LenProperties, EmptySeq
<1>7. s # <<>> => Mapped(s, g)[Len(s)] = s[Len(s)].type
  <2>1. s # <<>> => Len(s) \in 1 .. Len(s) /\ s[Len(s)] \in S
    BY <1>6, ElementOfSeq
  <2> QED
    BY <1>3, <1>5, <2>1
<1>8. ASSUME NEW e \in S PROVE types(Append(s, e)) = Append(types(s), e.type)
  <2>1. Append(s, e) \in Seq(S)
    BY AppendProperties
  <2>2. Mapped(Append(s, e), g) = Append(Mapped(s, g), g[e])
    BY <1>1, MappedAppend
  <2> HIDE DEF types
  <2> QED
    BY <1>2, <1>3, <2>1, <2>2
<1>9. /\ types(s) \in Seq(T) /\ Len(types(s)) = Len(s)
      /\ s = <<>> <=> types(s) = <<>>
      /\ s # <<>> => types(s)[Len(types(s))] = s[Len(s)].type
  <2> HIDE DEF types
  <2> QED
    BY <1>2, <1>4, <1>6, <1>7
<1> QED
  BY <1>8, <1>9 DEF T

\* A queue's head appended to a sequence, and the rest of the queue after it.
LEMMA MoveHead ==
  ASSUME NEW S, NEW s \in Seq(S), NEW q \in Seq(S), q # <<>>
  PROVE  /\ Head(q) \in S /\ Tail(q) \in Seq(S) /\ Append(s, Head(q)) \in Seq(S)
         /\ Append(s, Head(q)) \o Tail(q) = s \o q
<1>1. /\ Head(q) \in S /\ Tail(q) \in Seq(S) /\ Append(s, Head(q)) = s \o <<Head(q)>>
      /\ <<Head(q)>> \in Seq(S) /\ Append(s, Head(q)) \in Seq(S)
  BY HeadTailProperties, AppendIsConcat, AppendProperties
<1>2. q = <<Head(q)>> \o Tail(q)
  OBVIOUS
<1>3. (s \o <<Head(q)>>) \o Tail(q) = s \o (<<Head(q)>> \o Tail(q))
  BY <1>1, ConcatAssociative
<1> QED
  BY <1>1, <1>2, <1>3

\* A sequence of sequences given by its members, with one more.
LEMMA FlattenGrows ==
  ASSUME NEW T, NEW n \in Nat, NEW f \in [1 .. n -> Seq(T)], NEW g \in [1 .. n + 1 -> Seq(T)],
         \A i \in 1 .. n : g[i] = f[i]
  PROVE  FlattenSeq(g) = FlattenSeq(f) \o g[n + 1] /\ FlattenSeq(f) \in Seq(T)
<1>1. f \in Seq(Seq(T)) /\ Len(f) = n
  BY FunctionIsSeq
<1>2. g \in Seq(Seq(T)) /\ Len(g) = n + 1 /\ g[n + 1] \in Seq(T)
  BY FunctionIsSeq
<1>3. /\ Append(f, g[n + 1]) \in Seq(Seq(T)) /\ Len(Append(f, g[n + 1])) = n + 1
      /\ \A i \in 1 .. n : Append(f, g[n + 1])[i] = f[i]
      /\ Append(f, g[n + 1])[n + 1] = g[n + 1]
  BY <1>1, <1>2, AppendProperties
<1>4. ASSUME NEW i \in 1 .. n + 1 PROVE g[i] = Append(f, g[n + 1])[i]
  <2>1. CASE i \in 1 .. n
    BY <1>3, <2>1
  <2>2. CASE i = n + 1
    BY <1>3, <2>2
  <2> QED
    BY <2>1, <2>2
<1>5. g = Append(f, g[n + 1])
  BY <1>2, <1>3, <1>4, SeqEqual
<1> QED
  BY <1>1, <1>2, <1>5, FlattenAppend, FlattenTyped

\* Empty sequences put end to end are an empty one.
LEMMA FlattenNothing ==
  ASSUME NEW n \in Nat, NEW f, f = [i \in 1 .. n |-> <<>>]
  PROVE  FlattenSeq(f) = <<>>
<1>1. f \in Seq(Seq({}))
  <2>1. <<>> \in Seq({})
    OBVIOUS
  <2>2. f \in [1 .. n -> Seq({})]
    BY <2>1
  <2> QED
    BY <2>2, FunctionIsSeq
<1>2. FlattenSeq(f) \in Seq({})
  BY <1>1, FlattenTyped
<1> QED
  BY <1>2, EmptySeq, ElementOfSeq

\* What is whole is a prefix of itself, and so is what it starts with.
LEMMA PrefixOfConcat ==
  ASSUME NEW S, NEW s \in Seq(S), NEW t \in Seq(S)
  PROVE  IsPrefix(s, s \o t) /\ Len(s \o t) = Len(s) + Len(t)
<1>1. /\ s \o t \in Seq(S) /\ Len(s) \in Nat /\ Len(t) \in Nat /\ Len(s \o t) = Len(s) + Len(t)
      /\ \A i \in 1 .. Len(s) : (s \o t)[i] = s[i]
  BY ConcatProperties, LenProperties
<1> DEFINE n == Len(s)
           r == s \o t
<1>2. \A i \in 1 .. n : s[i] \in S /\ r[i] = s[i]
  BY <1>1, ElementOfSeq
<1> HIDE DEF n, r
<1>3. n \in Nat
  BY <1>1 DEF n
<1>4. /\ SubSeq(s, 1, n) \in Seq(S) /\ SubSeq(r, 1, n) \in Seq(S)
      /\ Len(SubSeq(s, 1, n)) = n /\ Len(SubSeq(r, 1, n)) = n
      /\ \A i \in 1 .. n : SubSeq(s, 1, n)[i] = SubSeq(r, 1, n)[i]
  <2>1. ASSUME NEW u, \A i \in 1 .. n : u[i] = s[i]
        PROVE  /\ SubSeq(u, 1, n) \in Seq(S) /\ Len(SubSeq(u, 1, n)) = n
               /\ \A i \in 1 .. n : SubSeq(u, 1, n)[i] = s[i]
    <3>1. \A i \in 1 .. n : u[i] \in S
      BY <1>2, <2>1
    <3>2. /\ SubSeq(u, 1, n) \in Seq(S)
          /\ Len(SubSeq(u, 1, n)) = IF 1 <= n THEN n - 1 + 1 ELSE 0
          /\ \A i \in 1 .. n - 1 + 1 : SubSeq(u, 1, n)[i] = u[1 + i - 1]
      BY <1>3, <3>1, SubSeqProperties
    <3> QED
      BY <1>3, <2>1, <3>2
  <2> QED
    BY <1>2, <2>1
<1>5. SubSeq(s, 1, n) = SubSeq(r, 1, n)
  BY <1>4, SeqEqual
<1> QED
  BY <1>1, <1>5 DEF IsPrefix, n, r

\* The last member kept is a member.
LEMMA AmongLast ==
  ASSUME NEW S, NEW T, NEW s \in Seq(S), Among(s, T) # <<>>
  PROVE  \E i \in DOMAIN s : s[i] \in T /\ s[i] = Last(Among(s, T))
<1> DEFINE Holds(t) == Among(t, T) # <<>> => \E i \in DOMAIN t : t[i] \in T /\ t[i] = Last(Among(t, T))
           Good == {t \in Seq(S) : Holds(t)}
<1>1. <<>> \in Good
  BY AmongEmpty, EmptySeq
<1>2. ASSUME NEW t \in Seq(S), t \in Good, NEW e \in S PROVE Append(t, e) \in Good
  <2> DEFINE u == Append(t, e)
  <2>1. /\ u \in Seq(S)
        /\ DOMAIN t \subseteq DOMAIN u
        /\ Len(t) + 1 \in DOMAIN u /\ u[Len(t) + 1] = e
        /\ \A i \in DOMAIN t : u[i] = t[i]
    BY LenProperties, AppendProperties
  <2>2. Among(u, T) = IF e \in T THEN Append(Among(t, T), e) ELSE Among(t, T)
    BY AmongAppend
  <2>3. e \in T => Last(Append(Among(t, T), e)) = e
    BY AmongTyped, FrontAppend
  <2>4. Holds(t)
    BY <1>2
  <2> HIDE DEF u
  <2>5. Holds(u)
    BY <2>1, <2>2, <2>3, <2>4
  <2> QED
    BY <2>1, <2>5 DEF u
<1>3. Good = Seq(S)
  <2>1. Good \subseteq Seq(S) /\ \A t \in Good, e \in S : Append(t, e) \in Good
    BY <1>2
  <2> HIDE DEF Good
  <2> QED
    BY <1>1, <2>1, SeqSetInduction
<1> QED
  BY <1>3

\* The last of a sequence with one more.
LEMMA LastAppended ==
  ASSUME NEW S, NEW s \in Seq(S), NEW e
  PROVE  Append(s, e) # <<>> /\ Last(Append(s, e)) = e
  BY FrontAppend

\* What a sequence with one more has.
LEMMA RangeAppend ==
  ASSUME NEW S, NEW s \in Seq(S), NEW e \in S
  PROVE  Range(Append(s, e)) = Range(s) \cup {e}
<1> DEFINE v == Append(s, e)
           m == Len(s)
<1>1. /\ m \in Nat /\ DOMAIN s = 1 .. m /\ DOMAIN v = 1 .. m + 1
      /\ \A k \in 1 .. m : v[k] = s[k]
      /\ v[m + 1] = e
  BY AppendProperties, LenProperties
<1>2. \A k \in 1 .. m + 1 : k \in 1 .. m \/ k = m + 1
  BY <1>1
<1> HIDE DEF v, m
<1>3. Range(v) \subseteq Range(s) \cup {e}
  BY <1>1, <1>2 DEF Range
<1>4. m + 1 \in DOMAIN v /\ DOMAIN s \subseteq DOMAIN v
  BY <1>1
<1>5. Range(s) \cup {e} \subseteq Range(v)
  BY <1>1, <1>4 DEF Range
<1> QED
  BY <1>3, <1>5 DEF v

\* A sequence is what comes before one of its places, that place, and the rest.
LEMMA CutAt ==
  ASSUME NEW S, NEW s \in Seq(S), NEW n \in 1 .. Len(s)
  PROVE  /\ SubSeq(s, 1, n - 1) \in Seq(S) /\ DOMAIN SubSeq(s, 1, n - 1) = 1 .. n - 1
         /\ \A k \in 1 .. n - 1 : SubSeq(s, 1, n - 1)[k] = s[k]
         /\ <<s[n]>> \in Seq(S) /\ SubSeq(s, n + 1, Len(s)) \in Seq(S)
         /\ s = SubSeq(s, 1, n - 1) \o (<<s[n]>> \o SubSeq(s, n + 1, Len(s)))
<1> DEFINE m == Len(s)
<1>1. m \in Nat /\ n \in Int /\ n - 1 \in Int /\ n + 1 \in Int /\ \A k \in 1 .. m : s[k] \in S
  BY LenProperties
<1>2. /\ SubSeq(s, 1, n - 1) \in Seq(S) /\ Len(SubSeq(s, 1, n - 1)) = n - 1
      /\ \A k \in 1 .. n - 1 : SubSeq(s, 1, n - 1)[k] = s[k]
  <2>1. \A k \in 1 .. n - 1 : s[k] \in S
    BY <1>1
  <2>2. /\ SubSeq(s, 1, n - 1) \in Seq(S)
        /\ Len(SubSeq(s, 1, n - 1)) = IF 1 <= n - 1 THEN (n - 1) - 1 + 1 ELSE 0
        /\ \A k \in 1 .. (n - 1) - 1 + 1 : SubSeq(s, 1, n - 1)[k] = s[1 + k - 1]
    BY <1>1, <2>1, SubSeqProperties
  <2>3. (n - 1) - 1 + 1 = n - 1 /\ \A k \in 1 .. n - 1 : 1 + k - 1 = k
    BY <1>1
  <2> QED
    BY <1>1, <2>2, <2>3
<1>3. SubSeq(s, n + 1, m) \in Seq(S)
  <2>1. \A k \in n + 1 .. m : s[k] \in S
    BY <1>1
  <2> QED
    BY <1>1, <2>1, SubSeqProperties
<1>4. SubSeq(s, 1, n - 1) \o SubSeq(s, n, m) = SubSeq(s, 1, m)
  <2>1. 1 \in 1 .. m + 1 /\ n - 1 \in 1 - 1 .. m /\ m \in n - 1 .. m /\ (n - 1) + 1 = n
    BY <1>1
  <2>2. SubSeq(s, 1, n - 1) \o SubSeq(s, (n - 1) + 1, m) = SubSeq(s, 1, m)
    BY <2>1, ConcatAdjacentSubSeq
  <2> QED
    BY <2>1, <2>2
<1>5. SubSeq(s, n, m) = <<s[n]>> \o SubSeq(s, n + 1, m)
  <2>1. m \in n .. m
    BY <1>1
  <2> QED
    BY <2>1, SubSeqRecursiveFirst
<1>6. SubSeq(s, 1, m) = s
  BY SubSeqFull
<1>7. <<s[n]>> \in Seq(S)
  BY <1>1
<1>8. DOMAIN SubSeq(s, 1, n - 1) = 1 .. n - 1
  BY <1>2, LenProperties
<1> QED
  BY <1>2, <1>3, <1>4, <1>5, <1>6, <1>7, <1>8

\* The places before one.
LEMMA EarlierPlaces == \A m \in Nat : \A n \in 1 .. m : \A k \in 1 .. n - 1 : k \in 1 .. m /\ k < n
  OBVIOUS

\* Appending to nothing.
LEMMA AppendNone == \A x : Append(<<>>, x) = <<x>>
  OBVIOUS

\* What comes after a place was in the sequence.
LEMMA RestRange ==
  ASSUME NEW S, NEW s \in Seq(S), NEW n \in 1 .. Len(s)
  PROVE  Range(SubSeq(s, n + 1, Len(s))) \subseteq Range(s)
<1> DEFINE m == Len(s)
           r == SubSeq(s, n + 1, m)
<1>1. m \in Nat /\ DOMAIN s = 1 .. m /\ n \in Int /\ n + 1 \in Int
  BY LenProperties
<1>2. \A i \in n + 1 .. m : s[i] \in Range(s)
  BY <1>1 DEF Range
<1>3. r \in Seq(Range(s))
  BY <1>1, <1>2, SubSeqProperties
<1> HIDE DEF r
<1>4. \A k \in DOMAIN r : r[k] \in Range(s)
  BY <1>3, LenProperties
<1>5. Range(r) \subseteq Range(s)
  BY <1>4 DEF Range
<1> QED
  BY <1>5 DEF r

\* Places are numbers.
LEMMA PlacesAreNat == \A m \in Nat : 1 .. m \subseteq Nat
  OBVIOUS

\* Some numbers, if there are any, have a least one.
LEMMA LeastExists == \A T \in SUBSET Nat : T # {} => \E n \in T : \A m \in T : n <= m
<1> SUFFICES ASSUME NEW T \in SUBSET Nat, \A n \in T : ~ \A m \in T : n <= m PROVE T = {}
  OBVIOUS
<1> DEFINE Below == {n \in Nat : \A m \in T : n <= m}
<1>1. 0 \in Below
  OBVIOUS
<1>2. ASSUME NEW n \in Below PROVE n + 1 \in Below
  <2>1. n \in Nat /\ n \notin T /\ \A m \in T : n <= m /\ m # n
    OBVIOUS
  <2> QED
    BY <2>1
<1>3. Below = Nat
  <2> HIDE DEF Below
  <2>1. Below \in SUBSET Nat
    BY DEF Below
  <2> QED
    BY <1>1, <1>2, <2>1, NatSetInduction
<1>4. ASSUME NEW m \in T PROVE FALSE
  <2>1. m + 1 \in Below
    BY <1>3
  <2>2. m + 1 <= m
    BY <2>1
  <2> QED
    BY <2>2
<1> QED
  BY <1>4

-----------------------------------------------------------------------------
(* What is kept of a sequence that is put together, mapped, or sifted again. *)

\* Only what is in the sequence matters.
LEMMA AmongSame ==
  ASSUME NEW s, NEW T, NEW U, \A i \in DOMAIN s : s[i] \in T <=> s[i] \in U
  PROVE  Among(s, T) = Among(s, U)
<1>1. [i \in DOMAIN s |-> IF s[i] \in T THEN <<s[i]>> ELSE <<>>]
        = [i \in DOMAIN s |-> IF s[i] \in U THEN <<s[i]>> ELSE <<>>]
  OBVIOUS
<1> QED
  BY <1>1 DEF Among

\* What is mapped into a set.
MappedInto(S, g, T) == {e \in S : g[e] \in T}

\* Mapping keeps the members apart: those of the image are the images of those.
LEMMA AmongMapped ==
  ASSUME NEW S, NEW T, NEW g, g = [e \in S |-> g[e]], NEW s \in Seq(S)
  PROVE  Among(Mapped(s, g), T) = Mapped(Among(s, MappedInto(S, g, T)), g)
<1> DEFINE U == MappedInto(S, g, T)
           Good == {t \in Seq(S) : Among(Mapped(t, g), T) = Mapped(Among(t, U), g)}
           R == {g[e] : e \in S}
<1>0. g \in [S -> R]
  OBVIOUS
<1> HIDE DEF R
<1>1. <<>> \in Good
  <2>1. Mapped(<<>>, g) = <<>>
    BY DEF Mapped
  <2> QED
    BY <2>1, AmongEmpty, EmptySeq
<1>2. ASSUME NEW t \in Seq(S), t \in Good, NEW e \in S PROVE Append(t, e) \in Good
  <2>1. Append(t, e) \in Seq(S) /\ Mapped(t, g) \in Seq(R) /\ g[e] \in R /\ Among(t, U) \in Seq(S)
    BY <1>0, MappedTyped, AmongTyped, AppendProperties
  <2>2. Mapped(Append(t, e), g) = Append(Mapped(t, g), g[e])
    BY ZenonT(40), <1>0, MappedAppend
  <2>3. Among(Append(Mapped(t, g), g[e]), T)
          = IF g[e] \in T THEN Append(Among(Mapped(t, g), T), g[e]) ELSE Among(Mapped(t, g), T)
    BY <2>1, AmongAppend
  <2>4. Among(Append(t, e), U) = IF e \in U THEN Append(Among(t, U), e) ELSE Among(t, U)
    BY AmongAppend
  <2>5. Mapped(Append(Among(t, U), e), g) = Append(Mapped(Among(t, U), g), g[e])
    BY ZenonT(40), <1>0, <2>1, MappedAppend
  <2>6. Among(Mapped(t, g), T) = Mapped(Among(t, U), g)
    BY <1>2
  <2>7. e \in U <=> g[e] \in T
    BY DEF MappedInto
  <2> HIDE DEF U
  <2> QED
    BY <2>1, <2>2, <2>3, <2>4, <2>5, <2>6, <2>7
<1>3. Good = Seq(S)
  <2>1. Good \subseteq Seq(S)
    OBVIOUS
  <2>2. \A t \in Good, e \in S : Append(t, e) \in Good
    BY <1>2, <2>1
  <2> HIDE DEF Good
  <2> QED
    BY <1>1, <2>1, <2>2, SeqSetInduction
<1> QED
  BY <1>3

\* Of those in one set, those in another.
LEMMA AmongAmong ==
  ASSUME NEW S, NEW T, NEW U, NEW s \in Seq(S)
  PROVE  Among(Among(s, T), U) = Among(s, T \cap U)
<1> DEFINE Good == {t \in Seq(S) : Among(Among(t, T), U) = Among(t, T \cap U)}
<1>1. <<>> \in Good
  BY AmongEmpty, EmptySeq
<1>2. ASSUME NEW t \in Seq(S), t \in Good, NEW e \in S PROVE Append(t, e) \in Good
  <2>1. Append(t, e) \in Seq(S) /\ Among(t, T) \in Seq(S)
    BY AmongTyped, AppendProperties
  <2>2. Among(Append(t, e), T) = IF e \in T THEN Append(Among(t, T), e) ELSE Among(t, T)
    BY AmongAppend
  <2>3. Among(Append(Among(t, T), e), U)
          = IF e \in U THEN Append(Among(Among(t, T), U), e) ELSE Among(Among(t, T), U)
    BY <2>1, AmongAppend
  <2>4. Among(Append(t, e), T \cap U)
          = IF e \in T \cap U THEN Append(Among(t, T \cap U), e) ELSE Among(t, T \cap U)
    BY AmongAppend
  <2>5. Among(Among(t, T), U) = Among(t, T \cap U)
    BY <1>2
  <2>6. Among(Among(Append(t, e), T), U) = Among(Append(t, e), T \cap U)
    <3>1. CASE e \in T /\ e \in U
      BY <2>2, <2>3, <2>4, <2>5, <3>1
    <3>2. CASE e \in T /\ e \notin U
      BY <2>2, <2>3, <2>4, <2>5, <3>2
    <3>3. CASE e \notin T
      BY <2>2, <2>4, <2>5, <3>3
    <3> QED
      BY <3>1, <3>2, <3>3
  <2> QED
    BY <2>1, <2>6
<1>3. Good = Seq(S)
  <2>1. Good \subseteq Seq(S)
    OBVIOUS
  <2>2. \A t \in Good, e \in S : Append(t, e) \in Good
    BY <1>2, <2>1
  <2> HIDE DEF Good
  <2> QED
    BY <1>1, <2>1, <2>2, SeqSetInduction
<1> QED
  BY <1>3

\* Every member in the set is kept.
LEMMA AmongHas ==
  ASSUME NEW S, NEW T, NEW s \in Seq(S)
  PROVE  \A i \in DOMAIN s : s[i] \in T => \E k \in DOMAIN Among(s, T) : Among(s, T)[k] = s[i]
<1> DEFINE Holds(t) == \A i \in DOMAIN t : t[i] \in T => \E k \in DOMAIN Among(t, T) : Among(t, T)[k] = t[i]
           Good == {t \in Seq(S) : Holds(t)}
<1>1. <<>> \in Good
  BY EmptySeq
<1>2. ASSUME NEW t \in Seq(S), Holds(t), NEW e \in S PROVE Holds(Append(t, e))
  <2> DEFINE u == Append(t, e)
             a == Among(t, T)
  <2>1. /\ DOMAIN u = DOMAIN t \cup {Len(t) + 1} /\ u[Len(t) + 1] = e
        /\ \A i \in DOMAIN t : u[i] = t[i]
    BY LenProperties, AppendProperties
  <2>2. a \in Seq(S)
    BY AmongTyped
  <2>3. /\ DOMAIN Append(a, e) = DOMAIN a \cup {Len(a) + 1} /\ Append(a, e)[Len(a) + 1] = e
        /\ \A k \in DOMAIN a : Append(a, e)[k] = a[k]
    BY <2>2, LenProperties, AppendProperties
  <2>4. Among(u, T) = IF e \in T THEN Append(a, e) ELSE a
    BY AmongAppend
  <2>5. \A i \in DOMAIN t : t[i] \in T => \E k \in DOMAIN a : a[k] = t[i]
    BY <1>2
  <2> HIDE DEF u, a
  <2> SUFFICES ASSUME NEW i \in DOMAIN u, u[i] \in T
               PROVE  \E k \in DOMAIN Among(u, T) : Among(u, T)[k] = u[i]
    BY DEF u
  <2>6. CASE i \in DOMAIN t
    <3>1. PICK k \in DOMAIN a : a[k] = u[i]
      BY <2>1, <2>5, <2>6
    <3> QED
      BY <2>3, <2>4, <3>1
  <2>7. CASE i = Len(t) + 1
    BY <2>1, <2>3, <2>4, <2>7
  <2> QED
    BY <2>1, <2>6, <2>7
<1>3. Good = Seq(S)
  <2>1. Good \subseteq Seq(S)
    OBVIOUS
  <2>2. \A t \in Good, e \in S : Append(t, e) \in Good
    BY <1>2, AppendProperties
  <2> HIDE DEF Good
  <2> QED
    BY <1>1, <2>1, <2>2, SeqSetInduction
<1> QED
  BY <1>3

\* A member that is mapped to nothing may as well be left out.
LEMMA FlatMapAmong ==
  ASSUME NEW S, NEW T, NEW U, NEW g \in [S -> Seq(T)], NEW s \in Seq(S),
         {e \in S : g[e] # <<>>} \subseteq U
  PROVE  FlatMap(Among(s, U), g) = FlatMap(s, g)
<1> DEFINE Good == {t \in Seq(S) : FlatMap(Among(t, U), g) = FlatMap(t, g)}
<1>1. <<>> \in Good
  BY AmongEmpty, EmptySeq
<1>2. ASSUME NEW t \in Seq(S), t \in Good, NEW e \in S PROVE Append(t, e) \in Good
  <2>1. /\ Append(t, e) \in Seq(S) /\ Among(t, U) \in Seq(S)
        /\ FlatMap(t, g) \in Seq(T) /\ g[e] \in Seq(T)
    BY AmongTyped, AppendProperties, FlatMapTyped
  <2>2. Among(Append(t, e), U) = IF e \in U THEN Append(Among(t, U), e) ELSE Among(t, U)
    BY AmongAppend
  <2>3. /\ FlatMap(Append(Among(t, U), e), g) = FlatMap(Among(t, U), g) \o g[e]
        /\ FlatMap(Append(t, e), g) = FlatMap(t, g) \o g[e]
    BY <2>1, FlatMapAppend
  <2>4. FlatMap(t, g) \o <<>> = FlatMap(t, g)
    BY <2>1, ConcatEmptySeq
  <2>5. FlatMap(Among(t, U), g) = FlatMap(t, g)
    BY <1>2
  <2> QED
    BY <2>1, <2>2, <2>3, <2>4, <2>5
<1>3. Good = Seq(S)
  <2>1. Good \subseteq Seq(S)
    OBVIOUS
  <2>2. \A t \in Good, e \in S : Append(t, e) \in Good
    BY <1>2, <2>1
  <2> HIDE DEF Good
  <2> QED
    BY <1>1, <2>1, <2>2, SeqSetInduction
<1> QED
  BY <1>3

\* The members in a set, as a map to one or none.
LEMMA AmongConcat ==
  ASSUME NEW S, NEW T, NEW s \in Seq(S), NEW t \in Seq(S)
  PROVE  Among(s \o t, T) = Among(s, T) \o Among(t, T)
<1> DEFINE g == [e \in S |-> IF e \in T THEN <<e>> ELSE <<>>]
<1>1. g \in [S -> Seq(S)]
  BY EmptySeq
<1>2. ASSUME NEW r \in Seq(S) PROVE Among(r, T) = FlatMap(r, g)
  <2>1. \A i \in DOMAIN r : r[i] \in S
    BY ElementOfSeq
  <2>2. Mapped(r, g) = [i \in DOMAIN r |-> IF r[i] \in T THEN <<r[i]>> ELSE <<>>]
    BY <2>1 DEF Mapped
  <2> QED
    BY <2>2 DEF Among, FlatMap
<1>3. s \o t \in Seq(S)
  BY ConcatProperties
<1> HIDE DEF g
<1>4. FlatMap(s \o t, g) = FlatMap(s, g) \o FlatMap(t, g)
  BY <1>1, FlatMapConcat
<1> QED
  BY <1>2, <1>3, <1>4

LEMMA FlattenOne ==
  ASSUME NEW S, NEW t \in Seq(S)
  PROVE  FlattenSeq(<<t>>) = t
<1>1. Append(<<>>, t) = <<t>> /\ <<>> \in Seq(Seq(S))
  BY AppendNone, EmptySeq
<1>2. FlattenSeq(Append(<<>>, t)) = FlattenSeq(<<>>) \o t
  BY <1>1, FlattenAppend
<1> QED
  BY <1>1, <1>2, FlattenEmpty, ConcatEmptySeq
=============================================================================
