----------------------------- MODULE ListsProofs ----------------------------
(***************************************************************************)
(* What Keep returns, for every sequence.  Induction is over sets: a set   *)
(* of numbers that holds zero and the successor of each of its members     *)
(* holds every number, and likewise for sequences.                         *)
(***************************************************************************)
EXTENDS Lists, SequencesExt, NaturalsInduction, WellFoundedInduction,
        SequenceTheorems, FiniteSetTheorems, TLAPS

(* Induction over the natural numbers.                                     *)
LEMMA NatInduct ==
  ASSUME NEW T \in SUBSET Nat, 0 \in T, \A n \in T : n + 1 \in T
  PROVE  T = Nat
  <1> SUFFICES ASSUME Nat \ T # {} PROVE FALSE
    OBVIOUS
  <1>1. PICK x \in Nat \ T : \A y \in Nat \ T : ~(<<y, x>> \in OpToRel(<, Nat))
    BY NatLessThanWellFounded, WFMin
  <1>2. \A y \in Nat \ T : ~(y < x)
    BY <1>1 DEF OpToRel
  <1>3. x \in Nat \ T
    OBVIOUS
  <1> HIDE <1>1
  <1>4. x # 0 /\ x - 1 \in Nat
    BY <1>3
  <1>5. x - 1 \in T
    BY <1>2, <1>4
  <1> QED
    BY <1>5, <1>4

(* A set of natural numbers that is not empty has a least one.             *)
LEMMA NatLeast ==
  ASSUME NEW T \in SUBSET Nat, T # {}
  PROVE  \E x \in T : \A y \in T : x <= y
  <1>1. PICK x \in T : \A y \in T : ~(<<y, x>> \in OpToRel(<, Nat))
    BY NatLessThanWellFounded, WFMin
  <1>2. \A y \in T : ~(y < x)
    BY <1>1 DEF OpToRel
  <1>3. x \in T
    OBVIOUS
  <1> HIDE <1>1
  <1> QED
    BY <1>2, <1>3

(* A function defined by recursion over the numbers up to n exists: G[i]   *)
(* makes its value at i from the one before.                               *)
LEMMA Iterates ==
  ASSUME NEW V, NEW a \in V, NEW n \in Nat, NEW G \in [1..n -> [V -> V]]
  PROVE  \E f \in [0..n -> V] : f[0] = a /\ \A i \in 1..n : f[i] = G[i][f[i - 1]]
  <1> DEFINE Fits(m, f) == f[0] = a /\ \A i \in 1..m : f[i] = G[i][f[i - 1]]
             T == {m \in Nat : m <= n => \E f \in [0..m -> V] : Fits(m, f)}
  <1>1. 0 \in T
    <2> DEFINE g == [i \in 0..0 |-> a]
    <2>1. g \in [0..0 -> V] /\ Fits(0, g)
      OBVIOUS
    <2> QED
      BY <2>1
  <1>2. ASSUME NEW m \in T PROVE m + 1 \in T
    <2> SUFFICES ASSUME m + 1 <= n PROVE \E g \in [0..(m + 1) -> V] : Fits(m + 1, g)
      <3> HIDE DEF Fits
      <3>1. m + 1 \in Nat
        OBVIOUS
      <3> QED
        BY <3>1
    <2>1. m \in Nat /\ m <= n /\ m + 1 \in 1..n /\ m \in 0..m
      OBVIOUS
    <2>2. PICK f \in [0..m -> V] : Fits(m, f)
      BY <2>1
    <2>3. f[m] \in V /\ G[m + 1][f[m]] \in V
      BY <2>1
    <2> DEFINE g == [i \in 0..(m + 1) |-> IF i <= m THEN f[i] ELSE G[m + 1][f[m]]]
    <2>4. g \in [0..(m + 1) -> V]
      BY <2>1, <2>3
    <2>5. ASSUME NEW i \in 1..(m + 1) PROVE g[i] = G[i][g[i - 1]]
      <3>1. i \in 0..(m + 1) /\ i - 1 \in 0..(m + 1) /\ i - 1 <= m
        BY <2>1
      <3>2. g[i - 1] = f[i - 1]
        BY <3>1
      <3>3. CASE i <= m
        BY <2>1, <2>2, <3>1, <3>2, <3>3
      <3>4. CASE i = m + 1
        BY <2>1, <3>1, <3>2, <3>4
      <3> QED
        BY <2>1, <3>3, <3>4
    <2>6. g[0] = a
      BY <2>1, <2>2
    <2> QED
      BY <2>4, <2>5, <2>6
  <1>3. T \in SUBSET Nat
    OBVIOUS
  <1> HIDE DEF T
  <1>4. T = Nat
    BY <1>1, <1>2, <1>3, NatInduct
  <1> QED
    BY <1>4 DEF T

(* Induction over sequences, from the front.                               *)
LEMMA SeqInduct ==
  ASSUME NEW X, NEW T \in SUBSET Seq(X), <<>> \in T,
         \A s \in T, x \in X : Append(s, x) \in T
  PROVE  T = Seq(X)
  <1> DEFINE N == {n \in Nat : \A s \in Seq(X) : Len(s) = n => s \in T}
  <1>1. 0 \in N
    BY EmptySeq
  <1>2. ASSUME NEW n \in N PROVE n + 1 \in N
    <2> SUFFICES ASSUME NEW s \in Seq(X), Len(s) = n + 1 PROVE s \in T
      OBVIOUS
    <2>1. PICK t \in Seq(X), x \in X : s = Append(t, x)
      <3>1. s # <<>>
        OBVIOUS
      <3> QED
        BY <3>1, SequenceEmptyOrAppend
    <2>2. t \in T
      BY <2>1, AppendProperties, LenProperties
    <2> QED
      BY <2>1, <2>2
  <1>3. N = Nat
    <2> HIDE DEF N
    <2>1. N \in SUBSET Nat
      BY DEF N
    <2> QED
      BY <1>1, <1>2, <2>1, NatInduct
  <1> QED
    BY <1>3, LenProperties

(* The stages of Keep, one for each prefix of the sequence.                *)
Stages(s, S, n, f) ==
  f = [i \in 0..n |->
        IF i = 0 THEN <<>>
        ELSE IF s[i] \in S THEN Append(f[i - 1], s[i]) ELSE f[i - 1]]

(* One stage from the one before.                                          *)
LEMMA StagesAt ==
  ASSUME NEW s, NEW S, NEW n \in Nat, NEW f, Stages(s, S, n, f)
  PROVE  /\ f[0] = <<>>
         /\ \A i \in 0..(n - 1) :
              f[i + 1] = IF s[i + 1] \in S THEN Append(f[i], s[i + 1]) ELSE f[i]
  <1>1. f[0] = <<>>
    BY DEF Stages
  <1>2. ASSUME NEW i \in 0..(n - 1)
        PROVE  f[i + 1] = IF s[i + 1] \in S THEN Append(f[i], s[i + 1]) ELSE f[i]
    <2> DEFINE j == i + 1
    <2>1. j \in 0..n /\ j # 0 /\ j - 1 = i
      OBVIOUS
    <2> HIDE DEF j
    <2>2. f[j] = IF s[j] \in S THEN Append(f[j - 1], s[j]) ELSE f[j - 1]
      BY <2>1 DEF Stages
    <2> QED
      BY <2>1, <2>2 DEF j
  <1> QED
    BY <1>1, <1>2

(* The stages exist.                                                       *)
LEMMA StagesExist ==
  ASSUME NEW s, NEW S, NEW n \in Nat
  PROVE  \E f : Stages(s, S, n, f)
  <1> DEFINE T == {m \in Nat : \E f : Stages(s, S, m, f)}
  <1>1. 0 \in T
    <2> DEFINE g == [i \in 0..0 |-> <<>>]
    <2>1. Stages(s, S, 0, g)
      BY DEF Stages
    <2> QED
      BY <2>1
  <1>2. ASSUME NEW m \in T PROVE m + 1 \in T
    <2> m \in Nat
      OBVIOUS
    <2>1. PICK f : Stages(s, S, m, f)
      OBVIOUS
    <2> DEFINE g == [i \in 0..(m + 1) |->
                      IF i <= m THEN f[i]
                      ELSE IF s[i] \in S THEN Append(f[m], s[i]) ELSE f[m]]
    <2>2. ASSUME NEW i \in 0..(m + 1)
          PROVE  g[i] = IF i = 0 THEN <<>>
                        ELSE IF s[i] \in S THEN Append(g[i - 1], s[i]) ELSE g[i - 1]
      <3>1. CASE i <= m
        <4>1. f[i] = IF i = 0 THEN <<>>
                     ELSE IF s[i] \in S THEN Append(f[i - 1], s[i]) ELSE f[i - 1]
          <5>1. i \in 0..m
            BY <3>1
          <5> QED
            BY <2>1, <5>1 DEF Stages
        <4>2. i # 0 => g[i - 1] = f[i - 1]
          BY <3>1
        <4> QED
          BY <3>1, <4>1, <4>2
      <3>2. CASE i = m + 1
        <4>1. g[i - 1] = f[m]
          BY <3>2
        <4> QED
          BY <3>2, <4>1
      <3> QED
        BY <3>1, <3>2
    <2>3. Stages(s, S, m + 1, g)
      BY <2>2 DEF Stages
    <2> QED
      BY <2>3
  <1> HIDE DEF T
  <1>3. T \in SUBSET Nat
    BY DEF T
  <1>4. T = Nat
    BY <1>1, <1>2, <1>3, NatInduct
  <1> QED
    BY <1>4 DEF T

(* Keep is the last stage.                                                 *)
LEMMA KeepStages ==
  ASSUME NEW X, NEW s \in Seq(X), NEW S
  PROVE  \E f : Stages(s, S, Len(s), f) /\ Keep(s, S) = f[Len(s)]
  <1> DEFINE g == CHOOSE f : Stages(s, S, Len(s), f)
  <1>1. Stages(s, S, Len(s), g)
    <2>1. \E f : Stages(s, S, Len(s), f)
      BY StagesExist, LenProperties
    <2> QED
      BY <2>1
  <1>2. Keep(s, S) = g[Len(s)]
    BY DEF Keep, Stages
  <1> QED
    BY <1>1, <1>2

(* Of an empty sequence nothing is kept.                                   *)
LEMMA KeepEmpty ==
  ASSUME NEW S
  PROVE  Keep(<<>>, S) = <<>>
  <1>1. <<>> \in Seq({})
    OBVIOUS
  <1>2. PICK f : Stages(<<>>, S, Len(<<>>), f) /\ Keep(<<>>, S) = f[Len(<<>>)]
    BY <1>1, KeepStages
  <1> QED
    BY <1>2 DEF Stages

(* An element at the end is kept at the end, or not at all.                *)
LEMMA KeepAppend ==
  ASSUME NEW X, NEW s \in Seq(X), NEW x \in X, NEW S
  PROVE  Keep(Append(s, x), S) = IF x \in S THEN Append(Keep(s, S), x) ELSE Keep(s, S)
  <1> DEFINE t == Append(s, x)
             n == Len(s)
  <1>1. t \in Seq(X) /\ Len(t) = n + 1 /\ n \in Nat
    OBVIOUS
  <1>2. (\A i \in 1..n : t[i] = s[i]) /\ t[n + 1] = x
    OBVIOUS
  <1> HIDE DEF t, n
  <1>3. PICK f : Stages(s, S, n, f) /\ Keep(s, S) = f[n]
    BY KeepStages DEF n
  <1>4. PICK g : Stages(t, S, n + 1, g) /\ Keep(t, S) = g[n + 1]
    <2>1. \E g : Stages(t, S, Len(t), g) /\ Keep(t, S) = g[Len(t)]
      BY KeepStages, <1>1
    <2> QED
      BY <2>1, <1>1
  <1> DEFINE T == {m \in Nat : m <= n => f[m] = g[m]}
  <1>5. T = Nat
    <2>1. 0 \in T
      BY <1>3, <1>4, <1>1 DEF Stages
    <2>2. ASSUME NEW m \in T PROVE m + 1 \in T
      <3> SUFFICES ASSUME m + 1 <= n PROVE f[m + 1] = g[m + 1]
        OBVIOUS
      <3>1. f[m] = g[m] /\ m \in 0..(n - 1) /\ m \in 0..(n + 1 - 1)
        BY <1>1, <2>2
      <3>2. t[m + 1] = s[m + 1]
        BY <1>1, <1>2, <3>1
      <3>3. f[m + 1] = IF s[m + 1] \in S THEN Append(f[m], s[m + 1]) ELSE f[m]
        <4>1. \A i \in 0..(n - 1) :
                f[i + 1] = IF s[i + 1] \in S THEN Append(f[i], s[i + 1]) ELSE f[i]
          <5>1. n \in Nat /\ Stages(s, S, n, f)
            BY <1>1, <1>3
          <5> QED
            BY <5>1, StagesAt
        <4> QED
          BY <4>1, <3>1
      <3>4. g[m + 1] = IF t[m + 1] \in S THEN Append(g[m], t[m + 1]) ELSE g[m]
        BY <1>1, <1>4, <3>1, StagesAt
      <3> QED
        BY <3>1, <3>2, <3>3, <3>4
    <2>3. T \in SUBSET Nat
      OBVIOUS
    <2> HIDE DEF T
    <2> QED
      BY <2>1, <2>2, <2>3, NatInduct
  <1>6. f[n] = g[n]
    BY <1>5, <1>1
  <1>7. g[n + 1] = IF x \in S THEN Append(g[n], x) ELSE g[n]
    <2>1. n \in 0..(n + 1 - 1)
      BY <1>1
    <2> QED
      BY <1>4, <1>1, <1>2, <2>1, StagesAt
  <1> QED
    BY <1>3, <1>4, <1>6, <1>7 DEF t

-----------------------------------------------------------------------------
(* The elements of a sequence with one more at its end.                    *)
LEMMA AppendToSet ==
  ASSUME NEW X, NEW s \in Seq(X), NEW x \in X
  PROVE  ToSet(Append(s, x)) = ToSet(s) \cup {x}
  <1> DEFINE t == Append(s, x)
             n == Len(s)
  <1>1. n \in Nat /\ DOMAIN s = 1..n /\ DOMAIN t = 1..(n + 1)
    OBVIOUS
  <1>2. (\A i \in 1..n : t[i] = s[i]) /\ t[n + 1] = x
    OBVIOUS
  <1> HIDE DEF t, n
  <1> QED
    BY <1>1, <1>2 DEF ToSet, t

(* A sequence with a new element at its end has each of its elements once. *)
LEMMA InjectiveAppend ==
  ASSUME NEW X, NEW s \in Seq(X), NEW x \in X, IsInjective(s), x \notin ToSet(s)
  PROVE  IsInjective(Append(s, x))
  <1> DEFINE t == Append(s, x)
             n == Len(s)
  <1>1. n \in Nat /\ DOMAIN s = 1..n /\ DOMAIN t = 1..(n + 1)
    OBVIOUS
  <1>2. (\A i \in 1..n : t[i] = s[i]) /\ t[n + 1] = x
    OBVIOUS
  <1> HIDE DEF t, n
  <1>3. IsInjective(t)
    BY <1>1, <1>2 DEF IsInjective, ToSet
  <1> QED
    BY <1>3 DEF t

(* Without its last element it still has.                                  *)
LEMMA InjectiveBut ==
  ASSUME NEW X, NEW s \in Seq(X), NEW x \in X, IsInjective(Append(s, x))
  PROVE  IsInjective(s) /\ x \notin ToSet(s)
  <1> DEFINE t == Append(s, x)
             n == Len(s)
  <1>1. n \in Nat /\ DOMAIN s = 1..n /\ DOMAIN t = 1..(n + 1)
    OBVIOUS
  <1>2. (\A i \in 1..n : t[i] = s[i]) /\ t[n + 1] = x
    OBVIOUS
  <1> HIDE DEF t, n
  <1>3. IsInjective(t)
    BY DEF t
  <1> QED
    BY <1>1, <1>2, <1>3 DEF IsInjective, ToSet

(* The elements that are kept are those of the sequence that are in S.     *)
LEMMA KeepElements ==
  ASSUME NEW X, NEW s \in Seq(X), NEW S
  PROVE  /\ Keep(s, S) \in Seq(X)
         /\ ToSet(Keep(s, S)) = ToSet(s) \cap S
  <1> DEFINE T == {t \in Seq(X) : /\ Keep(t, S) \in Seq(X)
                                  /\ ToSet(Keep(t, S)) = ToSet(t) \cap S}
  <1>1. <<>> \in T
    <2>1. Keep(<<>>, S) = <<>> /\ <<>> \in Seq(X)
      BY KeepEmpty
    <2>2. ToSet(<<>>) = {}
      BY DEF ToSet
    <2> QED
      BY <2>1, <2>2
  <1>2. ASSUME NEW t \in T, NEW x \in X PROVE Append(t, x) \in T
    <2>1. Append(t, x) \in Seq(X) /\ ToSet(Append(t, x)) = ToSet(t) \cup {x}
      BY AppendToSet
    <2>2. Keep(Append(t, x), S) = IF x \in S THEN Append(Keep(t, S), x) ELSE Keep(t, S)
      BY KeepAppend
    <2>3. /\ Append(Keep(t, S), x) \in Seq(X)
          /\ ToSet(Append(Keep(t, S), x)) = ToSet(Keep(t, S)) \cup {x}
      <3> DEFINE k == Keep(t, S)
      <3>1. k \in Seq(X)
        OBVIOUS
      <3> HIDE DEF k
      <3>2. Append(k, x) \in Seq(X) /\ ToSet(Append(k, x)) = ToSet(k) \cup {x}
        BY <3>1, AppendToSet
      <3> QED
        BY <3>2 DEF k
    <2>4. t \in Seq(X) /\ Keep(t, S) \in Seq(X) /\ ToSet(Keep(t, S)) = ToSet(t) \cap S
      OBVIOUS
    <2>5. CASE x \in S
      BY <2>1, <2>2, <2>3, <2>4, <2>5
    <2>6. CASE x \notin S
      BY <2>1, <2>2, <2>4, <2>6
    <2> QED
      BY <2>5, <2>6
  <1>3. T \in SUBSET Seq(X)
    OBVIOUS
  <1> HIDE DEF T
  <1>4. T = Seq(X)
    BY <1>1, <1>2, <1>3, SeqInduct
  <1> QED
    BY <1>4 DEF T

(* No element is kept twice that the sequence has once.                    *)
LEMMA KeepInjective ==
  ASSUME NEW X, NEW s \in Seq(X), NEW S, IsInjective(s)
  PROVE  IsInjective(Keep(s, S))
  <1> DEFINE T == {t \in Seq(X) : IsInjective(t) => IsInjective(Keep(t, S))}
  <1>1. <<>> \in T
    BY KeepEmpty DEF IsInjective
  <1>2. ASSUME NEW t \in T, NEW x \in X PROVE Append(t, x) \in T
    <2> SUFFICES ASSUME IsInjective(Append(t, x)) PROVE IsInjective(Keep(Append(t, x), S))
      OBVIOUS
    <2> DEFINE u == Append(t, x)
               k == Keep(t, S)
               v == Append(k, x)
    <2>3. k \in Seq(X) /\ ToSet(k) \subseteq ToSet(t)
      BY KeepElements
    <2>4. Keep(u, S) = IF x \in S THEN v ELSE k
      BY KeepAppend
    <2>5. IsInjective(t) /\ x \notin ToSet(t)
      BY InjectiveBut
    <2>6. IsInjective(k)
      BY <2>5
    <2> HIDE DEF k
    <2>9. x \notin ToSet(k)
      BY <2>3, <2>5
    <2>10. IsInjective(v)
      BY <2>3, <2>6, <2>9, InjectiveAppend
    <2>11. IsInjective(Keep(u, S))
      BY <2>4, <2>6, <2>10
    <2> QED
      BY <2>11 DEF u
  <1>3. T \in SUBSET Seq(X)
    OBVIOUS
  <1> HIDE DEF T
  <1>4. T = Seq(X)
    BY <1>1, <1>2, <1>3, SeqInduct
  <1> QED
    BY <1>4 DEF T

(* A first element that is kept stays first.                               *)
LEMMA KeepFirst ==
  ASSUME NEW X, NEW s \in Seq(X), NEW S, s # <<>>, s[1] \in S
  PROVE  Keep(s, S) # <<>> /\ Keep(s, S)[1] = s[1]
  <1> DEFINE T == {t \in Seq(X) : t # <<>> /\ t[1] \in S
                                    => Keep(t, S) # <<>> /\ Keep(t, S)[1] = t[1]}
  <1>1. <<>> \in T
    OBVIOUS
  <1>2. ASSUME NEW t \in T, NEW x \in X PROVE Append(t, x) \in T
    <2> SUFFICES ASSUME Append(t, x)[1] \in S
                 PROVE  /\ Keep(Append(t, x), S) # <<>>
                        /\ Keep(Append(t, x), S)[1] = Append(t, x)[1]
      <3>1. Append(t, x) \in Seq(X)
        OBVIOUS
      <3> QED
        BY <3>1
    <2> DEFINE k == Keep(t, S)
    <2>1. k \in Seq(X) /\ t \in Seq(X)
      BY KeepElements
    <2>2. Keep(Append(t, x), S) = IF x \in S THEN Append(k, x) ELSE k
      BY KeepAppend
    <2>3. CASE t = <<>>
      <3>1. Append(t, x)[1] = x /\ k = <<>>
        BY <2>3, KeepEmpty
      <3> QED
        BY <2>2, <3>1
    <2>4. CASE t # <<>>
      <3>1. Append(t, x)[1] = t[1]
        BY <2>1, <2>4
      <3>2. k # <<>> /\ k[1] = t[1]
        BY <2>4, <3>1
      <3> HIDE DEF k
      <3>3. Append(k, x) # <<>> /\ Append(k, x)[1] = k[1]
        BY <2>1, <3>2
      <3> QED
        BY <2>2, <3>1, <3>2, <3>3
    <2> QED
      BY <2>3, <2>4
  <1>3. T \in SUBSET Seq(X)
    OBVIOUS
  <1> HIDE DEF T
  <1>4. T = Seq(X)
    BY <1>1, <1>2, <1>3, SeqInduct
  <1> QED
    BY <1>4 DEF T

(* A sequence without repetitions has as many elements as places.          *)
LEMMA InjectiveSize ==
  ASSUME NEW X, NEW s \in Seq(X), IsInjective(s)
  PROVE  IsFiniteSet(ToSet(s)) /\ Cardinality(ToSet(s)) = Len(s)
  <1> DEFINE T == {t \in Seq(X) :
                     IsInjective(t) => IsFiniteSet(ToSet(t)) /\ Cardinality(ToSet(t)) = Len(t)}
  <1>1. <<>> \in T
    <2>1. ToSet(<<>>) = {} /\ <<>> \in Seq(X) /\ Len(<<>>) = 0
      BY DEF ToSet
    <2>2. IsFiniteSet({}) /\ Cardinality({}) = 0
      BY FS_EmptySet
    <2> QED
      BY <2>1, <2>2
  <1>2. ASSUME NEW t \in T, NEW x \in X PROVE Append(t, x) \in T
    <2>1. t \in Seq(X) /\ Append(t, x) \in Seq(X) /\ Len(Append(t, x)) = Len(t) + 1
      OBVIOUS
    <2>2. ASSUME IsInjective(Append(t, x))
          PROVE  /\ IsFiniteSet(ToSet(Append(t, x)))
                 /\ Cardinality(ToSet(Append(t, x))) = Len(Append(t, x))
      <3>1. IsInjective(t) /\ x \notin ToSet(t)
        BY <2>1, <2>2, InjectiveBut
      <3>2. IsFiniteSet(ToSet(t)) /\ Cardinality(ToSet(t)) = Len(t)
        BY <3>1
      <3>3. /\ IsFiniteSet(ToSet(t) \cup {x})
            /\ Cardinality(ToSet(t) \cup {x}) = Cardinality(ToSet(t)) + 1
        BY <3>1, <3>2, FS_AddElement
      <3>4. ToSet(Append(t, x)) = ToSet(t) \cup {x}
        BY <2>1, AppendToSet
      <3>5. Cardinality(ToSet(t) \cup {x}) = Len(Append(t, x))
        BY <2>1, <3>2, <3>3
      <3> QED
        BY <3>3, <3>4, <3>5
    <2> QED
      BY <2>1, <2>2
  <1>3. T \in SUBSET Seq(X)
    OBVIOUS
  <1> HIDE DEF T
  <1>4. T = Seq(X)
    BY <1>1, <1>2, <1>3, SeqInduct
  <1> QED
    BY <1>4 DEF T

-----------------------------------------------------------------------------
(* What is kept depends on the elements of the sequence only.              *)
LEMMA KeepSame ==
  ASSUME NEW X, NEW s \in Seq(X), NEW S, NEW R, ToSet(s) \cap S = ToSet(s) \cap R
  PROVE  Keep(s, S) = Keep(s, R)
  <1> DEFINE T == {t \in Seq(X) : ToSet(t) \cap S = ToSet(t) \cap R => Keep(t, S) = Keep(t, R)}
  <1>1. <<>> \in T
    <2>1. Keep(<<>>, S) = <<>> /\ Keep(<<>>, R) = <<>> /\ <<>> \in Seq(X)
      BY KeepEmpty
    <2> QED
      BY <2>1
  <1>2. ASSUME NEW t \in T, NEW x \in X PROVE Append(t, x) \in T
    <2>1. Append(t, x) \in Seq(X) /\ ToSet(Append(t, x)) = ToSet(t) \cup {x}
      BY AppendToSet
    <2>2. Keep(Append(t, x), S) = IF x \in S THEN Append(Keep(t, S), x) ELSE Keep(t, S)
      BY KeepAppend
    <2>3. Keep(Append(t, x), R) = IF x \in R THEN Append(Keep(t, R), x) ELSE Keep(t, R)
      BY KeepAppend
    <2>4. ASSUME ToSet(Append(t, x)) \cap S = ToSet(Append(t, x)) \cap R
          PROVE  Keep(Append(t, x), S) = Keep(Append(t, x), R)
      <3>1. (x \in S <=> x \in R) /\ ToSet(t) \cap S = ToSet(t) \cap R
        BY <2>1, <2>4
      <3>2. Keep(t, S) = Keep(t, R)
        BY <3>1
      <3> QED
        BY <2>2, <2>3, <3>1, <3>2
    <2> QED
      BY <2>1, <2>4
  <1>3. T \in SUBSET Seq(X)
    OBVIOUS
  <1> HIDE DEF T
  <1>4. T = Seq(X)
    BY <1>1, <1>2, <1>3, SeqInduct
  <1> QED
    BY <1>4 DEF T

(* What is kept of a sequence in two parts.                                *)
LEMMA KeepConcat ==
  ASSUME NEW X, NEW r \in Seq(X), NEW s \in Seq(X), NEW S
  PROVE  Keep(r \o s, S) = Keep(r, S) \o Keep(s, S)
  <1> DEFINE T == {t \in Seq(X) : Keep(r \o t, S) = Keep(r, S) \o Keep(t, S)}
  <1>0. PICK j \in Seq(X) : j = Keep(r, S)
    BY KeepElements
  <1>1. <<>> \in T
    <2>1. Keep(<<>>, S) = <<>> /\ <<>> \in Seq(X)
      BY KeepEmpty
    <2>2. j \o <<>> = j /\ r \o <<>> = r
      BY ConcatEmptySeq
    <2> QED
      BY <1>0, <2>1, <2>2
  <1>2. ASSUME NEW t \in T, NEW x \in X PROVE Append(t, x) \in T
    <2>1. t \in Seq(X) /\ Keep(r \o t, S) = j \o Keep(t, S)
      BY <1>0
    <2> HIDE DEF T
    <2>2. PICK k \in Seq(X) : k = Keep(t, S)
      BY <2>1, KeepElements
    <2>3. PICK u \in Seq(X) : u = r \o t
      <3>1. r \o t \in Seq(X)
        BY <2>1
      <3> QED
        BY <3>1
    <2>4. Keep(Append(t, x), S) = IF x \in S THEN Append(k, x) ELSE k
      BY <2>1, <2>2, KeepAppend
    <2>5. Keep(Append(u, x), S) = IF x \in S THEN Append(j \o k, x) ELSE j \o k
      <3>1. Keep(Append(u, x), S) = IF x \in S THEN Append(Keep(u, S), x) ELSE Keep(u, S)
        BY KeepAppend
      <3>2. Keep(u, S) = j \o k
        BY <2>1, <2>2, <2>3
      <3> QED
        BY <3>1, <3>2
    <2>6. r \o Append(t, x) = Append(u, x) /\ j \o Append(k, x) = Append(j \o k, x)
      BY <2>1, <2>3
    <2>7. Keep(r \o Append(t, x), S) = j \o Keep(Append(t, x), S)
      BY <2>4, <2>5, <2>6
    <2>8. Append(t, x) \in Seq(X)
      BY <2>1
    <2> QED
      BY <1>0, <2>7, <2>8 DEF T
  <1>3. T \in SUBSET Seq(X)
    OBVIOUS
  <1> HIDE DEF T
  <1>4. T = Seq(X)
    BY <1>1, <1>2, <1>3, SeqInduct
  <1> QED
    BY <1>4 DEF T

(* The first n of what is kept is what is kept of the sequence up to the   *)
(* place of the n-th.                                                      *)
LEMMA KeepFront ==
  ASSUME NEW X, NEW s \in Seq(X), NEW S, NEW n \in 1..Len(Keep(s, S))
  PROVE  \E q \in 1..Len(s) :
           /\ s[q] \in S /\ s[q] = Keep(s, S)[n]
           /\ SubSeq(Keep(s, S), 1, n) = Keep(SubSeq(s, 1, q), S)
  <1> DEFINE At(t, q) == /\ t[q] \in S /\ t[q] = Keep(t, S)[n]
                         /\ SubSeq(Keep(t, S), 1, n) = Keep(SubSeq(t, 1, q), S)
             T == {t \in Seq(X) : n <= Len(Keep(t, S)) => \E q \in 1..Len(t) : At(t, q)}
  <1>0. n \in Nat /\ n # 0
    <2>1. Keep(s, S) \in Seq(X)
      BY KeepElements
    <2> QED
      BY <2>1
  <1>1. <<>> \in T
    <2>1. Keep(<<>>, S) = <<>> /\ <<>> \in Seq(X) /\ Len(<<>>) = 0
      BY KeepEmpty
    <2> QED
      BY <1>0, <2>1
  <1>2. ASSUME NEW t \in T, NEW x \in X PROVE Append(t, x) \in T
    <2> DEFINE u == Append(t, x)
               k == Keep(t, S)
    <2>1. t \in Seq(X) /\ k \in Seq(X) /\ u \in Seq(X) /\ Len(u) = Len(t) + 1 /\ Len(t) \in Nat
      BY KeepElements
    <2>2. Keep(u, S) = IF x \in S THEN Append(k, x) ELSE k
      BY KeepAppend
    <2> SUFFICES ASSUME n <= Len(Keep(u, S)) PROVE \E q \in 1..Len(u) : At(u, q)
      BY <2>1
    <2>3. CASE n <= Len(k)
      <3>1. PICK q \in 1..Len(t) : At(t, q)
        BY <2>3
      <3> HIDE DEF k
      <3>2. u[q] = t[q] /\ SubSeq(u, 1, q) = SubSeq(t, 1, q) /\ q \in 1..Len(u)
        BY <2>1
      <3>3. Append(k, x)[n] = k[n] /\ SubSeq(Append(k, x), 1, n) = SubSeq(k, 1, n)
        BY <1>0, <2>1, <2>3
      <3>4. At(u, q)
        BY <2>2, <3>1, <3>2, <3>3 DEF k
      <3> QED
        BY <3>2, <3>4
    <2>4. CASE ~(n <= Len(k))
      <3> DEFINE q == Len(t) + 1
      <3> HIDE DEF k
      <3>1. x \in S /\ n = Len(k) + 1 /\ Keep(u, S) = Append(k, x)
        BY <1>0, <2>1, <2>2, <2>4
      <3>2. u[q] = x /\ SubSeq(u, 1, q) = u /\ q \in 1..Len(u)
        BY <2>1
      <3>3. Append(k, x)[n] = x /\ SubSeq(Append(k, x), 1, n) = Append(k, x)
        BY <1>0, <2>1, <3>1
      <3>4. At(u, q)
        BY <3>1, <3>2, <3>3
      <3> QED
        BY <3>2, <3>4
    <2> QED
      BY <2>3, <2>4
  <1>3. T \in SUBSET Seq(X)
    OBVIOUS
  <1>5. n <= Len(Keep(s, S))
    <2>1. Keep(s, S) \in Seq(X)
      BY KeepElements
    <2> QED
      BY <2>1
  <1> HIDE DEF T
  <1>4. T = Seq(X)
    BY <1>1, <1>2, <1>3, SeqInduct
  <1> QED
    BY <1>4, <1>5 DEF T

(* Nothing is kept of a sequence without members of S.                     *)
LEMMA KeepNone ==
  ASSUME NEW X, NEW s \in Seq(X), NEW S, ToSet(s) \cap S = {}
  PROVE  Keep(s, S) = <<>>
  <1>1. PICK k \in Seq(X) : k = Keep(s, S)
    BY KeepElements
  <1>2. ToSet(k) = {}
    BY <1>1, KeepElements
  <1>3. ASSUME NEW i \in DOMAIN k PROVE FALSE
    <2>1. k[i] \in ToSet(k)
      BY DEF ToSet
    <2> QED
      BY <1>2, <2>1
  <1>4. DOMAIN k = 1..Len(k) /\ Len(k) \in Nat
    OBVIOUS
  <1>5. Len(k) = 0
    <2>1. ASSUME NEW n \in Nat, 1..n = {} PROVE n = 0
      <3>1. n # 0 => 1 \in 1..n
        OBVIOUS
      <3> QED
        BY <2>1, <3>1
    <2>2. 1..Len(k) = {}
      BY <1>3, <1>4
    <2> QED
      BY <1>4, <2>1, <2>2, Zenon
  <1> QED
    BY <1>1, <1>5, EmptySeq
=============================================================================
