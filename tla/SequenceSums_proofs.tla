-------------------------- MODULE SequenceSums_proofs --------------------------
(***************************************************************************)
(* What FoldSeq(+, 0, q) is worth, for sequences of any length: the fold   *)
(* unrolls into a recursive function on the subsets of the domain of q,    *)
(* and induction on their size bounds it.  Induction is taken from the     *)
(* order of the naturals being well-founded, for a set of numbers.         *)
(***************************************************************************)
EXTENDS Integers, SequencesExt, FiniteSetTheorems, WellFoundedInduction, TLAPS

(* The pairs of a natural number and a larger one.                          *)
Below == {ss \in Nat \X Nat : ss[1] < ss[2]}

(* A set of naturals that has 0, and with each number the next, has all of   *)
(* them: else one of the missing ones would be the least.                    *)
LEMMA Induction ==
  ASSUME NEW T \in SUBSET Nat, 0 \in T, \A n \in T : n + 1 \in T
  PROVE  \A n \in Nat : n \in T
<1>1. IsWellFoundedOn(Below, Nat)
  BY NatLessThanWellFounded DEF OpToRel, Below
<1> DEFINE missing == Nat \ T
<1>2. SUFFICES ASSUME missing # {}
               PROVE  FALSE
  OBVIOUS
<1>3. PICK n \in missing : \A m \in missing : ~(<<m, n>> \in Below)
  <2>1. missing \subseteq Nat
    OBVIOUS
  <2> HIDE DEF missing
  <2> QED BY <1>1, <1>2, <2>1, WFMin
<1>4. n \in Nat \ {0} /\ n - 1 \in Nat
  OBVIOUS
<1>5. n - 1 \in T
  <2> SUFFICES ASSUME n - 1 \in missing
               PROVE  FALSE
    BY <1>4
  <2>1. <<n - 1, n>> \in Below
    BY <1>4 DEF Below
  <2> QED BY <1>3, <2>1
<1> QED BY <1>4, <1>5

-------------------------------------------------------------------------------
(* The element of s that a fold takes first.                                *)
Pick(s) == CHOOSE y \in s : TRUE

(* g holds the sum of q over each set in D, taken one element at a time.     *)
Iterates(q, D, g) ==
  g = [s \in D |-> IF s = {} THEN 0 ELSE q[Pick(s)] + g[s \ {Pick(s)}]]

(* The function that a sum over the whole of q goes through.                 *)
Iter(q) == CHOOSE g : Iterates(q, SUBSET DOMAIN q, g)

(* A sum folded over a sequence is that function's value at its domain.      *)
LEMMA FoldIter ==
  ASSUME NEW q
  PROVE FoldSeq(+, 0, q) = Iter(q)[DOMAIN q]
BY DEF FoldSeq, FoldFunction, FoldFunctionOnSet, MapThenFoldSet, Iter, Iterates, Pick

(* The subsets of S with at most k elements.                                 *)
Small(S, k) == {s \in SUBSET S : Cardinality(s) <= k}

(* What remains of a finite set once its first element is taken.             *)
LEMMA Rest ==
  ASSUME NEW s, IsFiniteSet(s), s # {}
  PROVE  /\ Pick(s) \in s /\ IsFiniteSet(s \ {Pick(s)})
         /\ Cardinality(s) \in Nat \ {0}
         /\ Cardinality(s \ {Pick(s)}) = Cardinality(s) - 1
<1>1. Pick(s) \in s
  BY DEF Pick
<1>2. Cardinality(s) \in Nat /\ Cardinality(s) # 0
  BY FS_CardinalityType, FS_EmptySet
<1> QED BY <1>1, <1>2, FS_RemoveElement

(* Sums over the sets of at most k elements give those over one more.        *)
LEMMA Extend ==
  ASSUME NEW q, NEW S, IsFiniteSet(S), NEW k \in Nat, NEW g, Iterates(q, Small(S, k), g)
  PROVE  \E h : Iterates(q, Small(S, k + 1), h)
<1> DEFINE Value(s, f) == IF s = {} THEN 0 ELSE q[Pick(s)] + f[s \ {Pick(s)}]
           h == [s \in Small(S, k + 1) |-> Value(s, g)]
<1>1. \A s \in Small(S, k) : g[s] = Value(s, g)
  BY DEF Iterates
<1>2. ASSUME NEW s \in Small(S, k + 1), s # {}
      PROVE  s \ {Pick(s)} \in Small(S, k) /\ s \ {Pick(s)} \in Small(S, k + 1)
  <2>1. s \in SUBSET S /\ Cardinality(s) <= k + 1
    BY DEF Small
  <2>2. IsFiniteSet(s)
    BY <2>1, FS_Subset
  <2>3. s \ {Pick(s)} \in SUBSET S
    BY <2>1
  <2>4. /\ Cardinality(s) \in Nat
        /\ Cardinality(s \ {Pick(s)}) = Cardinality(s) - 1
    BY <1>2, <2>2, Rest
  <2> QED BY <2>1, <2>3, <2>4 DEF Small
<1>3. ASSUME NEW s \in Small(S, k + 1)
      PROVE  h[s] = Value(s, h)
  <2>1. CASE s = {}
    BY <2>1
  <2>2. CASE s # {}
    <3> DEFINE t == s \ {Pick(s)}
    <3>1. t \in Small(S, k) /\ t \in Small(S, k + 1)
      BY <1>2, <2>2
    <3>2. h[t] = g[t]
      <4> HIDE DEF t
      <4> QED BY <1>1, <3>1
    <3>3. h[s] = q[Pick(s)] + g[t]
      BY <2>2
    <3> QED BY <2>2, <3>2, <3>3
  <2> QED BY <2>1, <2>2
<1>4. h = [s \in Small(S, k + 1) |-> Value(s, h)]
  BY <1>3
<1> QED BY <1>4 DEF Iterates

(* The function exists, so that CHOOSE finds it.                             *)
LEMMA IterExists ==
  ASSUME NEW q, IsFiniteSet(DOMAIN q)
  PROVE  Iterates(q, SUBSET DOMAIN q, Iter(q))
<1> DEFINE S == DOMAIN q
           T == {k \in Nat : \E g : Iterates(q, Small(S, k), g)}
<1>1. 0 \in T
  <2> DEFINE g == [s \in Small(S, 0) |-> 0]
  <2>1. ASSUME NEW s \in Small(S, 0)
        PROVE  s = {}
    <3>1. s \in SUBSET S /\ Cardinality(s) <= 0
      BY DEF Small
    <3>2. IsFiniteSet(s)
      BY <3>1, FS_Subset
    <3> QED BY <3>1, <3>2, FS_CardinalityType, FS_EmptySet
  <2>2. g = [s \in Small(S, 0) |-> IF s = {} THEN 0 ELSE q[Pick(s)] + g[s \ {Pick(s)}]]
    BY <2>1
  <2> QED BY <2>2 DEF Iterates
<1>2. ASSUME NEW k \in T
      PROVE  k + 1 \in T
  BY Extend
<1>3. \A k \in Nat : k \in T
  <2> HIDE DEF T
  <2>1. T \in SUBSET Nat
    BY DEF T
  <2> QED BY <1>1, <1>2, <2>1, Induction
<1>4. Cardinality(S) \in Nat
  BY FS_CardinalityType
<1>5. Small(S, Cardinality(S)) = SUBSET S
  BY FS_Subset DEF Small
<1>6. \E g : Iterates(q, SUBSET DOMAIN q, g)
  BY <1>3, <1>4, <1>5
<1> QED BY <1>6 DEF Iter

(* The sum of naturals is one, and none is larger than the most that the     *)
(* elements may be, once for each of them.                                   *)
LEMMA SumBounds ==
  ASSUME NEW q \in Seq(Nat)
  PROVE  /\ FoldSeq(+, 0, q) \in Nat
         /\ \A top \in Nat :
              (\A i \in 1 .. Len(q) : q[i] <= top) => FoldSeq(+, 0, q) <= top * Len(q)
<1> DEFINE S == DOMAIN q
           I == Iter(q)
           Bounded(s) == /\ I[s] \in Nat
                         /\ \A top \in Nat : (\A i \in s : q[i] <= top) => I[s] <= top * Cardinality(s)
           T == {k \in Nat : \A s \in Small(S, k) : Bounded(s)}
<1>1. S = 1 .. Len(q) /\ Len(q) \in Nat /\ IsFiniteSet(S) /\ Cardinality(S) = Len(q)
  <2>1. S = 1 .. Len(q) /\ Len(q) \in Nat
    OBVIOUS
  <2>2. IsFiniteSet(1 .. Len(q)) /\ Cardinality(1 .. Len(q)) = Len(q)
    <3>1. \A n \in Nat : IsFiniteSet(1 .. n) /\ Cardinality(1 .. n) = n
      BY FS_Interval
    <3> QED BY <2>1, <3>1
  <2> QED BY <2>1, <2>2
<1>2. \A s \in SUBSET S : I[s] = IF s = {} THEN 0 ELSE q[Pick(s)] + I[s \ {Pick(s)}]
  <2>1. Iterates(q, SUBSET S, I)
    BY <1>1, IterExists
  <2> HIDE DEF S, I
  <2> QED BY <2>1 DEF Iterates
<1>3. \A s \in SUBSET S : IsFiniteSet(s) /\ Cardinality(s) \in Nat
  BY <1>1, FS_Subset, FS_CardinalityType
<1>e. Bounded({})
  <2>1. I[{}] = 0
    BY <1>2
  <2>2. Cardinality({}) = 0
    BY FS_EmptySet
  <2> HIDE DEF I
  <2> QED BY <2>1, <2>2
<1>4. 0 \in T
  <2> SUFFICES ASSUME NEW s \in Small(S, 0)
               PROVE  s = {}
    BY <1>e
  <2>1. s \in SUBSET S /\ Cardinality(s) <= 0
    BY DEF Small
  <2> QED BY <1>3, <2>1, FS_EmptySet
<1>5. ASSUME NEW k \in T, NEW s \in Small(S, k + 1), s # {}
      PROVE  Bounded(s)
  <2>1. s \in SUBSET S /\ Cardinality(s) <= k + 1
    BY DEF Small
  <2> DEFINE p == Pick(s)
             t == s \ {Pick(s)}
  <2>2. p \in s /\ Cardinality(s) \in Nat \ {0} /\ Cardinality(t) = Cardinality(s) - 1
    BY <1>3, <1>5, <2>1, Rest
  <2>3. t \in Small(S, k)
    BY <2>1, <2>2 DEF Small
  <2>4. Bounded(t)
    BY <2>3
  <2>5. I[s] = q[p] + I[t]
    BY <1>2, <1>5, <2>1
  <2>6. q[p] \in Nat
    BY <1>1, <2>1, <2>2
  <2>7. t \subseteq s
    OBVIOUS
  <2> HIDE DEF p, t, I
  <2>8. ASSUME NEW top \in Nat, \A i \in s : q[i] <= top
        PROVE  I[s] <= top * Cardinality(s)
    <3>1. I[t] <= top * Cardinality(t) /\ q[p] <= top
      BY <2>2, <2>4, <2>7, <2>8
    <3>2. \A c \in Nat \ {0} : top + top * (c - 1) = top * c
      OBVIOUS
    <3>3. \A c \in Nat \ {0} : top * (c - 1) \in Nat
      OBVIOUS
    <3> QED BY <2>2, <2>4, <2>5, <2>6, <3>1, <3>2, <3>3
  <2> QED BY <2>4, <2>5, <2>6, <2>8
<1>6. \A k \in Nat : k \in T
  <2>0. ASSUME NEW k \in T
        PROVE  k + 1 \in T
    <3>1. \A s \in Small(S, k + 1) : Bounded(s)
      <4> HIDE DEF Bounded, T
      <4> QED BY <1>e, <1>5
    <3> HIDE DEF Bounded
    <3> QED BY <3>1
  <2> HIDE DEF T
  <2>1. T \in SUBSET Nat
    BY DEF T
  <2> QED BY <1>4, <2>0, <2>1, Induction
<1>7. Bounded(S)
  <2>1. S \in Small(S, Cardinality(S))
    BY <1>1 DEF Small
  <2> HIDE DEF Bounded
  <2>2. \A k \in Nat : \A s \in Small(S, k) : Bounded(s)
    BY <1>6
  <2> QED BY <1>1, <2>1, <2>2
<1> QED BY <1>1, <1>7, FoldIter

===============================================================================
