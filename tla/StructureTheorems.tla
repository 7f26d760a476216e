------------------------- MODULE StructureTheorems --------------------------
(***************************************************************************)
(* Facts about the structures that the components keep, for the proofs     *)
(* about them: the queues of bulkhead and rate limiter, which lose a       *)
(* caller in the middle (leave() splices), counting, sums over buckets,    *)
(* and what the sliding windows of SlidingWindows compute, for any size,   *)
(* any number of buckets of any width, and any content.                    *)
(*                                                                         *)
(* A time window reports sums over its buckets.  What is needed of         *)
(* SumFunctionOnSet is derived from its definition by a fold: an induction *)
(* over finite sets, put as the search for a least counterexample          *)
(* (LeastSubset).                                                          *)
(***************************************************************************)
EXTENDS SlidingWindows, SequencesExt, FiniteSets, FiniteSetTheorems, SequenceTheorems, TLAPS

-----------------------------------------------------------------------------
(* No caller waits twice in a queue.                                       *)
Distinct(q) == \A i, j \in DOMAIN q : q[i] = q[j] => i = j

-----------------------------------------------------------------------------
(* Counting.                                                               *)

(* A part of a finite set is finite and has a number of elements.          *)
LEMMA PartsAreFinite ==
    ASSUME NEW C, IsFiniteSet(C), NEW S \in SUBSET C
    PROVE  IsFiniteSet(S) /\ Cardinality(S) \in Nat
  BY FS_Subset, FS_CardinalityType

(* One more.                                                               *)
LEMMA OneMoreOf ==
    ASSUME NEW C, IsFiniteSet(C), NEW S \in SUBSET C, NEW c, c \notin S
    PROVE  Cardinality(S \cup {c}) = Cardinality(S) + 1
  BY PartsAreFinite, FS_AddElement

(* One less.                                                               *)
LEMMA OneLessOf ==
    ASSUME NEW C, IsFiniteSet(C), NEW S \in SUBSET C, NEW c \in S
    PROVE  Cardinality(S \ {c}) = Cardinality(S) - 1
  BY PartsAreFinite, FS_RemoveElement

(* What is left of a set without a part of it.                             *)
LEMMA RestOf ==
    ASSUME NEW C, IsFiniteSet(C), NEW S \in SUBSET C, NEW T \in SUBSET S
    PROVE  Cardinality(S \ T) = Cardinality(S) - Cardinality(T)
<1>1. IsFiniteSet(S) /\ S \cap T = T
  BY FS_Subset
<1> QED
  BY <1>1, FS_Difference

-----------------------------------------------------------------------------
(* Queues: what RemoveFirst does to one without duplicates.                *)

(* Nothing happens when the element is not there.                          *)
LEMMA RemoveAbsent ==
    ASSUME NEW S, NEW q \in Seq(S), NEW x, \A i \in 1 .. Len(q) : q[i] # x
    PROVE  RemoveFirst(q, x) = q
  BY DEF RemoveFirst

(* Otherwise the elements behind it move up by one.                        *)
LEMMA RemovePresent ==
    ASSUME NEW S, NEW q \in Seq(S), Distinct(q), NEW k \in 1 .. Len(q)
    PROVE  /\ RemoveFirst(q, q[k]) \in Seq(S)
           /\ Len(RemoveFirst(q, q[k])) = Len(q) - 1
           /\ \A i \in 1 .. Len(q) - 1 :
                 RemoveFirst(q, q[k])[i] = IF i < k THEN q[i] ELSE q[i + 1]
<1> DEFINE front == SubSeq(q, 1, k - 1)
           back == SubSeq(q, k + 1, Len(q))
           I == {i \in 1 .. Len(q) : q[i] = q[k]}
<1>1. RemoveFirst(q, q[k]) = front \o back
  <2>1. I = {k}
    BY DEF Distinct
  <2>2. Min({k}) = k
    BY DEF Min
  <2>3. RemoveFirst(q, q[k]) = RemoveAt(q, IF I # {} THEN Min(I) ELSE 0)
    BY DEF RemoveFirst, SelectInSeq
  <2> QED
    BY <2>1, <2>2, <2>3 DEF RemoveAt
<1>2. /\ front \in Seq(S)
      /\ Len(front) = k - 1
      /\ \A i \in 1 .. k - 1 : front[i] = q[i]
  BY SubSeqProperties, ElementOfSeq
<1>3. /\ back \in Seq(S)
      /\ Len(back) = Len(q) - k
      /\ \A i \in 1 .. Len(q) - k : back[i] = q[i + k]
  BY SubSeqProperties, ElementOfSeq
<1> HIDE DEF front, back, I
<1>4. /\ front \o back \in Seq(S)
      /\ Len(front \o back) = Len(front) + Len(back)
      /\ \A i \in 1 .. Len(front) + Len(back) :
            (front \o back)[i] = IF i <= Len(front) THEN front[i] ELSE back[i - Len(front)]
  BY <1>2, <1>3, ConcatProperties
<1>5. Len(q) \in Nat /\ k \in Nat /\ 1 <= k /\ k <= Len(q)
  OBVIOUS
<1>6. Len(front) + Len(back) = Len(q) - 1
  BY <1>2, <1>3, <1>5
<1>7. ASSUME NEW i \in 1 .. Len(q) - 1
      PROVE  (front \o back)[i] = IF i < k THEN q[i] ELSE q[i + 1]
  <2>1. CASE i < k
    <3>1. i \in 1 .. k - 1 /\ i <= Len(front)
      BY <2>1, <1>2, <1>5
    <3> QED
      BY <2>1, <3>1, <1>2, <1>4, <1>5, <1>6
  <2>2. CASE ~(i < k)
    <3>1. /\ ~(i <= Len(front))
          /\ i - Len(front) \in 1 .. Len(q) - k
          /\ (i - Len(front)) + k = i + 1
      BY <2>2, <1>2, <1>5
    <3>2. (front \o back)[i] = back[i - Len(front)]
      BY <3>1, <1>4, <1>6
    <3>3. back[i - Len(front)] = q[(i - Len(front)) + k]
      BY <3>1, <1>3
    <3> QED
      BY <2>2, <3>1, <3>2, <3>3
  <2> QED
    BY <2>1, <2>2
<1> QED
  BY <1>1, <1>4, <1>6, <1>7

(* So the queue that leave() leaves is without duplicates and holds        *)
(* everybody but the one who left.                                         *)
LEMMA QueueWithout ==
    ASSUME NEW S, NEW q \in Seq(S), Distinct(q), NEW k \in 1 .. Len(q)
    PROVE  LET r == RemoveFirst(q, q[k]) IN
           /\ r \in Seq(S)
           /\ Len(r) = Len(q) - 1
           /\ Distinct(r)
           /\ ToSet(r) = ToSet(q) \ {q[k]}
<1> DEFINE r == RemoveFirst(q, q[k])
<1>1. /\ r \in Seq(S)
      /\ Len(r) = Len(q) - 1
      /\ \A i \in 1 .. Len(q) - 1 : r[i] = IF i < k THEN q[i] ELSE q[i + 1]
  BY RemovePresent
<1> HIDE DEF r
<1> DEFINE Was(i) == IF i < k THEN i ELSE i + 1
<1>2. /\ DOMAIN r = 1 .. Len(q) - 1 /\ DOMAIN q = 1 .. Len(q)
      /\ Len(q) \in Nat /\ k \in Int
  BY <1>1
<1>3. ASSUME NEW i \in DOMAIN r
      PROVE  Was(i) \in DOMAIN q /\ Was(i) # k /\ r[i] = q[Was(i)]
  <2>1. i \in 1 .. Len(q) - 1
    BY <1>2
  <2>2. Was(i) \in DOMAIN q /\ Was(i) # k
    BY <1>2, <2>1
  <2>3. CASE i < k
    BY <1>1, <2>1, <2>2, <2>3
  <2>4. CASE ~(i < k)
    BY <1>1, <2>1, <2>2, <2>4
  <2> QED
    BY <2>3, <2>4
<1>4. \A i, j \in DOMAIN r : Was(i) = Was(j) => i = j
  BY <1>2
<1>5. \A j \in DOMAIN q : j # k => \E i \in DOMAIN r : Was(i) = j
  <2> SUFFICES ASSUME NEW j \in DOMAIN q, j # k
               PROVE  \E i \in DOMAIN r : Was(i) = j
    OBVIOUS
  <2>1. CASE j < k
    <3>1. j \in DOMAIN r /\ Was(j) = j
      BY <2>1, <1>2
    <3> QED
      BY <3>1
  <2>2. CASE j > k
    <3>1. j - 1 \in DOMAIN r /\ Was(j - 1) = j
      BY <2>2, <1>2
    <3> QED
      BY <3>1
  <2> QED
    BY <2>1, <2>2, <1>2
<1> HIDE DEF Was
<1>6. Distinct(r)
  BY <1>3, <1>4 DEF Distinct
<1>7. ASSUME NEW i \in DOMAIN r
      PROVE  r[i] \in ToSet(q) \ {q[k]}
  BY <1>2, <1>3 DEF Distinct, ToSet
<1>8. ASSUME NEW j \in DOMAIN q, q[j] # q[k]
      PROVE  q[j] \in ToSet(r)
  BY <1>3, <1>5, <1>8 DEF ToSet
<1>9. ToSet(r) = ToSet(q) \ {q[k]}
  BY <1>7, <1>8 DEF ToSet
<1> QED
  BY <1>1, <1>6, <1>9 DEF r

(* Taking the head out is taking the tail.                                 *)
LEMMA WithoutHead ==
    ASSUME NEW S, NEW q \in Seq(S), Distinct(q), q # <<>>
    PROVE  RemoveFirst(q, Head(q)) = Tail(q)
<1>1. Head(q) = q[1] /\ 1 \in 1 .. Len(q)
  OBVIOUS
<1> DEFINE r == RemoveFirst(q, q[1])
<1>2. /\ r \in Seq(S)
      /\ Len(r) = Len(q) - 1
      /\ \A i \in 1 .. Len(q) - 1 : r[i] = q[i + 1]
  BY <1>1, RemovePresent
<1>3. /\ Tail(q) \in Seq(S)
      /\ Len(Tail(q)) = Len(q) - 1
      /\ \A i \in 1 .. Len(q) - 1 : Tail(q)[i] = q[i + 1]
  BY HeadTailProperties
<1> HIDE DEF r
<1>4. r = Tail(q)
  BY <1>2, <1>3, SeqEqual
<1> QED
  BY <1>1, <1>4 DEF r

(* Who joins stands at the end.                                            *)
LEMMA QueueWith ==
    ASSUME NEW S, NEW q \in Seq(S), Distinct(q), NEW x \in S, x \notin ToSet(q)
    PROVE  LET r == Append(q, x) IN
           /\ r \in Seq(S)
           /\ Len(r) = Len(q) + 1
           /\ \A i \in 1 .. Len(q) + 1 : r[i] = IF i <= Len(q) THEN q[i] ELSE x
           /\ Distinct(r)
           /\ ToSet(r) = ToSet(q) \cup {x}
<1> DEFINE r == Append(q, x)
<1>1. /\ r \in Seq(S) /\ Len(r) = Len(q) + 1
      /\ \A i \in 1 .. Len(q) : r[i] = q[i]
      /\ r[Len(q) + 1] = x
  BY AppendProperties
<1> HIDE DEF r
<1>2. /\ DOMAIN r = 1 .. Len(q) + 1 /\ DOMAIN q = 1 .. Len(q) /\ Len(q) \in Nat
      /\ \A i \in 1 .. Len(q) + 1 : r[i] = IF i <= Len(q) THEN q[i] ELSE x
  BY <1>1
<1>3. \A i \in DOMAIN q : q[i] # x
  BY DEF ToSet
<1>4. Distinct(r)
  BY <1>2, <1>3 DEF Distinct
<1>5. ToSet(r) = ToSet(q) \cup {x}
  <2>1. \A i \in DOMAIN r : r[i] \in ToSet(q) \cup {x}
    BY <1>2 DEF ToSet
  <2>2. \A i \in DOMAIN q : q[i] \in ToSet(r)
    BY <1>1, <1>2 DEF ToSet
  <2>3. x \in ToSet(r)
    BY <1>1, <1>2 DEF ToSet
  <2> QED
    BY <2>1, <2>2, <2>3 DEF ToSet
<1> QED
  BY <1>1, <1>2, <1>4, <1>5 DEF r

-----------------------------------------------------------------------------
(* Sums over a finite set.                                                 *)

(* Any collection of subsets of a finite set has a least one.  A statement *)
(* holds for all of them if no set is the least it does not hold for.      *)
LEMMA LeastSubset ==
    ASSUME NEW S, IsFiniteSet(S), NEW Q, Q \subseteq SUBSET S, Q # {}
    PROVE  \E x \in Q : \A y \in Q : y \subseteq x => y = x
<1>1. FiniteSubsetsOf(S) = SUBSET S
  BY FS_FiniteSubsetsOfFinite
<1>2. IsWellFoundedOn(StrictSubsetOrdering(S), SUBSET S)
  BY <1>1, FS_StrictSubsetOrderingWellFounded
<1>3. PICK x \in Q : \A y \in Q : ~(<<y, x>> \in StrictSubsetOrdering(S))
  BY <1>2, WFMin
<1>4. ASSUME NEW y \in Q, y \subseteq x PROVE y = x
  BY <1>3, <1>4 DEF StrictSubsetOrdering
<1> QED
  BY <1>4

(* The element that the fold takes out of s first.                         *)
Chosen(s) == CHOOSE x \in s : TRUE

(* g maps every subset of S to the sum of f over it, as the fold adds up.  *)
Sums(f, S, g) ==
    g = [s \in SUBSET S |-> IF s = {} THEN 0 ELSE f[Chosen(s)] + g[s \ {Chosen(s)}]]

(* The fold of the community modules, unfolded.                            *)
LEMMA SumIsFold ==
    ASSUME NEW f, NEW S
    PROVE SumFunctionOnSet(f, S) = (CHOOSE g : Sums(f, S, g))[S]
  BY DEF SumFunctionOnSet, FoldFunctionOnSet, MapThenFoldSet, Sums, Chosen

(* The sums of a larger set's subsets are those of a smaller one's.        *)
LEMMA SumsUnique ==
    ASSUME NEW f, NEW S, IsFiniteSet(S), NEW T \in SUBSET S, NEW g, Sums(f, S, g), NEW h, Sums(f, T, h)
    PROVE  \A s \in SUBSET T : g[s] = h[s]
<1> DEFINE Q == {s \in SUBSET T : g[s] # h[s]}
<1> SUFFICES ASSUME Q # {} PROVE FALSE
  OBVIOUS
<1>1. Q \subseteq SUBSET S /\ Q \subseteq SUBSET T
  OBVIOUS
<1>2. PICK s \in Q : \A y \in Q : y \subseteq s => y = s
  <2> HIDE DEF Q
  <2> QED
    BY <1>1, LeastSubset
<1>3. s \in SUBSET S /\ s \in SUBSET T
  BY <1>1
<1>4. /\ g[s] = IF s = {} THEN 0 ELSE f[Chosen(s)] + g[s \ {Chosen(s)}]
  BY <1>3 DEF Sums
<1>5. /\ h[s] = IF s = {} THEN 0 ELSE f[Chosen(s)] + h[s \ {Chosen(s)}]
  BY <1>3 DEF Sums
<1>6. s # {}
  BY <1>2, <1>4, <1>5
<1>7. Chosen(s) \in s
  BY <1>6 DEF Chosen
<1>8. g[s \ {Chosen(s)}] = h[s \ {Chosen(s)}]
  BY <1>2, <1>3, <1>7
<1> QED
  BY <1>2, <1>4, <1>5, <1>6, <1>8

(* The recursion of the fold defines a function.                           *)
LEMMA SumsExists ==
    ASSUME NEW f, NEW S, IsFiniteSet(S)
    PROVE  \E g : Sums(f, S, g)
<1> DEFINE Q == {s \in SUBSET S : ~\E g : Sums(f, s, g)}
           V(s) == (CHOOSE g : Sums(f, s, g))[s]
<1> SUFFICES ASSUME Q # {} PROVE FALSE
  OBVIOUS
<1>0. Q \subseteq SUBSET S
  OBVIOUS
<1>1. PICK s \in Q : \A y \in Q : y \subseteq s => y = s
  <2> HIDE DEF Q
  <2> QED
    BY <1>0, LeastSubset
<1>2. ASSUME NEW t \in SUBSET s, t # s
      PROVE  Sums(f, t, CHOOSE g : Sums(f, t, g))
  <2>1. t \notin Q
     BY <1>1, <1>2
  <2>2. \E g : Sums(f, t, g)
     BY <2>1
  <2> QED BY <2>2
<1>3. ASSUME NEW t \in SUBSET s, t # s
      PROVE V(t) = IF t = {} THEN 0 ELSE f[Chosen(t)] + V(t \ {Chosen(t)})
  <2> DEFINE g == CHOOSE g : Sums(f, t, g)
             r == t \ {Chosen(t)}
             h == CHOOSE h : Sums(f, r, h)
  <2>1. Sums(f, t, g)
    BY <1>2, <1>3
  <2>2. CASE t = {}
    BY <2>1, <2>2 DEF Sums
  <2>3. CASE t # {}
    <3>1. Chosen(t) \in t
      BY <2>3 DEF Chosen
    <3>2. r \in SUBSET s /\ r # s /\ r \in SUBSET t
      BY <3>1
    <3>3. Sums(f, r, h)
      BY <3>2, <1>2
    <3>4. IsFiniteSet(t)
      BY <1>1, FS_Subset
    <3>5. g[r] = h[r]
      <4> HIDE DEF g, h, r
      <4> QED  BY <3>2, <3>3, <2>1, <3>4, SumsUnique
    <3>6. g[t] = f[Chosen(t)] + g[r]
      <4> HIDE DEF g
      <4> QED BY <2>1, <2>3 DEF Sums
    <3> QED BY <3>5, <3>6, <2>3
  <2> QED BY <2>2, <2>3
<1> DEFINE W == [t \in SUBSET s |-> IF t = {} THEN 0 ELSE f[Chosen(t)] + V(t \ {Chosen(t)})]
<1>4. ASSUME NEW t \in SUBSET s, t # {}
      PROVE  V(t \ {Chosen(t)}) = W[t \ {Chosen(t)}]
  <2>1. Chosen(t) \in t
    BY <1>4 DEF Chosen
  <2>2. t \ {Chosen(t)} \in SUBSET s /\ t \ {Chosen(t)} # s
    BY <2>1
  <2> HIDE DEF V
  <2> QED BY <1>3, <2>2
<1> HIDE DEF V
<1>5. W = [t \in SUBSET s |-> IF t = {} THEN 0 ELSE f[Chosen(t)] + W[t \ {Chosen(t)}]]
  BY <1>4
<1>6. Sums(f, s, W)
  <2> HIDE DEF W
  <2> QED BY <1>5 DEF Sums
<1> QED
  BY <1>6, <1>1
(* Nothing adds up to zero.                                                *)
LEMMA SumOfNone == ASSUME NEW f PROVE SumFunctionOnSet(f, {}) = 0
<1> DEFINE g == CHOOSE g : Sums(f, {}, g)
<1>1. Sums(f, {}, g)
  BY SumsExists, FS_EmptySet
<1>2. g[{}] = 0
  <2> HIDE DEF g
  <2> QED BY <1>1 DEF Sums
<1> QED BY <1>2, SumIsFold

(* One step of the fold.                                                   *)
LEMMA SumOfSome ==
    ASSUME NEW f, NEW S, IsFiniteSet(S), S # {}
    PROVE  SumFunctionOnSet(f, S) = f[Chosen(S)] + SumFunctionOnSet(f, S \ {Chosen(S)})
<1> DEFINE r == S \ {Chosen(S)}
           g == CHOOSE g : Sums(f, S, g)
           h == CHOOSE h : Sums(f, r, h)
<1>1. IsFiniteSet(r) /\ r \in SUBSET S
  BY FS_Subset
<1>2. Sums(f, S, g) /\ Sums(f, r, h)
  BY <1>1, SumsExists
<1>3. SumFunctionOnSet(f, S) = g[S] /\ SumFunctionOnSet(f, r) = h[r]
  BY SumIsFold
<1> HIDE DEF g, h
<1>4. g[S] = f[Chosen(S)] + g[r]
  BY <1>2 DEF Sums
<1>5. g[r] = h[r]
  BY <1>1, <1>2, SumsUnique
<1> QED BY <1>3, <1>4, <1>5

(* Integers add up to an integer, and any of them can be added last: the   *)
(* sum does not depend on the order in which the fold chooses.             *)
LEMMA SumTakeOut ==
    ASSUME NEW f, NEW S, IsFiniteSet(S), \A x \in S : f[x] \in Int
    PROVE  /\ SumFunctionOnSet(f, S) \in Int
           /\ \A x \in S : SumFunctionOnSet(f, S) = f[x] + SumFunctionOnSet(f, S \ {x})
<1> DEFINE Sum(s) == SumFunctionOnSet(f, s)
           Good(s) == Sum(s) \in Int /\ \A x \in s : Sum(s) = f[x] + Sum(s \ {x})
           Q == {s \in SUBSET S : ~Good(s)}
<1>0. ASSUME Q # {} PROVE FALSE
  <2>1. Q \subseteq SUBSET S
    OBVIOUS
  <2>2. PICK s \in Q : \A y \in Q : y \subseteq s => y = s
    <3> HIDE DEF Q
    <3> QED
      BY <1>0, <2>1, LeastSubset
  <2>3. \A y \in SUBSET s : y # s => Good(y)
    <3> HIDE DEF Good
    <3> QED
      BY <2>2
  <2>4. IsFiniteSet(s) /\ s \in SUBSET S
    BY FS_Subset
  <2>5. CASE s = {}
    BY <2>5, <2>2, SumOfNone
  <2>6. CASE s # {}
    <3> DEFINE c == Chosen(s)
    <3>1. c \in s
      BY <2>6 DEF Chosen
    <3>2. Sum(s) = f[c] + Sum(s \ {c})
      BY <2>4, <2>6, SumOfSome
    <3> HIDE DEF c
    <3>3. Good(s \ {c})
      <4> HIDE DEF Good
      <4> QED
         BY <2>3, <3>1
    <3>4. Sum(s) \in Int
      BY <3>1, <3>2, <3>3, <2>4
    <3>5. ASSUME NEW x \in s, x # c PROVE Sum(s) = f[x] + Sum(s \ {x})
      <4>1. Good(s \ {x})
        <5> HIDE DEF Good
        <5> QED
          BY <2>3
      <4>4. (s \ {x}) \ {c} = (s \ {c}) \ {x}
        OBVIOUS
      <4>2. Sum(s \ {x}) = f[c] + Sum((s \ {c}) \ {x})
        BY <4>1, <4>4, <3>5, <3>1
      <4>3. Sum(s \ {c}) = f[x] + Sum((s \ {c}) \ {x})
        BY <3>3, <3>5
      <4>5. f[x] \in Int /\ f[c] \in Int /\ Sum((s \ {c}) \ {x}) \in Int
        <5>1. Good((s \ {c}) \ {x})
          <6> HIDE DEF Good
          <6> QED
            BY <2>3, <3>5, <3>1
        <5> QED BY <5>1, <2>4, <3>1, <3>5
      <4>6. f[c] + (f[x] + Sum((s \ {c}) \ {x})) = f[x] + (f[c] + Sum((s \ {c}) \ {x}))
        BY <4>5
      <4> QED BY <4>2, <4>3, <4>6, <3>2
    <3>6. Good(s)
      BY <3>2, <3>4, <3>5
    <3> QED
      <4> HIDE DEF Good
      <4> QED BY <2>2, <3>6
  <2> QED BY <2>5, <2>6
<1>1. S \notin Q
  BY <1>0
<1> QED BY <1>1

(* More naturals do not add up to less.                                    *)
LEMMA SumOfNaturals ==
    ASSUME NEW f, NEW S, IsFiniteSet(S), \A x \in S : f[x] \in Nat, NEW T \in SUBSET S
    PROVE  /\ SumFunctionOnSet(f, T) \in Nat /\ SumFunctionOnSet(f, S) \in Nat
           /\ SumFunctionOnSet(f, T) <= SumFunctionOnSet(f, S)
<1> DEFINE Sum(s) == SumFunctionOnSet(f, s)
           Good(s) == Sum(s) \in Nat /\ Sum(T \cap s) \in Nat /\ Sum(T \cap s) <= Sum(s)
           Q == {s \in SUBSET S : ~Good(s)}
<1>0. ASSUME Q # {} PROVE FALSE
  <2>1. Q \subseteq SUBSET S
    OBVIOUS
  <2>2. PICK s \in Q : \A y \in Q : y \subseteq s => y = s
    <3> HIDE DEF Q
    <3> QED
      BY <1>0, <2>1, LeastSubset
  <2>3. \A y \in SUBSET s : y # s => Good(y)
    <3> HIDE DEF Good
    <3> QED
      BY <2>2
  <2>4. IsFiniteSet(s) /\ s \in SUBSET S /\ IsFiniteSet(T \cap s)
    BY FS_Subset
  <2>5. CASE s = {}
    <3>1. T \cap s = {}
      BY <2>5
    <3> QED
      BY <2>5, <2>2, <3>1, SumOfNone
  <2>6. CASE s # {}
    <3>1. PICK c : c \in s
      BY <2>6
    <3>2. Sum(s) = f[c] + Sum(s \ {c}) /\ f[c] \in Nat
      BY <2>4, <3>1, SumTakeOut
    <3>3. Good(s \ {c})
      <4> HIDE DEF Good
      <4> QED
         BY <2>3, <3>1
    <3>4. CASE c \in T
      <4>1. Sum(T \cap s) = f[c] + Sum((T \cap s) \ {c})
        BY <2>4, <3>1, <3>4, SumTakeOut
      <4>2. (T \cap s) \ {c} = T \cap (s \ {c})
        OBVIOUS
      <4>3. Good(s)
        BY <4>1, <4>2, <3>2, <3>3
      <4> HIDE DEF Good
      <4> QED BY <2>2, <4>3
    <3>5. CASE c \notin T
      <4>1. T \cap (s \ {c}) = T \cap s
        BY <3>5
      <4>3. Good(s)
        BY SMTT(20), <4>1, <3>2, <3>3
      <4> HIDE DEF Good
      <4> QED BY <2>2, <4>3
    <3> QED BY <3>4, <3>5
  <2> QED BY <2>5, <2>6
<1>1. S \notin Q
  BY <1>0
<1>2. T \cap S = T
  OBVIOUS
<1> QED BY <1>1, <1>2

(* The sum depends on the values over S only.                              *)
LEMMA SumOfSame ==
    ASSUME NEW f, NEW g, NEW S, IsFiniteSet(S), \A x \in S : f[x] = g[x]
    PROVE  SumFunctionOnSet(f, S) = SumFunctionOnSet(g, S)
<1> DEFINE Q == {s \in SUBSET S : SumFunctionOnSet(f, s) # SumFunctionOnSet(g, s)}
<1>0. ASSUME Q # {} PROVE FALSE
  <2>1. Q \subseteq SUBSET S
    OBVIOUS
  <2>2. PICK s \in Q : \A y \in Q : y \subseteq s => y = s
    <3> HIDE DEF Q
    <3> QED
      BY <1>0, <2>1, LeastSubset
  <2>3. \A y \in SUBSET s : y # s => SumFunctionOnSet(f, y) = SumFunctionOnSet(g, y)
    BY <2>2
  <2>4. IsFiniteSet(s)
    BY FS_Subset
  <2>5. s # {}
    BY <2>2, SumOfNone
  <2>6. Chosen(s) \in s
    BY <2>5 DEF Chosen
  <2>7. SumFunctionOnSet(f, s \ {Chosen(s)}) = SumFunctionOnSet(g, s \ {Chosen(s)})
    BY <2>3, <2>6
  <2> QED BY <2>2, <2>4, <2>5, <2>6, <2>7, SumOfSome
<1> QED BY <1>0

-----------------------------------------------------------------------------
(* CountWindow.                                                            *)

(* reset() leaves a window with nothing in it.                             *)
LEMMA CountResetEmpties ==
    ASSUME NEW size \in Nat \ {0}
    PROVE  /\ CountReset \in CountWindows(size)
           /\ CountStats(CountReset) = [total |-> 0, failures |-> 0]
  BY DEF CountReset, CountStats, CountWindows

(* record() adds one outcome until the ring is full, and no more failures  *)
(* than that one.                                                          *)
LEMMA CountRecordAdds ==
    ASSUME NEW size \in Nat \ {0}, NEW w \in CountWindows(size), NEW failure \in BOOLEAN
    PROVE  LET r == CountRecord(w, size, failure) IN
           /\ r \in CountWindows(size)
           /\ CountStats(r).total = IF Len(w.outcomes) < size THEN Len(w.outcomes) + 1 ELSE size
           /\ CountStats(r).failures <= CountStats(w).failures + AsCount(failure)
<1> DEFINE r == CountRecord(w, size, failure)
<1>1. /\ w \in [outcomes : Seq(BOOLEAN), next : Nat, failures : Int]
      /\ Len(w.outcomes) <= size /\ w.next < size /\ Len(w.outcomes) \in Nat
  BY DEF CountWindows
<1>0. \A x : AsCount(x) \in 0 .. 1
  BY DEF AsCount
<1>2. CASE Len(w.outcomes) < size
  <2>1. r = [w EXCEPT !.outcomes = Append(@, failure), !.failures = @ + AsCount(failure)]
    BY <1>2 DEF CountRecord
  <2> HIDE DEF r
  <2>2. /\ r \in [outcomes : Seq(BOOLEAN), next : Nat, failures : Int]
        /\ r.outcomes = Append(w.outcomes, failure) /\ r.next = w.next
        /\ r.failures = w.failures + AsCount(failure)
    <3>1. Append(w.outcomes, failure) \in Seq(BOOLEAN)
      BY <1>1
    <3>2. w.failures + AsCount(failure) \in Int
      BY <1>0, <1>1
    <3> QED
      BY <1>1, <2>1, <3>1, <3>2
  <2>3. Len(r.outcomes) = Len(w.outcomes) + 1
    BY <1>1, <2>2
  <2> QED
    BY <1>1, <1>2, <2>2, <2>3 DEF CountWindows, CountStats, AsCount, r
<1>3. CASE ~(Len(w.outcomes) < size)
  <2>1. r = [outcomes |-> [w.outcomes EXCEPT ![w.next + 1] = failure],
             next |-> (w.next + 1) % size,
             failures |-> w.failures - AsCount(w.outcomes[w.next + 1]) + AsCount(failure)]
    BY <1>3 DEF CountRecord
  <2> HIDE DEF r
  <2>2. (w.next + 1) % size \in 0 .. size - 1
    BY <1>1
  <2>3. /\ r \in [outcomes : Seq(BOOLEAN), next : Nat, failures : Int]
        /\ r.outcomes = [w.outcomes EXCEPT ![w.next + 1] = failure]
        /\ r.next = (w.next + 1) % size
        /\ r.failures = w.failures - AsCount(w.outcomes[w.next + 1]) + AsCount(failure)
    <3>1. [w.outcomes EXCEPT ![w.next + 1] = failure] \in Seq(BOOLEAN)
      BY <1>1, <1>3, w.outcomes \in Seq(BOOLEAN)
    <3>2. w.failures - AsCount(w.outcomes[w.next + 1]) + AsCount(failure) \in Int
      BY <1>0, <1>1
    <3> QED
      BY <1>1, <2>1, <2>2, <3>1, <3>2
  <2>4. Len(r.outcomes) = Len(w.outcomes)
    BY <1>1, <2>3
  <2>5. /\ Len(r.outcomes) = size /\ r.next < size
        /\ r.failures <= w.failures + AsCount(failure)
    BY <1>0, <1>1, <1>3, <2>2, <2>3, <2>4
  <2> QED
    BY <1>1, <1>3, <2>3, <2>5 DEF CountWindows, CountStats, r
<1> QED
  BY <1>2, <1>3

-----------------------------------------------------------------------------
(* TimeWindow.                                                             *)

(* The slots that stats() reads at this time.                              *)
Live(w, buckets, width, now) ==
    {slot \in DOMAIN w : w[slot].id > BucketId(width, now) - buckets}

(* The clock's bucket is a natural, and none is left behind a later one.   *)
LEMMA BucketIds ==
    ASSUME NEW width \in Nat \ {0}, NEW now \in Nat
    PROVE  /\ BucketId(width, now) \in Nat
           /\ BucketId(width, now + 1) \in Nat
           /\ BucketId(width, now) <= BucketId(width, now + 1)
  BY DEF BucketId

(* What stats() adds up is natural numbers.                                *)
LEMMA TimeStatsType ==
    ASSUME NEW buckets \in Nat \ {0}, NEW width \in Nat \ {0}, NEW now \in Nat,
           NEW w \in TimeWindows(buckets)
    PROVE  /\ IsFiniteSet(DOMAIN w)
           /\ \A slot \in DOMAIN w : Totals(w)[slot] \in Nat /\ Failures(w)[slot] \in Nat
           /\ Live(w, buckets, width, now) \in SUBSET (DOMAIN w)
           /\ TimeStats(w, buckets, width, now).total
                  = SumFunctionOnSet(Totals(w), Live(w, buckets, width, now))
           /\ TimeStats(w, buckets, width, now).failures
                  = SumFunctionOnSet(Failures(w), Live(w, buckets, width, now))
           /\ TimeStats(w, buckets, width, now).total \in Nat
           /\ TimeStats(w, buckets, width, now).failures \in Nat
<1>1. IsFiniteSet(DOMAIN w)
  BY FS_Interval DEF TimeWindows
<1>2. \A slot \in DOMAIN w : Totals(w)[slot] \in Nat /\ Failures(w)[slot] \in Nat
  BY DEF TimeWindows, Totals, Failures
<1>3. Live(w, buckets, width, now) \in SUBSET (DOMAIN w)
  BY DEF Live
<1>4. /\ TimeStats(w, buckets, width, now).total
             = SumFunctionOnSet(Totals(w), Live(w, buckets, width, now))
      /\ TimeStats(w, buckets, width, now).failures
             = SumFunctionOnSet(Failures(w), Live(w, buckets, width, now))
  BY DEF TimeStats, Live
<1>5. /\ SumFunctionOnSet(Totals(w), Live(w, buckets, width, now)) \in Nat
      /\ SumFunctionOnSet(Failures(w), Live(w, buckets, width, now)) \in Nat
  BY <1>1, <1>2, <1>3, SumOfNaturals
<1> QED
  BY <1>1, <1>2, <1>3, <1>4, <1>5

(* A window that was reset has nothing to report, at any time.             *)
LEMMA TimeResetEmpties ==
    ASSUME NEW buckets \in Nat \ {0}, NEW width \in Nat \ {0}, NEW now \in Nat
    PROVE  /\ TimeReset(buckets) \in TimeWindows(buckets)
           /\ TimeStats(TimeReset(buckets), buckets, width, now) = [total |-> 0, failures |-> 0]
<1>1. TimeReset(buckets) \in TimeWindows(buckets)
  BY DEF TimeReset, TimeWindows, EmptyBucket, Never
<1>2. Live(TimeReset(buckets), buckets, width, now) = {}
  <2>1. \A slot \in DOMAIN TimeReset(buckets) : TimeReset(buckets)[slot].id = -buckets - 1
    BY DEF TimeReset, EmptyBucket, Never
  <2>2. ~(-buckets - 1 > BucketId(width, now) - buckets)
    BY BucketIds
  <2> QED
    BY <2>1, <2>2 DEF Live
<1> QED
  BY <1>1, <1>2, SumOfNone DEF TimeStats, Live

(* As time passes, buckets drop out and none comes back.                   *)
LEMMA TimeStatsShrink ==
    ASSUME NEW buckets \in Nat \ {0}, NEW width \in Nat \ {0}, NEW now \in Nat,
           NEW w \in TimeWindows(buckets)
    PROVE  /\ TimeStats(w, buckets, width, now + 1).total
                  <= TimeStats(w, buckets, width, now).total
           /\ TimeStats(w, buckets, width, now + 1).failures
                  <= TimeStats(w, buckets, width, now).failures
<1> DEFINE before == Live(w, buckets, width, now)
           after == Live(w, buckets, width, now + 1)
<1>1. after \subseteq before
  <2>1. \A slot \in DOMAIN w : w[slot].id \in Int
    BY DEF TimeWindows
  <2>2. /\ BucketId(width, now) \in Nat /\ BucketId(width, now + 1) \in Nat
        /\ BucketId(width, now) <= BucketId(width, now + 1)
    BY BucketIds
  <2> QED
    BY <2>1, <2>2 DEF Live
<1>2. IsFiniteSet(before) /\ before \subseteq DOMAIN w
  BY TimeStatsType, FS_Subset
<1>3. \A slot \in before : Totals(w)[slot] \in Nat /\ Failures(w)[slot] \in Nat
  BY <1>2, TimeStatsType
<1>4. /\ SumFunctionOnSet(Totals(w), after) <= SumFunctionOnSet(Totals(w), before)
      /\ SumFunctionOnSet(Failures(w), after) <= SumFunctionOnSet(Failures(w), before)
  BY <1>1, <1>2, <1>3, SumOfNaturals
<1>5. now + 1 \in Nat
  OBVIOUS
<1> QED
  BY <1>4, <1>5, TimeStatsType

(* When the value at k becomes d more than what was counted of it before,  *)
(* so does the sum at most.                                                *)
LEMMA SumUpdate ==
    ASSUME NEW D, IsFiniteSet(D), NEW f, NEW g,
           \A x \in D : f[x] \in Nat /\ g[x] \in Nat,
           NEW before \in SUBSET D, NEW after \in SUBSET D, NEW k \in after, NEW d \in Nat,
           after \ {k} = before \ {k}, \A x \in after \ {k} : f[x] = g[x],
           g[k] <= d + IF k \in before THEN f[k] ELSE 0
    PROVE  SumFunctionOnSet(g, after) <= SumFunctionOnSet(f, before) + d
<1> DEFINE rest == after \ {k}
<1>1. IsFiniteSet(before) /\ IsFiniteSet(after) /\ IsFiniteSet(rest)
  BY FS_Subset
<1>2. SumFunctionOnSet(g, after) = g[k] + SumFunctionOnSet(g, rest)
  BY <1>1, SumTakeOut
<1>3. SumFunctionOnSet(g, rest) = SumFunctionOnSet(f, rest)
  BY <1>1, SumOfSame
<1>4. SumFunctionOnSet(f, rest) \in Nat /\ SumFunctionOnSet(f, before) \in Nat
  BY <1>1, SumOfNaturals
<1>5. CASE k \in before
  <2>1. SumFunctionOnSet(f, before) = f[k] + SumFunctionOnSet(f, before \ {k})
    BY <1>1, <1>5, SumTakeOut
  <2>2. SumFunctionOnSet(f, before) = f[k] + SumFunctionOnSet(f, rest)
    BY <2>1
  <2> HIDE DEF rest
  <2> QED
    BY <1>2, <1>3, <1>4, <1>5, <2>2
<1>6. CASE k \notin before
  <2>1. before = rest
    BY <1>6
  <2> HIDE DEF rest
  <2> QED
    BY <1>2, <1>3, <1>4, <1>6, <2>1
<1> QED
  BY <1>5, <1>6

(* record() adds one outcome to what stats() reports, and one failure if   *)
(* it is one, even as the bucket it goes to is recycled.                   *)
LEMMA TimeRecordAdds ==
    ASSUME NEW buckets \in Nat \ {0}, NEW width \in Nat \ {0}, NEW now \in Nat,
           NEW w \in TimeWindows(buckets), NEW failure \in BOOLEAN
    PROVE  LET r == TimeRecord(w, buckets, width, now, failure) IN
           /\ r \in TimeWindows(buckets)
           /\ TimeStats(r, buckets, width, now).total
                  <= TimeStats(w, buckets, width, now).total + 1
           /\ TimeStats(r, buckets, width, now).failures
                  <= TimeStats(w, buckets, width, now).failures + AsCount(failure)
<1> DEFINE id == BucketId(width, now)
           slot == id % buckets
           bucket == IF w[slot].id = id THEN w[slot] ELSE EmptyBucket(id)
           r == TimeRecord(w, buckets, width, now, failure)
           before == Live(w, buckets, width, now)
           after == Live(r, buckets, width, now)
<1>1. id \in Nat
  BY BucketIds
<1> HIDE DEF id
<1>2. slot \in 0 .. buckets - 1
  BY <1>1
<1> HIDE DEF slot
<1>3. /\ bucket \in [id : Int, total : Nat, failures : Nat] /\ bucket.id = id
      /\ \/ bucket = w[slot] /\ w[slot].id = id
         \/ bucket.total = 0 /\ bucket.failures = 0
  <2>1. w[slot] \in [id : Int, total : Nat, failures : Nat]
    BY <1>2 DEF TimeWindows
  <2>2. /\ EmptyBucket(id) \in [id : Int, total : Nat, failures : Nat]
        /\ EmptyBucket(id).id = id
        /\ EmptyBucket(id).total = 0 /\ EmptyBucket(id).failures = 0
    BY <1>1 DEF EmptyBucket
  <2> QED
    BY <2>1, <2>2
<1> DEFINE new == [id |-> id, total |-> bucket.total + 1,
                   failures |-> bucket.failures + AsCount(failure)]
<1>4. r = [w EXCEPT ![slot] = new]
  BY DEF TimeRecord, id, slot
<1> HIDE DEF bucket, r
<1>5. AsCount(failure) \in Nat
  BY DEF AsCount
<1>6. /\ r \in TimeWindows(buckets)
      /\ r[slot].id = id /\ r[slot].total = bucket.total + 1
      /\ r[slot].failures = bucket.failures + AsCount(failure)
      /\ \A s \in (0 .. buckets - 1) \ {slot} : r[s] = w[s]
  <2>1. /\ new \in [id : Int, total : Nat, failures : Nat]
        /\ new.id = id /\ new.total = bucket.total + 1
        /\ new.failures = bucket.failures + AsCount(failure)
    BY <1>1, <1>3, <1>5
  <2> HIDE DEF new
  <2> QED
    BY <1>2, <1>4, <2>1 DEF TimeWindows
<1>7. /\ slot \in after /\ after \ {slot} = before \ {slot}
      /\ w[slot].id = id => slot \in before
  <2>1. /\ DOMAIN w = 0 .. buckets - 1 /\ DOMAIN r = 0 .. buckets - 1
        /\ id > id - buckets
    BY <1>1, <1>6 DEF TimeWindows
  <2> QED
    BY <1>2, <1>6, <2>1 DEF Live, id
<1>8. /\ DOMAIN w = 0 .. buckets - 1 /\ DOMAIN r = 0 .. buckets - 1
      /\ IsFiniteSet(0 .. buckets - 1)
      /\ \A s \in 0 .. buckets - 1 : /\ Totals(w)[s] \in Nat /\ Totals(r)[s] \in Nat
                                     /\ Failures(w)[s] \in Nat /\ Failures(r)[s] \in Nat
      /\ before \in SUBSET (0 .. buckets - 1) /\ after \in SUBSET (0 .. buckets - 1)
  <2>1. DOMAIN w = 0 .. buckets - 1 /\ DOMAIN r = 0 .. buckets - 1
    BY <1>6 DEF TimeWindows
  <2> QED
    BY <1>6, <2>1, TimeStatsType
<1>9. /\ \A s \in after \ {slot} : Totals(w)[s] = Totals(r)[s] /\ Failures(w)[s] = Failures(r)[s]
      /\ Totals(w)[slot] = w[slot].total /\ Failures(w)[slot] = w[slot].failures
      /\ Totals(r)[slot] = r[slot].total /\ Failures(r)[slot] = r[slot].failures
  BY <1>2, <1>6, <1>8 DEF Totals, Failures
<1>10. /\ Totals(r)[slot] <= 1 + IF slot \in before THEN Totals(w)[slot] ELSE 0
       /\ Failures(r)[slot] <= AsCount(failure) + IF slot \in before THEN Failures(w)[slot] ELSE 0
  <2>1. CASE bucket = w[slot] /\ w[slot].id = id
    <3>1. slot \in before /\ Totals(w)[slot] \in Nat /\ Failures(w)[slot] \in Nat
      BY <1>2, <1>7, <1>8, <2>1
    <3>2. /\ Totals(r)[slot] = Totals(w)[slot] + 1
          /\ Failures(r)[slot] = Failures(w)[slot] + AsCount(failure)
      BY <1>6, <1>9, <2>1
    <3> QED
      BY <1>5, <3>1, <3>2
  <2>2. CASE bucket.total = 0 /\ bucket.failures = 0
    BY <1>2, <1>5, <1>6, <1>8, <1>9, <2>2
  <2> QED
    BY <1>3, <2>1, <2>2
<1> HIDE DEF before, after
<1>11. SumFunctionOnSet(Totals(r), after) <= SumFunctionOnSet(Totals(w), before) + 1
  BY <1>7, <1>8, <1>9, <1>10, SumUpdate
<1>12. SumFunctionOnSet(Failures(r), after)
          <= SumFunctionOnSet(Failures(w), before) + AsCount(failure)
  BY <1>5, <1>7, <1>8, <1>9, <1>10, SumUpdate
<1> QED
  BY <1>6, <1>11, <1>12, TimeStatsType DEF before, after, r
=============================================================================
