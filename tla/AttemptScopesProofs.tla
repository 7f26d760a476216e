------------------------ MODULE AttemptScopesProofs -------------------------
(***************************************************************************)
(* For any number of scopes and signals: code in any context finds the     *)
(* innermost scope around it that hasn't ended, never in an attempt whose  *)
(* signal has aborted, and nothing holds a scope that has ended.           *)
(*                                                                         *)
(* CurrentScope and Around are recursive functions.  That they are defined *)
(* and what they give is proved by looking at a least scope for which it   *)
(* would not be so.                                                        *)
(***************************************************************************)
EXTENDS AttemptScopes, FiniteSetTheorems, NaturalsInduction, SequenceTheorems, TLAPS

-----------------------------------------------------------------------------
(* Recursion from a number to smaller ones.                                *)

(* A set of naturals has a least one.                                      *)
LEMMA Least ==
    ASSUME NEW T \in SUBSET Nat, T # {}
    PROVE  \E m \in T : \A n \in T : m <= n
<1>1. PICK m \in T : \A n \in T : ~(<<n, m>> \in OpToRel(<, Nat))
  BY NatLessThanWellFounded, WFMin
<1>2. \A n \in T : ~(n < m)
  BY <1>1 DEF OpToRel
<1> QED
  BY <1>2

(* f walks from s to p[s] while in E.                                      *)
Walks(n, E, p, f) == f = [s \in 0 .. n |-> IF s \in E THEN f[p[s]] ELSE s]

(* f collects s and what it collects from t[s], down to 0.                 *)
Collects(n, t, f) == f = [s \in 0 .. n |-> IF s = 0 THEN {} ELSE {s} \cup f[t[s]]]

(* There is such a walk.                                                   *)
LEMMA WalkExists ==
    ASSUME NEW n \in Nat, NEW E, 0 \notin E, NEW p, \A s \in 1 .. n : p[s] \in 0 .. s - 1
    PROVE  \E f : Walks(n, E, p, f)
<1> DEFINE T == {m \in 0 .. n : ~\E f : Walks(m, E, p, f)}
<1> SUFFICES ASSUME T # {} PROVE FALSE
  OBVIOUS
<1>1. T \in SUBSET Nat
  OBVIOUS
<1>2. PICK m \in T : \A k \in T : m <= k
  <2> HIDE DEF T
  <2> QED
    BY <1>1, Least
<1>3. m \in 0 .. n /\ ~\E f : Walks(m, E, p, f)
  OBVIOUS
<1>4. m # 0
  <2>1. Walks(0, E, p, [s \in 0 .. 0 |-> s])
    BY DEF Walks
  <2> QED
    BY <1>3, <2>1
<1>5. m - 1 \in 0 .. n /\ m - 1 \notin T
  BY <1>2, <1>3, <1>4
<1>6. PICK f : Walks(m - 1, E, p, f)
  BY <1>5
<1> DEFINE g == [s \in 0 .. m |-> IF s = m THEN (IF m \in E THEN f[p[m]] ELSE m) ELSE f[s]]
<1>7. Walks(m, E, p, g)
  <2>1. \A s \in 0 .. m : g[s] = IF s \in E THEN g[p[s]] ELSE s
    <3> SUFFICES ASSUME NEW s \in 0 .. m PROVE g[s] = IF s \in E THEN g[p[s]] ELSE s
      OBVIOUS
    <3>1. s \in E => p[s] \in 0 .. m /\ p[s] # m
      BY <1>3, <1>4
    <3>2. CASE s = m
      BY <3>1, <3>2
    <3>3. CASE s # m
      <4>1. s \in 0 .. m - 1
        BY <1>3, <3>3
      <4>2. f[s] = IF s \in E THEN f[p[s]] ELSE s
        BY <1>6, <4>1 DEF Walks
      <4> QED
        BY <3>1, <3>3, <4>2
    <3> QED
      BY <3>2, <3>3
  <2> HIDE DEF g
  <2>2. g = [s \in 0 .. m |-> g[s]]
    BY DEF g
  <2> QED
    BY <2>1, <2>2 DEF Walks
<1> QED
  BY <1>3, <1>7

(* And such a collection.                                                  *)
LEMMA CollectionExists ==
    ASSUME NEW n \in Nat, NEW t, \A s \in 1 .. n : t[s] \in 0 .. s - 1
    PROVE  \E f : Collects(n, t, f)
<1> DEFINE T == {m \in 0 .. n : ~\E f : Collects(m, t, f)}
<1> SUFFICES ASSUME T # {} PROVE FALSE
  OBVIOUS
<1>1. T \in SUBSET Nat
  OBVIOUS
<1>2. PICK m \in T : \A k \in T : m <= k
  <2> HIDE DEF T
  <2> QED
    BY <1>1, Least
<1>3. m \in 0 .. n /\ ~\E f : Collects(m, t, f)
  OBVIOUS
<1>4. m # 0
  <2>1. Collects(0, t, [s \in 0 .. 0 |-> {}])
    BY DEF Collects
  <2> QED
    BY <1>3, <2>1
<1>5. m - 1 \in 0 .. n /\ m - 1 \notin T
  BY <1>2, <1>3, <1>4
<1>6. PICK f : Collects(m - 1, t, f)
  BY <1>5
<1> DEFINE g == [s \in 0 .. m |-> IF s = m THEN {m} \cup f[t[m]] ELSE f[s]]
<1>7. Collects(m, t, g)
  <2>1. \A s \in 0 .. m : g[s] = IF s = 0 THEN {} ELSE {s} \cup g[t[s]]
    <3> SUFFICES ASSUME NEW s \in 0 .. m PROVE g[s] = IF s = 0 THEN {} ELSE {s} \cup g[t[s]]
      OBVIOUS
    <3>1. s # 0 => t[s] \in 0 .. m /\ t[s] # m
      BY <1>3
    <3>2. CASE s = m
      BY <1>4, <3>1, <3>2
    <3>3. CASE s # m
      <4>1. s \in 0 .. m - 1
        BY <1>3, <3>3
      <4>2. f[s] = IF s = 0 THEN {} ELSE {s} \cup f[t[s]]
        BY <1>6, <4>1 DEF Collects
      <4> QED
        BY <3>1, <3>3, <4>2
    <3> QED
      BY <3>2, <3>3
  <2> HIDE DEF g
  <2>2. g = [s \in 0 .. m |-> g[s]]
    BY DEF g
  <2> QED
    BY <2>1, <2>2 DEF Collects
<1> QED
  BY <1>3, <1>7

(* As WalkExists and CollectionExists say, these are the walk and the      *)
(* collection.                                                             *)
Walk(n, E, p) == CHOOSE f : Walks(n, E, p, f)
Collection(n, t) == CHOOSE f : Collects(n, t, f)

LEMMA WalkUnfolds ==
    ASSUME NEW n \in Nat, NEW E, 0 \notin E, NEW p, \A s \in 1 .. n : p[s] \in 0 .. s - 1
    PROVE  Walks(n, E, p, Walk(n, E, p))
BY WalkExists DEF Walk

LEMMA CollectionUnfolds ==
    ASSUME NEW n \in Nat, NEW t, \A s \in 1 .. n : t[s] \in 0 .. s - 1
    PROVE  Collects(n, t, Collection(n, t))
BY CollectionExists DEF Collection

(* s collects itself and smaller ones.                                     *)
LEMMA CollectsInside ==
    ASSUME NEW n \in Nat, NEW t, NEW g, \A s \in 1 .. n : t[s] \in 0 .. s - 1,
           Collects(n, t, g)
    PROVE  /\ g[0] = {}
           /\ \A s \in 1 .. n : g[s] = {s} \cup g[t[s]]
           /\ \A s \in 0 .. n : g[s] \subseteq 1 .. s
<1>1. \A s \in 0 .. n : g[s] = IF s = 0 THEN {} ELSE {s} \cup g[t[s]]
  BY DEF Collects
<1>2. g[0] = {} /\ \A s \in 1 .. n : g[s] = {s} \cup g[t[s]]
  <2>1. 0 \in 0 .. n
    OBVIOUS
  <2>2. \A s \in 1 .. n : s \in 0 .. n /\ s # 0
    OBVIOUS
  <2> QED
    BY <1>1, <2>1, <2>2
<1> DEFINE T == {s \in 0 .. n : ~(g[s] \subseteq 1 .. s)}
<1>3. T = {}
  <2> SUFFICES ASSUME T # {} PROVE FALSE
    OBVIOUS
  <2>1. T \in SUBSET Nat
    OBVIOUS
  <2>2. PICK m \in T : \A k \in T : m <= k
    <3> HIDE DEF T
    <3> QED
      BY <2>1, Least
  <2>3. m \in 1 .. n
    BY <1>2
  <2>4. t[m] \in 0 .. m - 1
    BY <2>3
  <2>5. g[t[m]] \subseteq 1 .. t[m]
    BY <2>2, <2>3, <2>4
  <2>6. g[m] \subseteq 1 .. m
    BY <1>2, <2>3, <2>4, <2>5
  <2> QED
    BY <2>6
<1> QED
  BY <1>2, <1>3

(* What x in the collection of s collects is the part of it up to x.       *)
LEMMA CollectsChain ==
    ASSUME NEW n \in Nat, NEW t, NEW g, \A s \in 1 .. n : t[s] \in 0 .. s - 1,
           Collects(n, t, g)
    PROVE  \A s \in 0 .. n : \A x \in g[s] : g[x] = {y \in g[s] : y <= x}
<1>1. /\ g[0] = {}
      /\ \A s \in 1 .. n : g[s] = {s} \cup g[t[s]]
      /\ \A s \in 0 .. n : g[s] \subseteq 1 .. s
  BY CollectsInside
<1> DEFINE T == {s \in 0 .. n : \E x \in g[s] : g[x] # {y \in g[s] : y <= x}}
<1> SUFFICES ASSUME T # {} PROVE FALSE
  OBVIOUS
<1>2. T \in SUBSET Nat
  OBVIOUS
<1>3. PICK m \in T : \A k \in T : m <= k
  <2> HIDE DEF T
  <2> QED
    BY <1>2, Least
<1>4. m \in 1 .. n
  BY <1>1
<1>5. PICK x \in g[m] : g[x] # {y \in g[m] : y <= x}
  OBVIOUS
<1>6. t[m] \in 0 .. m - 1 /\ t[m] \in 0 .. n
  BY <1>4
<1>7. g[m] = {m} \cup g[t[m]] /\ g[m] \subseteq 1 .. m /\ g[t[m]] \subseteq 1 .. t[m]
  BY <1>1, <1>4, <1>6
<1>8. CASE x = m
  BY <1>5, <1>7, <1>8
<1>9. CASE x # m
  <2>1. x \in g[t[m]]
    BY <1>7, <1>9
  <2>2. t[m] \notin T
    BY <1>3, <1>4, <1>6
  <2>3. g[x] = {y \in g[t[m]] : y <= x}
    BY <1>6, <2>1, <2>2
  <2>4. x \in 1 .. t[m] /\ x < m
    BY <1>4, <1>6, <1>7, <2>1
  <2>5. {y \in g[m] : y <= x} = {y \in g[t[m]] : y <= x}
    BY <1>4, <1>7, <2>4
  <2> QED
    BY <1>5, <2>3, <2>5
<1> QED
  BY <1>8, <1>9

(* u, which leads back from 1 .. k and is collected by h, extends t, which  *)
(* leads back from 1 .. n and is collected by g.                           *)
Extended(n, t, g, k, u, h) ==
    /\ n \in Nat /\ k \in Nat /\ n <= k
    /\ \A s \in 1 .. n : t[s] \in 0 .. s - 1 /\ u[s] = t[s]
    /\ \A s \in 1 .. k : u[s] \in 0 .. s - 1
    /\ Collects(n, t, g) /\ Collects(k, u, h)

(* What is added to t later makes no difference.                           *)
LEMMA CollectsAsBefore ==
    ASSUME NEW n, NEW t, NEW g, NEW k, NEW u, NEW h, Extended(n, t, g, k, u, h)
    PROVE  \A s \in 0 .. n : h[s] = g[s]
<1>0. /\ n \in Nat /\ k \in Nat /\ n <= k
      /\ \A s \in 1 .. n : t[s] \in 0 .. s - 1 /\ u[s] = t[s]
      /\ \A s \in 1 .. k : u[s] \in 0 .. s - 1
      /\ Collects(n, t, g) /\ Collects(k, u, h)
  BY DEF Extended
<1>1. g[0] = {} /\ \A s \in 1 .. n : g[s] = {s} \cup g[t[s]]
  BY <1>0, CollectsInside
<1>2. h[0] = {} /\ \A s \in 1 .. k : h[s] = {s} \cup h[u[s]]
  BY <1>0, CollectsInside
<1> DEFINE T == {s \in 0 .. n : h[s] # g[s]}
<1> SUFFICES ASSUME T # {} PROVE FALSE
  OBVIOUS
<1>3. T \in SUBSET Nat
  BY <1>0
<1>4. PICK m \in T : \A j \in T : m <= j
  <2> HIDE DEF T
  <2> QED
    BY <1>3, Least
<1>5. m \in 1 .. n /\ m \in 1 .. k
  <2>1. m \in 0 .. n /\ h[m] # g[m]
    BY <1>4
  <2>2. m # 0
    BY <1>1, <1>2, <2>1
  <2> QED
    BY <1>0, <2>1, <2>2
<1>6. t[m] \in 0 .. m - 1 /\ u[m] = t[m]
  BY <1>0, <1>5
<1>7. h[t[m]] = g[t[m]]
  BY <1>0, <1>4, <1>5, <1>6
<1> QED
  BY ZenonT(30), <1>1, <1>2, <1>5, <1>6, <1>7

(* p leads from each s in E to one that its t[s] collects, or to 0, and    *)
(* past none but those in E.                                               *)
LeadsInside(n, t, g, E, p) ==
    \A s \in 1 .. n : s \in E => /\ p[s] \in {0} \cup g[t[s]]
                               /\ \A x \in g[t[s]] : x > p[s] => x \in E

(* Then the walk ends at the innermost outside E.                          *)
LEMMA WalkIsInnermost ==
    ASSUME NEW n \in Nat, NEW t, NEW g, \A s \in 1 .. n : t[s] \in 0 .. s - 1,
           Collects(n, t, g),
           NEW E, 0 \notin E, NEW p, \A s \in 1 .. n : p[s] \in 0 .. s - 1,
           NEW f, Walks(n, E, p, f),
           LeadsInside(n, t, g, E, p)
    PROVE  \A s \in 0 .. n : /\ f[s] \in {0} \cup (g[s] \ E)
                            /\ \A x \in g[s] \ E : x <= f[s]
<1>1. /\ g[0] = {}
      /\ \A s \in 1 .. n : g[s] = {s} \cup g[t[s]]
      /\ \A s \in 0 .. n : g[s] \subseteq 1 .. s
  BY CollectsInside
<1>2. \A s \in 0 .. n : f[s] = IF s \in E THEN f[p[s]] ELSE s
  BY DEF Walks
<1> DEFINE Good(s) == /\ f[s] \in {0} \cup (g[s] \ E)
                      /\ \A x \in g[s] \ E : x <= f[s]
           T == {s \in 0 .. n : ~Good(s)}
<1> SUFFICES ASSUME T # {} PROVE FALSE
  OBVIOUS
<1>3. T \in SUBSET Nat
  OBVIOUS
<1>4. PICK m \in T : \A j \in T : m <= j
  <2> HIDE DEF T
  <2> QED
    BY <1>3, Least
<1>5. m \in 0 .. n /\ ~Good(m)
  OBVIOUS
<1>6. m \in E
  <2> SUFFICES ASSUME m \notin E PROVE FALSE
    OBVIOUS
  <2>1. f[m] = m
    BY <1>2, <1>5
  <2>2. g[m] \subseteq 1 .. m /\ (m # 0 => m \in g[m])
    BY <1>1, <1>5
  <2> QED
    BY <1>5, <2>1, <2>2
<1>7. m \in 1 .. n
  BY <1>5, <1>6
<1>7a. p[m] \in {0} \cup g[t[m]] /\ \A x \in g[t[m]] : x > p[m] => x \in E
  BY <1>6, <1>7 DEF LeadsInside
<1>8. p[m] \in 0 .. m - 1 /\ p[m] \in 0 .. n /\ t[m] \in 0 .. n /\ f[m] = f[p[m]]
  BY <1>2, <1>6, <1>7
<1>9. Good(p[m])
  <2>1. p[m] \notin T
    BY <1>4, <1>7, <1>8
  <2> QED
    BY <1>8, <2>1
<1>10. g[p[m]] = {y \in g[t[m]] : y <= p[m]}
  <2>1. CASE p[m] = 0
    BY <1>1, <1>8, <2>1
  <2>2. CASE p[m] # 0
    <3>1. p[m] \in g[t[m]]
      BY <1>7a, <2>2
    <3> QED
      BY CollectsChain, <1>8, <3>1
  <2> QED
    BY <2>1, <2>2
<1>11. f[m] \in {0} \cup (g[m] \ E)
  BY <1>1, <1>7, <1>8, <1>9, <1>10
<1>12. \A x \in g[m] \ E : x <= f[m]
  <2> SUFFICES ASSUME NEW x \in g[m], x \notin E PROVE x <= f[m]
    OBVIOUS
  <2>1. x \in g[t[m]]
    BY <1>1, <1>6, <1>7
  <2>2. x \in Nat
    BY <1>1, <1>7
  <2>3. x <= p[m]
    BY <1>7, <1>7a, <1>8, <2>1, <2>2
  <2> QED
    BY <1>8, <1>9, <1>10, <2>1, <2>3
<1> QED
  BY <1>5, <1>11, <1>12

-----------------------------------------------------------------------------
(* The inductive invariant.                                                *)

Parents == [s \in Opened |-> scopes[s].parent]
Stores == [s \in Opened |-> scopes[s].store]

(* Around(store) for every store.                                          *)
Arounds == Collection(Len(scopes), Stores)

(* Whoever listens to a signal is told when it aborts.                     *)
ListenersWait == \A s \in listening : scopes[s].signal \notin aborted

(* CurrentIsInnermost is not inductive: it says nothing of what an attempt *)
(* that still runs remembers.  That scope is one around it, or none, and   *)
(* all that are between have ended, which they stay.                       *)
ParentsAreInner ==
    \A s \in Attempts :
        /\ scopes[s].parent \in {0} \cup Arounds[scopes[s].store]
        /\ \A x \in Arounds[scopes[s].store] : x > scopes[s].parent => x \in Ended

Inv == TypeOK /\ EndedAreLetGo /\ ListenersWait /\ ParentsAreInner

-----------------------------------------------------------------------------
(* CurrentScope and Around are such functions of the scopes.               *)

(* A scope has the types of its fields.                                    *)
LEMMA TypesOfScopes ==
    ASSUME TypeOK
    PROVE  /\ Len(scopes) \in Nat
           /\ scopes = [s \in Opened |-> scopes[s]]
           /\ \A s \in Opened : /\ scopes[s] \in [kind : {"run", "attempt"}, parent : Nat, store : Nat,
                                                   signal : Signals, ended : BOOLEAN, past : SUBSET Nat]
                              /\ scopes[s].kind \in {"run", "attempt"}
                              /\ scopes[s].parent \in Nat
                              /\ scopes[s].store \in Nat
                              /\ scopes[s].signal \in Signals
                              /\ scopes[s].ended \in BOOLEAN
                              /\ scopes[s].past \in SUBSET Nat
<1> DEFINE Type == [kind : {"run", "attempt"}, parent : Nat, store : Nat,
                    signal : Signals, ended : BOOLEAN, past : SUBSET Nat]
<1>1. scopes \in Seq(Type)
  BY DEF TypeOK
<1>2. \A r \in Type : /\ r.kind \in {"run", "attempt"}
                      /\ r.parent \in Nat /\ r.store \in Nat /\ r.signal \in Signals
                      /\ r.ended \in BOOLEAN /\ r.past \in SUBSET Nat
  OBVIOUS
<1> HIDE DEF Type
<1>3. /\ Len(scopes) \in Nat
      /\ scopes = [s \in Opened |-> scopes[s]]
      /\ \A s \in Opened : scopes[s] \in Type
  BY <1>1, LenProperties, ElementOfSeq DEF Opened
<1> QED
  BY <1>2, <1>3 DEF Type

(* The parents and the stores lead to older scopes.                        *)
LEMMA BothLeadBack ==
    ASSUME TypeOK
    PROVE  /\ Len(scopes) \in Nat
           /\ 0 \notin Ended
           /\ \A s \in 1 .. Len(scopes) : Parents[s] \in 0 .. s - 1
           /\ \A s \in 1 .. Len(scopes) : Stores[s] \in 0 .. s - 1
<1>1. Len(scopes) \in Nat
  BY DEF TypeOK
<1>2. 0 \notin Ended
  BY <1>1 DEF Ended, Opened
<1>3. \A s \in 1 .. Len(scopes) : scopes[s].parent \in 0 .. s - 1 /\ scopes[s].store \in 0 .. s - 1
  <2> SUFFICES ASSUME NEW s \in 1 .. Len(scopes)
               PROVE  scopes[s].parent \in 0 .. s - 1 /\ scopes[s].store \in 0 .. s - 1
    OBVIOUS
  <2>1. scopes[s].parent \in Nat /\ scopes[s].store \in Nat
    BY TypesOfScopes DEF Opened
  <2>2. scopes[s].parent < s /\ scopes[s].store < s
    BY DEF TypeOK, Opened
  <2> QED
    BY <2>1, <2>2
<1> QED
  BY <1>1, <1>2, <1>3 DEF Parents, Stores, Opened

LEMMA CurrentScopeWalks ==
    ASSUME TypeOK
    PROVE  \E f : /\ Walks(Len(scopes), Ended, Parents, f)
                  /\ \A s \in Contexts : CurrentScope(s) = f[s]
<1>0. \A s \in Ended : Parents[s] = scopes[s].parent
  BY DEF Parents, Ended
<1>1. PICK f : Walks(Len(scopes), Ended, Parents, f)
  BY BothLeadBack, WalkExists
<1>2. f = [s \in Contexts |-> IF s \in Ended THEN f[scopes[s].parent] ELSE s]
  BY <1>0, <1>1 DEF Walks, Contexts
<1> DEFINE walk == CHOOSE w : w = [s \in Contexts |-> IF s \in Ended THEN w[scopes[s].parent] ELSE s]
<1>3. walk = [s \in Contexts |-> IF s \in Ended THEN walk[scopes[s].parent] ELSE s]
  BY <1>2
<1>4. \A s \in Contexts : CurrentScope(s) = walk[s]
  BY DEF CurrentScope
<1>5. Walks(Len(scopes), Ended, Parents, walk)
  <2> HIDE DEF walk
  <2> QED
    BY <1>0, <1>3 DEF Walks, Contexts
<1> QED
  BY <1>4, <1>5

LEMMA AroundCollects ==
    ASSUME TypeOK
    PROVE  /\ Collects(Len(scopes), Stores, Arounds)
           /\ \A s \in Contexts : Around(s) = Arounds[s]
<1>0. \A s \in Contexts \ {0} : Stores[s] = scopes[s].store
  BY BothLeadBack DEF Stores, Contexts, Opened
<1>1. Collects(Len(scopes), Stores, Arounds)
  BY BothLeadBack, CollectionUnfolds DEF Arounds
<1>2. Arounds = [s \in Contexts |-> IF s = 0 THEN {} ELSE {s} \cup Arounds[scopes[s].store]]
  BY <1>0, <1>1 DEF Collects, Contexts
<1> DEFINE up == CHOOSE u : u = [s \in Contexts |-> IF s = 0 THEN {} ELSE {s} \cup u[scopes[s].store]]
<1>3. up = [s \in Contexts |-> IF s = 0 THEN {} ELSE {s} \cup up[scopes[s].store]]
  BY <1>2
<1>4. \A s \in Contexts : Around(s) = up[s]
  BY DEF Around
<1> HIDE DEF up
<1>5. Collects(Len(scopes), Stores, up)
  BY <1>0, <1>3 DEF Collects, Contexts
<1>6. \A s \in 0 .. Len(scopes) : up[s] = Arounds[s]
  <2>1. /\ Len(scopes) \in Nat
        /\ \A s \in 1 .. Len(scopes) : Stores[s] \in 0 .. s - 1
    BY BothLeadBack
  <2>2. Extended(Len(scopes), Stores, Arounds, Len(scopes), Stores, up)
    BY <1>1, <1>5, <2>1 DEF Extended
  <2> QED
    BY <2>2, CollectsAsBefore
<1> QED
  BY <1>1, <1>4, <1>6 DEF Contexts

-----------------------------------------------------------------------------
(* What the invariant says of the code that runs now.                      *)

LEMMA CurrentIsInner ==
    ASSUME Inv
    PROVE  \A s \in Contexts : /\ CurrentScope(s) \in {0} \cup (Arounds[s] \ Ended)
                              /\ \A x \in Arounds[s] \ Ended : x <= CurrentScope(s)
                              /\ Arounds[s] \subseteq 1 .. s
<1> USE DEF Inv
<1>1. PICK f : /\ Walks(Len(scopes), Ended, Parents, f)
               /\ \A s \in Contexts : CurrentScope(s) = f[s]
  BY CurrentScopeWalks
<1>2. Collects(Len(scopes), Stores, Arounds)
  BY AroundCollects
<1>3. LeadsInside(Len(scopes), Stores, Arounds, Ended, Parents)
  <2> SUFFICES ASSUME NEW s \in Ended
               PROVE  /\ Parents[s] \in {0} \cup Arounds[Stores[s]]
                      /\ \A x \in Arounds[Stores[s]] : x > Parents[s] => x \in Ended
    BY DEF LeadsInside
  <2>1. s \in Opened /\ scopes[s].ended
    BY DEF Ended
  <2>2. scopes[s].kind # "run"
    BY <2>1 DEF TypeOK
  <2>3. s \in Attempts
    BY <2>1, <2>2, TypesOfScopes DEF Attempts
  <2>4. Parents[s] = scopes[s].parent /\ Stores[s] = scopes[s].store
    BY <2>1 DEF Parents, Stores
  <2> QED
    BY <2>3, <2>4 DEF ParentsAreInner
<1>4. \A s \in 0 .. Len(scopes) : /\ f[s] \in {0} \cup (Arounds[s] \ Ended)
                                 /\ \A x \in Arounds[s] \ Ended : x <= f[s]
  <2>1. /\ Len(scopes) \in Nat
        /\ 0 \notin Ended
        /\ \A s \in 1 .. Len(scopes) : Parents[s] \in 0 .. s - 1
        /\ \A s \in 1 .. Len(scopes) : Stores[s] \in 0 .. s - 1
    BY BothLeadBack
  <2>2. Walks(Len(scopes), Ended, Parents, f)
    BY <1>1
  <2> QED
    BY <1>2, <1>3, <2>1, <2>2, WalkIsInnermost
<1>5. \A s \in 0 .. Len(scopes) : Arounds[s] \subseteq 1 .. s
  BY <1>2, BothLeadBack, CollectsInside
<1> QED
  BY <1>1, <1>4, <1>5 DEF Contexts

LEMMA InvImpliesInnermost ==
    ASSUME Inv
    PROVE  CurrentIsInnermost
<1> SUFFICES ASSUME NEW store \in Contexts
             PROVE  CurrentScope(store) = Max({0} \cup (Around(store) \ Ended))
  BY DEF CurrentIsInnermost
<1>1. Around(store) = Arounds[store]
  BY AroundCollects DEF Inv
<1> DEFINE S == {0} \cup (Around(store) \ Ended)
           c == CurrentScope(store)
<1>2. c \in S /\ \A x \in S : x \in Nat
  BY <1>1, CurrentIsInner, TypesOfScopes DEF Contexts, Inv
<1>3. \A x \in S : c >= x
  BY <1>1, <1>2, CurrentIsInner
<1> HIDE DEF S, c
<1>4. Max(S) \in S /\ \A x \in S : Max(S) >= x
  BY <1>2, <1>3 DEF Max
<1>5. Max(S) = c
  BY <1>2, <1>3, <1>4
<1> QED
  BY <1>5 DEF S, c

LEMMA InvImpliesNoneAborted ==
    ASSUME Inv
    PROVE  NoAbortedAttempt
<1> SUFFICES ASSUME NEW store \in Contexts, CurrentScope(store) \in Attempts
             PROVE  scopes[CurrentScope(store)].signal \notin aborted
  BY DEF NoAbortedAttempt
<1>1. CurrentScope(store) # 0
  BY TypesOfScopes DEF Attempts, Opened, Inv
<1>2. CurrentScope(store) \notin Ended
  BY <1>1, CurrentIsInner
<1>3. CurrentScope(store) \in listening
  BY <1>2 DEF Inv, EndedAreLetGo
<1> QED
  BY <1>3 DEF Inv, ListenersWait

-----------------------------------------------------------------------------
(* Steps.                                                                  *)

(* A scope opens.                                                          *)
LEMMA Opens ==
    ASSUME Inv,
           NEW kind \in {"run", "attempt"}, NEW store \in Contexts, NEW parent,
           NEW signal \in Signals, NEW ended \in BOOLEAN,
           parent = IF kind = "run" THEN 0 ELSE CurrentScope(store),
           ended <=> kind = "attempt" /\ signal \in aborted,
           scopes' = Append(scopes, Scope(kind, store, parent, signal, ended)),
           listening' = IF kind = "run" \/ ended THEN listening
                                                 ELSE listening \cup {Len(scopes) + 1},
           aborted' = aborted
    PROVE  Inv'
<1> DEFINE n == Len(scopes)
           Type == [kind : {"run", "attempt"}, parent : Nat, store : Nat,
                    signal : Signals, ended : BOOLEAN, past : SUBSET Nat]
           new == Scope(kind, store, parent, signal, ended)
<1>1. n \in Nat /\ scopes \in Seq(Type) /\ Contexts = 0 .. n /\ Opened = 1 .. n
  BY TypesOfScopes DEF Inv, TypeOK, Contexts, Opened
<1>2. Ended \subseteq 1 .. n
  BY <1>1 DEF Ended
<1>3. parent \in 0 .. store /\ parent \in {0} \cup (Arounds[store] \ Ended)
  BY <1>1, CurrentIsInner
<1>4. /\ new \in Type
      /\ new.kind = kind /\ new.parent = parent /\ new.store = store
      /\ new.signal = signal /\ new.ended = ended /\ new.past = Ended
  BY <1>1, <1>2, <1>3 DEF Scope
<1> HIDE DEF new, Type
<1>5. /\ scopes' \in Seq(Type) /\ Len(scopes') = n + 1
      /\ \A s \in 1 .. n : scopes'[s] = scopes[s]
      /\ scopes'[n + 1] = new
  BY <1>1, <1>4, AppendProperties DEF new
<1>6. Opened' = 1 .. n + 1 /\ n + 1 \notin Opened /\ Opened' = Opened \cup {n + 1}
  BY <1>1, <1>5 DEF Opened
<1>7. Ended' = IF ended THEN Ended \cup {n + 1} ELSE Ended
  <2>1. Ended' = {s \in Opened' : scopes'[s].ended}
    BY DEF Ended
  <2> QED
    BY <1>1, <1>4, <1>5, <1>6, <2>1 DEF Ended
<1>8. Attempts' = IF kind = "attempt" THEN Attempts \cup {n + 1} ELSE Attempts
  <2>1. Attempts' = {s \in Opened' : scopes'[s].kind = "attempt"}
    BY DEF Attempts
  <2> QED
    BY <1>1, <1>4, <1>5, <1>6, <2>1 DEF Attempts
<1>9. TypeOK'
  <2>1. \A s \in Opened' :
            /\ scopes'[s].parent < s /\ scopes'[s].store < s
            /\ scopes'[s].past \subseteq 1 .. s - 1
            /\ scopes'[s].kind = "run" => ~scopes'[s].ended /\ scopes'[s].parent = 0
    <3> SUFFICES ASSUME NEW s \in Opened'
                 PROVE  /\ scopes'[s].parent < s /\ scopes'[s].store < s
                        /\ scopes'[s].past \subseteq 1 .. s - 1
                        /\ scopes'[s].kind = "run" => ~scopes'[s].ended /\ scopes'[s].parent = 0
      OBVIOUS
    <3>1. CASE s \in Opened
      <4>1. scopes'[s] = scopes[s]
        BY <1>1, <1>5, <3>1
      <4> QED
        BY <3>1, <4>1 DEF Inv, TypeOK
    <3>2. CASE s = n + 1
      <4>1. parent < n + 1 /\ store < n + 1 /\ 1 .. s - 1 = 1 .. n
        BY <1>1, <1>3, <3>2
      <4> QED
        BY <1>2, <1>4, <1>5, <3>2, <4>1
    <3> QED
      BY <1>6, <3>1, <3>2
  <2>2. listening' \subseteq Opened'
    BY <1>6 DEF Inv, TypeOK
  <2>3. scopes' \in Seq(Type) /\ aborted' \subseteq Signals
    BY <1>5 DEF Inv, TypeOK
  <2> QED
    BY <2>1, <2>2, <2>3 DEF TypeOK, Type
<1>10. EndedAreLetGo'
  <2>1. listening' = Attempts' \ Ended'
    <3>1. n + 1 \notin Ended /\ n + 1 \notin Attempts
      BY <1>6 DEF Ended, Attempts
    <3>2. listening = Attempts \ Ended
      BY DEF Inv, EndedAreLetGo
    <3> QED
      BY <1>7, <1>8, <3>1, <3>2
  <2>2. \A s \in Opened' : scopes'[s].parent \notin scopes'[s].past
    <3> SUFFICES ASSUME NEW s \in Opened' PROVE scopes'[s].parent \notin scopes'[s].past
      OBVIOUS
    <3>1. CASE s \in Opened
      <4>1. scopes'[s] = scopes[s]
        BY <1>1, <1>5, <3>1
      <4> QED
        BY <3>1, <4>1 DEF Inv, EndedAreLetGo
    <3>2. CASE s = n + 1
      BY <1>2, <1>3, <1>4, <1>5, <3>2
    <3> QED
      BY <1>6, <3>1, <3>2
  <2> QED
    BY <2>1, <2>2 DEF EndedAreLetGo
<1>11. ListenersWait'
  <2> SUFFICES ASSUME NEW s \in listening' PROVE scopes'[s].signal \notin aborted'
    BY DEF ListenersWait
  <2>1. CASE s \in listening
    <3>1. s \in Opened /\ scopes'[s] = scopes[s]
      BY <1>1, <1>5, <2>1 DEF Inv, TypeOK
    <3> QED
      BY <2>1, <3>1 DEF Inv, ListenersWait
  <2>2. CASE s \notin listening
    <3>1. s = n + 1 /\ kind = "attempt" /\ ~ended
      BY <2>2
    <3> QED
      BY <1>4, <1>5, <3>1
  <2> QED
    BY <2>1, <2>2
<1>12. ParentsAreInner'
  <2>1. /\ \A s \in 1 .. n : Stores[s] \in 0 .. s - 1
        /\ Collects(n, Stores, Arounds)
    BY BothLeadBack, AroundCollects DEF Inv
  <2>2. \A s \in 1 .. n : Stores'[s] = Stores[s]
    BY <1>1, <1>5, <1>6 DEF Stores
  <2>3. \A s \in 1 .. n + 1 : Stores'[s] \in 0 .. s - 1
    <3>1. Stores'[n + 1] = store
      BY <1>1, <1>4, <1>5, <1>6 DEF Stores
    <3> QED
      BY <1>1, <2>1, <2>2, <3>1
  <2>4. Collects(n + 1, Stores', Arounds')
    <3>1. n + 1 \in Nat /\ Arounds' = Collection(n + 1, Stores')
      BY <1>1, <1>5 DEF Arounds
    <3> QED
      BY <2>3, <3>1, CollectionUnfolds
  <2>5. \A s \in 0 .. n : Arounds'[s] = Arounds[s]
    <3> DEFINE k == n + 1
    <3>1. /\ n \in Nat /\ k \in Nat /\ n <= k
          /\ \A s \in 1 .. n : Stores[s] \in 0 .. s - 1
      BY <1>1, <2>1
    <3>2. Extended(n, Stores, Arounds, k, Stores', Arounds')
      <4>1. \A s \in 1 .. k : Stores'[s] \in 0 .. s - 1
        BY <2>3
      <4>2. Collects(k, Stores', Arounds')
        BY <2>4
      <4> HIDE DEF n, k
      <4> QED
        BY <2>1, <2>2, <3>1, <4>1, <4>2 DEF Extended
    <3> HIDE DEF n, k
    <3> QED
      BY <3>2, CollectsAsBefore
  <2> SUFFICES ASSUME NEW s \in Attempts'
               PROVE  /\ scopes'[s].parent \in {0} \cup Arounds'[scopes'[s].store]
                      /\ \A x \in Arounds'[scopes'[s].store] : x > scopes'[s].parent => x \in Ended'
    BY DEF ParentsAreInner
  <2>6. CASE s \in Attempts
    <3>1. s \in 1 .. n /\ scopes'[s] = scopes[s]
      BY <1>1, <1>5, <2>6 DEF Attempts
    <3>2. scopes[s].store \in 0 .. n
      <4>1. Stores[s] = scopes[s].store
        BY <1>1, <3>1 DEF Stores
      <4> QED
        BY <1>1, <2>1, <3>1, <4>1
    <3>3. Arounds'[scopes'[s].store] = Arounds[scopes[s].store]
      BY <2>5, <3>1, <3>2
    <3> QED
      BY <1>7, <2>6, <3>1, <3>3 DEF Inv, ParentsAreInner
  <2>7. CASE s \notin Attempts
    <3>1. s = n + 1 /\ kind = "attempt"
      BY <1>8, <2>7
    <3>2. scopes'[s].parent = CurrentScope(store) /\ scopes'[s].store = store
      BY <1>4, <1>5, <3>1
    <3>3. Arounds'[store] = Arounds[store]
      BY <1>1, <2>5
    <3>4. CurrentScope(store) \in {0} \cup Arounds[store]
      BY CurrentIsInner
    <3>5. \A x \in Arounds[store] : x > CurrentScope(store) => x \in Ended
      <4> SUFFICES ASSUME NEW x \in Arounds[store], x > CurrentScope(store), x \notin Ended
                   PROVE  FALSE
        OBVIOUS
      <4>1. x <= CurrentScope(store) /\ Arounds[store] \subseteq 1 .. store
        BY CurrentIsInner
      <4>2. x \in Nat /\ CurrentScope(store) \in Nat
        BY <1>1, <3>4, <4>1
      <4> QED
        BY <4>1, <4>2
    <3> QED
      BY <1>7, <3>2, <3>3, <3>4, <3>5
  <2> QED
    BY <2>6, <2>7
<1> QED
  BY <1>9, <1>10, <1>11, <1>12 DEF Inv

(* Attempts end: nothing changes but that they have.                       *)
LEMMA Ends ==
    ASSUME Inv, NEW S \in SUBSET Attempts, EndAll(S), aborted' \in SUBSET Signals
    PROVE  /\ TypeOK' /\ EndedAreLetGo' /\ ParentsAreInner'
           /\ listening' = listening \ S
           /\ \A s \in Opened : scopes'[s].signal = scopes[s].signal
<1> DEFINE n == Len(scopes)
           Type == [kind : {"run", "attempt"}, parent : Nat, store : Nat,
                    signal : Signals, ended : BOOLEAN, past : SUBSET Nat]
<1>1. n \in Nat /\ Opened = 1 .. n /\ S \subseteq Opened
  BY TypesOfScopes DEF Inv, Opened, Attempts
<1>2. \A s \in Opened : /\ scopes[s] \in Type /\ scopes[s].ended \in BOOLEAN
                       /\ scopes[s].kind \in {"run", "attempt"}
  BY TypesOfScopes DEF Inv
<1>3. \A s \in Opened : scopes'[s] = IF s \in S THEN [scopes[s] EXCEPT !.ended = TRUE] ELSE scopes[s]
  BY DEF EndAll
<1>4. \A s \in Opened : /\ scopes'[s] \in Type
                       /\ scopes'[s].kind = scopes[s].kind
                       /\ scopes'[s].parent = scopes[s].parent
                       /\ scopes'[s].store = scopes[s].store
                       /\ scopes'[s].signal = scopes[s].signal
                       /\ scopes'[s].past = scopes[s].past
                       /\ scopes'[s].ended = (scopes[s].ended \/ s \in S)
  <2> SUFFICES ASSUME NEW s \in Opened
               PROVE  /\ scopes'[s] \in Type
                      /\ scopes'[s].kind = scopes[s].kind
                      /\ scopes'[s].parent = scopes[s].parent
                      /\ scopes'[s].store = scopes[s].store
                      /\ scopes'[s].signal = scopes[s].signal
                      /\ scopes'[s].past = scopes[s].past
                      /\ scopes'[s].ended = (scopes[s].ended \/ s \in S)
    OBVIOUS
  <2>1. CASE s \in S
    BY ZenonT(30), <1>2, <1>3, <2>1
  <2>2. CASE s \notin S
    BY <1>2, <1>3, <2>2
  <2> QED
    BY <2>1, <2>2
<1>5. Len(scopes') = n /\ scopes' \in Seq(Type) /\ Opened' = Opened
  <2>1. scopes' = [s \in 1 .. n |-> scopes'[s]]
    BY <1>1 DEF EndAll
  <2> HIDE DEF n, Type
  <2>2. scopes' \in [1 .. n -> Type]
    BY <1>1, <1>4, <2>1
  <2>3. scopes' \in Seq(Type)
    BY <1>1, <2>2, SeqDef
  <2>4. Len(scopes') = n
    BY <1>1, <2>2, <2>3, LenProperties
  <2> QED
    BY <1>1, <2>3, <2>4 DEF Opened, n
<1>6. Ended' = Ended \cup S
  <2>1. Ended' = {s \in Opened : scopes'[s].ended}
    BY <1>5 DEF Ended
  <2> QED
    BY <1>1, <1>4, <2>1 DEF Ended
<1>7. Attempts' = Attempts
  <2>1. Attempts' = {s \in Opened : scopes'[s].kind = "attempt"}
    BY <1>5 DEF Attempts
  <2> QED
    BY <1>4, <2>1 DEF Attempts
<1>8. Stores' = Stores /\ Arounds' = Arounds
  <2>1. Stores' = [s \in Opened |-> scopes'[s].store]
    BY <1>5 DEF Stores
  <2>2. Stores' = Stores
    BY <1>4, <2>1 DEF Stores
  <2> QED
    BY <1>5, <2>2 DEF Arounds
<1>9. TypeOK'
  <2>1. \A s \in Opened :
            /\ scopes'[s].parent < s /\ scopes'[s].store < s
            /\ scopes'[s].past \subseteq 1 .. s - 1
    BY <1>4 DEF Inv, TypeOK
  <2>2. \A s \in Opened : scopes'[s].kind = "run" => ~scopes'[s].ended /\ scopes'[s].parent = 0
    <3> SUFFICES ASSUME NEW s \in Opened, scopes[s].kind = "run"
                 PROVE  ~scopes'[s].ended /\ scopes'[s].parent = 0
      BY <1>4
    <3>1. ~scopes[s].ended /\ scopes[s].parent = 0
      BY DEF Inv, TypeOK
    <3>2. s \notin S
      BY DEF Attempts
    <3> QED
      BY <1>4, <3>1, <3>2
  <2>3. listening' \subseteq Opened
    BY DEF EndAll, Inv, TypeOK
  <2> QED
    BY <1>5, <2>1, <2>2, <2>3 DEF TypeOK
<1>10. EndedAreLetGo'
  <2>1. listening' = Attempts' \ Ended'
    BY <1>6, <1>7 DEF Inv, EndedAreLetGo, EndAll
  <2>2. \A s \in Opened' : scopes'[s].parent \notin scopes'[s].past
    BY <1>4, <1>5 DEF Inv, EndedAreLetGo
  <2> QED
    BY <2>1, <2>2 DEF EndedAreLetGo
<1>11. ParentsAreInner'
  <2> SUFFICES ASSUME NEW s \in Attempts
               PROVE  /\ scopes'[s].parent \in {0} \cup Arounds'[scopes'[s].store]
                      /\ \A x \in Arounds'[scopes'[s].store] : x > scopes'[s].parent => x \in Ended'
    BY <1>7 DEF ParentsAreInner
  <2>1. scopes'[s].parent = scopes[s].parent /\ scopes'[s].store = scopes[s].store
    BY <1>4 DEF Attempts
  <2> QED
    BY <1>6, <1>8, <2>1 DEF Inv, ParentsAreInner
<1> QED
  BY <1>4, <1>9, <1>10, <1>11 DEF EndAll

LEMMA SettleKeeps ==
    ASSUME Inv, NEW s \in Opened, Settle(s)
    PROVE  Inv'
<1>1. {s} \in SUBSET Attempts /\ EndAll({s}) /\ aborted' = aborted
  BY DEF Settle, EndsWhenSettled
<1>2. aborted' \in SUBSET Signals
  BY <1>1 DEF Inv, TypeOK
<1>3. /\ TypeOK' /\ EndedAreLetGo' /\ ParentsAreInner'
      /\ listening' = listening \ {s}
      /\ \A r \in Opened : scopes'[r].signal = scopes[r].signal
  BY <1>1, <1>2, Ends
<1>4. ListenersWait'
  BY <1>1, <1>3 DEF Inv, TypeOK, ListenersWait
<1> QED
  BY <1>3, <1>4 DEF Inv

LEMMA AbortKeeps ==
    ASSUME Inv, NEW signal \in Signals, Abort(signal)
    PROVE  Inv'
<1> DEFINE S == {s \in listening : scopes[s].signal = signal}
<1>1. S \in SUBSET Attempts /\ EndAll(S) /\ aborted' = aborted \cup {signal}
  BY DEF Abort, Inv, EndedAreLetGo
<1>2. aborted' \in SUBSET Signals
  BY <1>1 DEF Inv, TypeOK
<1>3. /\ TypeOK' /\ EndedAreLetGo' /\ ParentsAreInner'
      /\ listening' = listening \ S
      /\ \A r \in Opened : scopes'[r].signal = scopes[r].signal
  <2> HIDE DEF S
  <2> QED
    BY <1>1, <1>2, Ends
<1>4. ListenersWait'
  BY <1>1, <1>3 DEF Inv, TypeOK, ListenersWait
<1> QED
  BY <1>3, <1>4 DEF Inv

-----------------------------------------------------------------------------
(* Every reachable state.                                                  *)

LEMMA InvInit ==
    ASSUME Init
    PROVE  Inv
<1>1. scopes = <<>> /\ listening = {} /\ aborted = {} /\ Opened = {}
  BY DEF Init, Opened
<1>2. TypeOK
  BY <1>1 DEF TypeOK
<1>3. EndedAreLetGo /\ ListenersWait
  BY <1>1 DEF EndedAreLetGo, ListenersWait, Attempts, Ended
<1>4. ParentsAreInner
  BY <1>1 DEF ParentsAreInner, Attempts
<1> QED
  BY <1>2, <1>3, <1>4 DEF Inv

LEMMA InvNext ==
    ASSUME Inv, [Next]_vars
    PROVE  Inv'
<1>1. ASSUME NEW store \in Contexts, NEW signal \in Signals, Run(store, signal)
      PROVE  Inv'
  <2>1. /\ scopes' = Append(scopes, Scope("run", store, 0, signal, FALSE))
        /\ listening' = listening /\ aborted' = aborted
    BY <1>1 DEF Run
  <2> QED
    BY <2>1, Opens
<1>2. ASSUME NEW store \in Contexts, NEW signal \in Signals, Attempt(store, signal)
      PROVE  Inv'
  <2> DEFINE ended == signal \in aborted
  <2>1. /\ scopes' = Append(scopes, Scope("attempt", store, CurrentScope(store), signal, ended))
        /\ listening' = IF ended THEN listening ELSE listening \cup {Len(scopes) + 1}
        /\ aborted' = aborted
    BY <1>2 DEF Attempt, ParentOf
  <2>2. ended \in BOOLEAN /\ (ended <=> signal \in aborted)
    OBVIOUS
  <2> HIDE DEF ended
  <2> QED
    BY <2>1, <2>2, Opens
<1>3. ASSUME NEW s \in Opened, Settle(s)
      PROVE  Inv'
  BY <1>3, SettleKeeps
<1>4. ASSUME NEW signal \in Signals, Abort(signal)
      PROVE  Inv'
  BY <1>4, AbortKeeps
<1>5. ASSUME UNCHANGED vars
      PROVE  Inv'
  <2>1. scopes' = scopes /\ listening' = listening /\ aborted' = aborted
    BY <1>5 DEF vars
  <2>2. Opened' = Opened
    BY <2>1 DEF Opened
  <2>3. Ended' = Ended /\ Attempts' = Attempts /\ Stores' = Stores
    BY <2>1, <2>2 DEF Ended, Attempts, Stores
  <2>4. Arounds' = Arounds
    BY <2>1, <2>3 DEF Arounds
  <2>5. TypeOK'
    BY <2>1, <2>2 DEF Inv, TypeOK
  <2>6. EndedAreLetGo' /\ ListenersWait'
    BY <2>1, <2>2, <2>3 DEF Inv, EndedAreLetGo, ListenersWait
  <2>7. ParentsAreInner'
    BY <2>1, <2>3, <2>4 DEF Inv, ParentsAreInner
  <2> QED
    BY <2>5, <2>6, <2>7 DEF Inv
<1> QED
  BY <1>1, <1>2, <1>3, <1>4, <1>5 DEF Next

THEOREM InvHolds == Spec => []Inv
<1>1. Init => Inv
  BY InvInit
<1>2. Inv /\ [Next]_vars => Inv'
  BY InvNext
<1> QED
  BY <1>1, <1>2, PTL DEF Spec

(* Types: a scope remembers older scopes only, and that of run() never     *)
(* ends.                                                                   *)
THEOREM TypesHold == Spec => []TypeOK
<1>1. Inv => TypeOK
  BY DEF Inv
<1> QED
  BY <1>1, InvHolds, PTL

(* currentScope() finds the innermost scope around the code that runs      *)
(* which hasn't ended, however many were opened, from whatever context,    *)
(* and in whatever order they ended: an attempt need not remember the raw  *)
(* store, as its comment claims.                                           *)
THEOREM FoundIsInnermost == Spec => []CurrentIsInnermost
<1>1. Inv => CurrentIsInnermost
  BY InvImpliesInnermost
<1> QED
  BY <1>1, InvHolds, PTL

(* Code never finds itself in an attempt whose signal has aborted.         *)
THEOREM NoneInheritsAnOldAbort == Spec => []NoAbortedAttempt
<1>1. Inv => NoAbortedAttempt
  BY InvImpliesNoneAborted
<1> QED
  BY <1>1, InvHolds, PTL

(* An attempt listens to its signal just until it ends, and no scope holds *)
(* one that had ended when it opened.                                      *)
THEOREM NothingEndedIsHeld == Spec => []EndedAreLetGo
<1>1. Inv => EndedAreLetGo
  BY DEF Inv
<1> QED
  BY <1>1, InvHolds, PTL
=============================================================================
