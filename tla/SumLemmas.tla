------------------------------- MODULE SumLemmas -------------------------------
(***************************************************************************)
(* Sums over finite sets, as FiniteSetsExt defines them: what the balances *)
(* of the ledger and the capacity of the ads are built from.               *)
(*                                                                         *)
(* MapThenSumSet is defined by recursion over the subsets of a set.  That  *)
(* such a recursive function exists, and that the order in which it takes  *)
(* the elements does not matter, is shown by induction on the cardinality: *)
(* if a statement fails for some subset, it fails for a smallest one.      *)
(***************************************************************************)
EXTENDS Integers, FiniteSets, FiniteSetsExt, FiniteSetTheorems, WellFoundedInduction, TLAPS

(* The sum of F[x] for x in S *)
SumOver(F, S) == MapThenSumSet(LAMBDA x : F[x], S)

First(s) == CHOOSE x \in s : TRUE
Body(F, g, s) == IF s = {} THEN 0 ELSE F[First(s)] + g[s \ {First(s)}]
IsSum(F, g, S) == \A s \in SUBSET S : g[s] = Body(F, g, s)

LEMMA FirstIn == \A s : s # {} => First(s) \in s
  BY DEF First

LEMMA SmallestNumber ==
  ASSUME NEW T, T \subseteq Nat, T # {}
  PROVE  \E n \in T : \A m \in T : n <= m
<1>1. PICK n \in T : \A m \in T : ~ (<<m, n>> \in OpToRel(<, Nat))
  BY NatLessThanWellFounded, WFMin
<1>2. \A m \in T : <<m, n>> \in OpToRel(<, Nat) <=> m < n
  BY DEF OpToRel
<1>3. \A m \in T : m \in Nat /\ ~(m < n)
  BY <1>1, <1>2
<1> QED BY <1>3

(* Among the subsets of a finite set that are in B, one has no smaller one.  *)
LEMMA SmallestSubset ==
  ASSUME NEW S, IsFiniteSet(S), NEW B, B \subseteq SUBSET S, B # {}
  PROVE  \E s \in B : \A t \in B : ~(t \subseteq s /\ t # s)
<1> DEFINE N == {Cardinality(s) : s \in B}
<1>1. \A s \in B : IsFiniteSet(s) /\ Cardinality(s) \in Nat
  BY FS_Subset, FS_CardinalityType
<1>2. N \subseteq Nat /\ N # {}
  BY <1>1
<1>3. PICK n \in N : \A m \in N : n <= m
  BY <1>2, SmallestNumber
<1>4. PICK s \in B : Cardinality(s) = n
  OBVIOUS
<1>5. ASSUME NEW t \in B, t \subseteq s, t # s PROVE FALSE
  <2>1. Cardinality(s) <= Cardinality(t)
    BY <1>3, <1>4
  <2>2. Cardinality(t) <= Cardinality(s)
    BY <1>1, <1>5, FS_Subset
  <2>3. Cardinality(t) = Cardinality(s)
    BY <1>1, <2>1, <2>2
  <2> QED BY <1>1, <1>5, <2>3, FS_Subset
<1> QED BY <1>5

(* There is a function that sums F over the subsets of S.                   *)
LEMMA SumExists ==
  ASSUME NEW F, NEW S, IsFiniteSet(S)
  PROVE  \E g : g = [s \in SUBSET S |-> Body(F, g, s)]
<1> DEFINE Small(n) == {s \in SUBSET S : Cardinality(s) < n}
           Upto(n) == \E g : DOMAIN g = SUBSET S /\ \A s \in Small(n) : g[s] = Body(F, g, s)
<1>1. \A s \in SUBSET S : IsFiniteSet(s) /\ Cardinality(s) \in Nat /\ Cardinality(s) <= Cardinality(S)
  BY FS_Subset, FS_CardinalityType
<1>2. Upto(0)
  <2>1. Small(0) = {}
    BY <1>1
  <2> DEFINE g == [s \in SUBSET S |-> 0]
  <2>2. DOMAIN g = SUBSET S
    OBVIOUS
  <2> QED BY <2>1, <2>2
<1>3. ASSUME NEW n \in Nat, Upto(n) PROVE Upto(n + 1)
  <2>1. PICK g : DOMAIN g = SUBSET S /\ \A s \in Small(n) : g[s] = Body(F, g, s)
    BY <1>3
  <2> DEFINE h == [s \in SUBSET S |-> IF s \in Small(n) THEN g[s] ELSE Body(F, g, s)]
  <2>2. ASSUME NEW s \in Small(n + 1) PROVE h[s] = Body(F, h, s)
    <3>1. h[s] = Body(F, g, s)
      BY <2>1, <2>2
    <3>2. CASE s = {}
      BY <3>1, <3>2 DEF Body
    <3>3. CASE s # {}
      <4>1. First(s) \in s /\ s \ {First(s)} \in SUBSET S
        BY <3>3, FirstIn
      <4>2. Cardinality(s \ {First(s)}) = Cardinality(s) - 1
        BY <1>1, <4>1, FS_RemoveElement
      <4>3. s \ {First(s)} \in Small(n)
        BY <1>1, <2>2, <4>1, <4>2
      <4>4. h[s \ {First(s)}] = g[s \ {First(s)}]
        BY <4>1, <4>3
      <4> QED BY <3>1, <3>3, <4>4 DEF Body
    <3> QED BY <3>2, <3>3
  <2>3. DOMAIN h = SUBSET S
    OBVIOUS
  <2> HIDE DEF h
  <2> QED BY <2>2, <2>3
<1> HIDE DEF Upto
<1>4. \A n \in Nat : Upto(n)
  <2> DEFINE T == {n \in Nat : ~Upto(n)}
  <2>1. ASSUME T # {} PROVE FALSE
    <3>1. PICK n \in T : \A m \in T : n <= m
      BY <2>1, SmallestNumber
    <3>2. n # 0
      BY <1>2
    <3>3. n - 1 \in Nat /\ n - 1 \notin T /\ (n - 1) + 1 = n
      BY <3>1, <3>2
    <3> QED BY <1>3, <3>1, <3>3
  <2> QED BY <2>1
<1>5. Cardinality(S) + 1 \in Nat
  BY FS_CardinalityType
<1>6. PICK g : DOMAIN g = SUBSET S /\ \A s \in Small(Cardinality(S) + 1) : g[s] = Body(F, g, s)
  BY <1>4, <1>5 DEF Upto
<1>7. \A s \in SUBSET S : s \in Small(Cardinality(S) + 1)
  BY <1>1, FS_CardinalityType
<1> DEFINE h == [s \in SUBSET S |-> g[s]]
<1>8. h = [s \in SUBSET S |-> Body(F, h, s)]
  <2>1. ASSUME NEW s \in SUBSET S PROVE h[s] = Body(F, h, s)
    <3>1. s \ {First(s)} \in SUBSET S
      OBVIOUS
    <3>2. h[s] = g[s] /\ h[s \ {First(s)}] = g[s \ {First(s)}]
      BY <3>1
    <3> QED BY <1>6, <1>7, <3>2 DEF Body
  <2>2. h = [s \in SUBSET S |-> h[s]]
    OBVIOUS
  <2> HIDE DEF h
  <2> QED BY <2>1, <2>2
<1> QED BY <1>8

LEMMA SumIsSum ==
  ASSUME NEW F, NEW S, IsFiniteSet(S)
  PROVE  \E g : IsSum(F, g, S) /\ SumOver(F, S) = g[S]
<1> DEFINE It == CHOOSE g : g = [s \in SUBSET S |-> Body(F, g, s)]
<1>1. It = [s \in SUBSET S |-> Body(F, It, s)]
  BY SumExists
<1>2. SumOver(F, S) = It[S]
  BY DEF SumOver, MapThenSumSet, MapThenFoldSet, Body, First
<1> HIDE DEF It
<1>3. IsSum(F, It, S)
  BY <1>1 DEF IsSum
<1> QED BY <1>2, <1>3

(* Sums of functions that agree on the set are equal; the set they are      *)
(* computed in does not matter.                                             *)
LEMMA SumsAgree ==
  ASSUME NEW F, NEW G, NEW S, NEW T, IsFiniteSet(S), T \subseteq S,
         NEW f, IsSum(F, f, S), NEW g, IsSum(G, g, T), \A x \in T : F[x] = G[x]
  PROVE  f[T] = g[T]
<1> DEFINE B == {s \in SUBSET T : f[s] # g[s]}
<1>1. ASSUME B # {} PROVE FALSE
  <2>1. IsFiniteSet(T)
    BY FS_Subset
  <2>2. PICK s \in B : \A t \in B : ~(t \subseteq s /\ t # s)
    <3>1. B \subseteq SUBSET T
      OBVIOUS
    <3> HIDE DEF B
    <3> QED BY <1>1, <2>1, <3>1, SmallestSubset
  <2>3. s # {}
    BY <2>2 DEF IsSum, Body
  <2>4. First(s) \in s /\ s \ {First(s)} \in SUBSET T
    BY <2>3, FirstIn
  <2>5. f[s \ {First(s)}] = g[s \ {First(s)}]
    BY <2>2, <2>4
  <2>6. f[s] = F[First(s)] + f[s \ {First(s)}] /\ g[s] = G[First(s)] + g[s \ {First(s)}]
    BY <2>3 DEF IsSum, Body
  <2> QED BY <2>2, <2>4, <2>5, <2>6
<1> QED BY <1>1

LEMMA SumCongruent ==
  ASSUME NEW F, NEW G, NEW S, IsFiniteSet(S), \A x \in S : F[x] = G[x]
  PROVE  SumOver(F, S) = SumOver(G, S)
<1>1. PICK f : IsSum(F, f, S) /\ SumOver(F, S) = f[S]
  BY SumIsSum
<1>2. PICK g : IsSum(G, g, S) /\ SumOver(G, S) = g[S]
  BY SumIsSum
<1> QED BY <1>1, <1>2, SumsAgree

LEMMA SumEmpty == \A F : SumOver(F, {}) = 0
<1> SUFFICES ASSUME NEW F PROVE SumOver(F, {}) = 0
  OBVIOUS
<1>1. PICK g : IsSum(F, g, {}) /\ SumOver(F, {}) = g[{}]
  BY FS_EmptySet, SumIsSum
<1> QED BY <1>1 DEF IsSum, Body

LEMMA SumFirst ==
  ASSUME NEW F, NEW S, IsFiniteSet(S), S # {}
  PROVE  SumOver(F, S) = F[First(S)] + SumOver(F, S \ {First(S)})
<1> DEFINE T == S \ {First(S)}
<1>1. PICK f : IsSum(F, f, S) /\ SumOver(F, S) = f[S]
  BY SumIsSum
<1>2. IsFiniteSet(T) /\ T \subseteq S
  BY FS_RemoveElement
<1>3. PICK g : IsSum(F, g, T) /\ SumOver(F, T) = g[T]
  BY <1>2, SumIsSum
<1>4. f[T] = g[T]
  BY <1>1, <1>2, <1>3, SumsAgree
<1>5. f[S] = F[First(S)] + f[T]
  BY <1>1 DEF IsSum, Body
<1> QED BY <1>1, <1>3, <1>4, <1>5

(* A sum of integers is one, and of naturals.                               *)
LEMMA SumType ==
  ASSUME NEW F, NEW S, IsFiniteSet(S), \A x \in S : F[x] \in Int
  PROVE  /\ SumOver(F, S) \in Int
         /\ (\A x \in S : F[x] \in Nat) => SumOver(F, S) \in Nat
<1> DEFINE B == {s \in SUBSET S : ~(/\ SumOver(F, s) \in Int
                                    /\ (\A x \in s : F[x] \in Nat) => SumOver(F, s) \in Nat)}
<1>1. ASSUME B # {} PROVE FALSE
  <2>1. PICK s \in B : \A t \in B : ~(t \subseteq s /\ t # s)
    <3>1. B \subseteq SUBSET S
      OBVIOUS
    <3> HIDE DEF B
    <3> QED BY <1>1, <3>1, SmallestSubset
  <2>2. s # {}
    <3>1. s = {} => SumOver(F, s) = 0
      BY SumEmpty
    <3> QED BY <2>1, <3>1
  <2>3. IsFiniteSet(s) /\ First(s) \in s /\ s \ {First(s)} \in SUBSET S
    BY <2>2, FirstIn, FS_Subset
  <2>4. /\ SumOver(F, s \ {First(s)}) \in Int
        /\ (\A x \in s \ {First(s)} : F[x] \in Nat) => SumOver(F, s \ {First(s)}) \in Nat
    BY <2>1, <2>3
  <2>5. SumOver(F, s) = F[First(s)] + SumOver(F, s \ {First(s)})
    BY <2>2, <2>3, SumFirst
  <2>6. F[First(s)] \in Int
    BY <2>3
  <2> QED BY <2>1, <2>3, <2>4, <2>5, <2>6
<1> QED BY <1>1

(* Any element may be taken out first.                                      *)
LEMMA SumTake ==
  ASSUME NEW F, NEW S, IsFiniteSet(S), \A x \in S : F[x] \in Int, NEW y \in S
  PROVE  SumOver(F, S) = F[y] + SumOver(F, S \ {y})
<1> DEFINE Fine(s) == \A x \in s : SumOver(F, s) = F[x] + SumOver(F, s \ {x})
           B == {s \in SUBSET S : ~Fine(s)}
<1>0. \A s \in SUBSET S : IsFiniteSet(s) /\ SumOver(F, s) \in Int
  BY FS_Subset, SumType
<1>1. ASSUME B # {} PROVE FALSE
  <2>1. PICK s \in B : \A t \in B : ~(t \subseteq s /\ t # s)
    <3>1. B \subseteq SUBSET S
      OBVIOUS
    <3> HIDE DEF B
    <3> QED BY <1>1, <3>1, SmallestSubset
  <2>2. PICK x \in s : SumOver(F, s) # F[x] + SumOver(F, s \ {x})
    OBVIOUS
  <2>3. PICK f : f = First(s)
    OBVIOUS
  <2>4. f \in s
    BY <2>2, <2>3, FirstIn
  <2>5. SumOver(F, s) = F[f] + SumOver(F, s \ {f})
    BY <1>0, <2>2, <2>3, SumFirst
  <2>6. x # f
    BY <2>2, <2>5
  <2>7. Fine(s \ {f}) /\ Fine(s \ {x})
    BY <2>1, <2>2, <2>4
  <2>8. SumOver(F, s \ {f}) = F[x] + SumOver(F, (s \ {f}) \ {x})
    BY <2>2, <2>6, <2>7
  <2>9. SumOver(F, s \ {x}) = F[f] + SumOver(F, (s \ {x}) \ {f})
    BY <2>4, <2>6, <2>7
  <2>10. PICK t \in SUBSET S : t = (s \ {f}) \ {x} /\ t = (s \ {x}) \ {f}
    OBVIOUS
  <2>11. SumOver(F, t) \in Int /\ F[f] \in Int /\ F[x] \in Int
    BY <1>0, <2>2, <2>4
  <2>12. SumOver(F, s) = F[f] + (F[x] + SumOver(F, t))
    BY <2>5, <2>8, <2>10
  <2>13. SumOver(F, s \ {x}) = F[f] + SumOver(F, t)
    BY <2>9, <2>10
  <2>14. F[f] + (F[x] + SumOver(F, t)) = F[x] + (F[f] + SumOver(F, t))
    BY <2>11
  <2> QED BY <2>2, <2>12, <2>13, <2>14
<1> QED BY <1>1

(* Nothing adds up to nothing. *)
LEMMA SumZero ==
  ASSUME NEW F, NEW S, IsFiniteSet(S), \A x \in S : F[x] = 0
  PROVE  SumOver(F, S) = 0
<1> DEFINE B == {s \in SUBSET S : SumOver(F, s) # 0}
<1>1. ASSUME B # {} PROVE FALSE
  <2>1. PICK s \in B : \A t \in B : ~(t \subseteq s /\ t # s)
    <3>1. B \subseteq SUBSET S
      OBVIOUS
    <3> HIDE DEF B
    <3> QED BY <1>1, <3>1, SmallestSubset
  <2>2. s # {} /\ IsFiniteSet(s)
    BY SumEmpty, FS_Subset
  <2>3. PICK f : f = First(s)
    OBVIOUS
  <2>4. SumOver(F, s) = F[f] + SumOver(F, s \ {f}) /\ f \in s
    BY <2>2, <2>3, SumFirst, FirstIn
  <2>5. SumOver(F, s \ {f}) = 0
    BY <2>1, <2>4
  <2> QED BY <2>1, <2>4, <2>5
<1> QED BY <1>1

(* A sum to which one element contributes at most *)
LEMMA SumSingle ==
  ASSUME NEW F, NEW S, IsFiniteSet(S), NEW y \in S, F[y] \in Int, \A x \in S \ {y} : F[x] = 0
  PROVE  SumOver(F, S) = F[y]
<1>1. IsFiniteSet(S \ {y})
  BY FS_RemoveElement
<1>2. SumOver(F, S \ {y}) = 0
  BY <1>1, SumZero
<1>3. SumOver(F, S) = F[y] + SumOver(F, S \ {y})
  BY SumTake
<1> QED BY <1>2, <1>3

(* The sum over two elements *)
LEMMA SumTwo ==
  ASSUME NEW F, NEW x, NEW y, x # y, F[x] \in Int, F[y] \in Int,
         NEW S, \A e : e \in S <=> e \in {x, y}
  PROVE  IsFiniteSet(S) /\ SumOver(F, S) = F[x] + F[y]
<1>1. IsFiniteSet({x}) /\ SumOver(F, {x}) = F[x]
  BY FS_Singleton, SumSingle
<1>2. IsFiniteSet(S)
  <2>1. IsFiniteSet({x} \cup {y}) /\ {x} \cup {y} = S
    BY <1>1, FS_AddElement
  <2> QED BY <2>1
<1>3. y \in S /\ \A e \in S : F[e] \in Int
  OBVIOUS
<1>4. SumOver(F, S) = F[y] + SumOver(F, S \ {y})
  BY <1>2, <1>3, SumTake
<1>5. S \ {y} = {x}
  OBVIOUS
<1>6. SumOver(F, S \ {y}) = F[x]
  BY <1>1, <1>5
<1>7. SumOver(F, S) = F[y] + F[x]
  BY <1>4, <1>6
<1>8. F[y] + F[x] = F[x] + F[y]
  OBVIOUS
<1> QED BY <1>2, <1>7, <1>8

(* Sums add up element by element. *)
LEMMA SumAdd ==
  ASSUME NEW F, NEW G, NEW H, NEW S, IsFiniteSet(S),
         \A x \in S : F[x] \in Int /\ G[x] \in Int /\ H[x] = F[x] + G[x]
  PROVE  SumOver(H, S) = SumOver(F, S) + SumOver(G, S)
<1> DEFINE B == {s \in SUBSET S : SumOver(H, s) # SumOver(F, s) + SumOver(G, s)}
<1>1. ASSUME B # {} PROVE FALSE
  <2>1. PICK s \in B : \A t \in B : ~(t \subseteq s /\ t # s)
    <3>1. B \subseteq SUBSET S
      OBVIOUS
    <3> HIDE DEF B
    <3> QED BY <1>1, <3>1, SmallestSubset
  <2>2. s # {} /\ IsFiniteSet(s)
    <3>1. s = {} => SumOver(H, s) = 0 /\ SumOver(F, s) = 0 /\ SumOver(G, s) = 0
      BY SumEmpty
    <3> QED BY <2>1, <3>1, FS_Subset
  <2>3. PICK f : f = First(s)
    OBVIOUS
  <2>4. f \in s
    BY <2>2, <2>3, FirstIn
  <2>5. /\ SumOver(F, s) = F[f] + SumOver(F, s \ {f})
        /\ SumOver(G, s) = G[f] + SumOver(G, s \ {f})
        /\ SumOver(H, s) = H[f] + SumOver(H, s \ {f})
    BY <2>2, <2>3, SumFirst
  <2>6. SumOver(H, s \ {f}) = SumOver(F, s \ {f}) + SumOver(G, s \ {f})
    BY <2>1, <2>4
  <2>7. SumOver(F, s \ {f}) \in Int /\ SumOver(G, s \ {f}) \in Int
    <3>1. IsFiniteSet(s \ {f}) /\ \A x \in s \ {f} : F[x] \in Int /\ G[x] \in Int
      BY <2>2, FS_RemoveElement
    <3> QED BY <3>1, SumType
  <2>8. F[f] \in Int /\ G[f] \in Int /\ H[f] = F[f] + G[f]
    BY <2>4
  <2>9. SumOver(H, s) = SumOver(F, s) + SumOver(G, s)
    BY <2>5, <2>6, <2>7, <2>8
  <2> QED BY <2>9
<1> QED BY <1>1

(* What contributes nothing can be left out. *)
LEMMA SumOnly ==
  ASSUME NEW F, NEW S, IsFiniteSet(S), NEW T, T \subseteq S,
         \A x \in S : F[x] \in Int, \A x \in S \ T : F[x] = 0
  PROVE  SumOver(F, S) = SumOver(F, T)
<1> DEFINE B == {s \in SUBSET S : SumOver(F, s) # SumOver(F, s \cap T)}
<1>1. ASSUME B # {} PROVE FALSE
  <2>1. PICK s \in B : \A t \in B : ~(t \subseteq s /\ t # s)
    <3>1. B \subseteq SUBSET S
      OBVIOUS
    <3> HIDE DEF B
    <3> QED BY <1>1, <3>1, SmallestSubset
  <2>2. IsFiniteSet(s) /\ IsFiniteSet(s \cap T)
    BY FS_Subset
  <2>3. s # {}
    <3>1. s = {} => s \cap T = s
      OBVIOUS
    <3> QED BY <2>1, <3>1
  <2>4. PICK f : f = First(s)
    OBVIOUS
  <2>5. f \in s /\ SumOver(F, s) = F[f] + SumOver(F, s \ {f})
    BY <2>2, <2>3, <2>4, SumFirst, FirstIn
  <2>6. SumOver(F, s \ {f}) = SumOver(F, (s \ {f}) \cap T)
    BY <2>1, <2>5
  <2>7. CASE f \in T
    <3>1. SumOver(F, s \cap T) = F[f] + SumOver(F, (s \cap T) \ {f})
      BY <2>2, <2>5, <2>7, SumTake
    <3>2. (s \cap T) \ {f} = (s \ {f}) \cap T
      OBVIOUS
    <3> QED BY <2>1, <2>5, <2>6, <3>1, <3>2
  <2>8. CASE f \notin T
    <3>1. (s \ {f}) \cap T = s \cap T /\ F[f] = 0
      BY <2>5, <2>8
    <3>2. SumOver(F, s \cap T) \in Int
      BY <2>2, SumType
    <3> QED BY <2>1, <2>5, <2>6, <3>1, <3>2
  <2> QED BY <2>7, <2>8
<1>2. SumOver(F, S) = SumOver(F, S \cap T) /\ S \cap T = T
  BY <1>1
<1> QED BY <1>2

(* A sum whose terms grow grows. *)
LEMMA SumGrows ==
  ASSUME NEW F, NEW G, NEW S, IsFiniteSet(S), \A x \in S : F[x] \in Int /\ G[x] \in Int /\ F[x] <= G[x]
  PROVE  SumOver(F, S) <= SumOver(G, S)
<1> DEFINE D == [x \in S |-> G[x] - F[x]]
<1>1. \A x \in S : F[x] \in Int /\ D[x] \in Int /\ G[x] = F[x] + D[x] /\ D[x] \in Nat
  OBVIOUS
<1> HIDE DEF D
<1>2. SumOver(G, S) = SumOver(F, S) + SumOver(D, S)
  BY <1>1, SumAdd
<1>3. SumOver(F, S) \in Int /\ SumOver(D, S) \in Nat
  BY <1>1, SumType
<1> QED BY <1>2, <1>3

(* A sum of which one term changes changes by as much. *)
LEMMA SumChange ==
  ASSUME NEW F, NEW G, NEW S, IsFiniteSet(S), \A x \in S : F[x] \in Int /\ G[x] \in Int,
         NEW y \in S, \A x \in S \ {y} : F[x] = G[x]
  PROVE  SumOver(G, S) = SumOver(F, S) + (G[y] - F[y])
<1>1. IsFiniteSet(S \ {y})
  BY FS_RemoveElement
<1>2. SumOver(F, S \ {y}) = SumOver(G, S \ {y}) /\ SumOver(F, S \ {y}) \in Int
  BY <1>1, SumCongruent, SumType
<1>3. SumOver(F, S) = F[y] + SumOver(F, S \ {y}) /\ SumOver(G, S) = G[y] + SumOver(G, S \ {y})
  BY SumTake
<1> QED BY <1>2, <1>3
================================================================================
