------------------------------- MODULE SumFacts -------------------------------
(***************************************************************************)
(* Facts about SumFunctionOnSet, for any function and any finite set of    *)
(* indices.                                                                *)
(*                                                                         *)
(* The community module defines the sum by a recursive function over the   *)
(* subsets of the indices, of which TLA+ chooses one fixed point.  That it *)
(* has one, and only one, is shown first (PartialSums); the facts the      *)
(* other proofs cite then follow from SumUnfold.  In place of an           *)
(* induction, a smallest set of indices for which a fact fails is shown    *)
(* not to exist (SmallestSubset).  At the end, OnceEach is about lists and *)
(* SmallestNat about the least number with a property.                     *)
(***************************************************************************)
EXTENDS Integers, FiniteSets, Functions, FiniteSetTheorems, WellFoundedInduction, TLAPS

(* A collection of subsets of a finite set has a smallest member.          *)
LEMMA SmallestSubset ==
  ASSUME NEW S, IsFiniteSet(S), NEW T \in SUBSET SUBSET S, T # {}
  PROVE  \E s \in T : \A u \in T : u \subseteq s => u = s
<1>1. IsWellFoundedOn(StrictSubsetOrdering(S), SUBSET S)
  BY FS_StrictSubsetOrderingWellFounded, FS_FiniteSubsetsOfFinite
<1>2. PICK s \in T : \A u \in T : ~(<<u, s>> \in StrictSubsetOrdering(S))
  BY <1>1, WFMin
<1>3. ASSUME NEW u \in T, u \subseteq s, u # s PROVE FALSE
  <2>1. <<u, s>> \in StrictSubsetOrdering(S)
    BY <1>3 DEF StrictSubsetOrdering
  <2> QED
    BY <1>2, <2>1
<1> QED
  BY <1>3

Pick(s) == CHOOSE x \in s : TRUE

(* One unfolding of the recursive definition of the sums over subsets.     *)
Unfolded(f, g, S) ==
  [s \in SUBSET S |-> IF s = {} THEN 0 ELSE f[Pick(s)] + g[s \ {Pick(s)}]]

(* g gives the sum of f over every subset of S.                            *)
PartialSums(f, g, S) == g = Unfolded(f, g, S)

(* The element picked of a set is in it.                                   *)
LEMMA PickIn ==
  ASSUME NEW s, s # {}
  PROVE  Pick(s) \in s
BY DEF Pick

(* The sum of one more element, as the folds compute it.                   *)
LEMMA PartialAt ==
  ASSUME NEW f, NEW g, NEW S, PartialSums(f, g, S), NEW s \in SUBSET S
  PROVE  /\ s = {} => g[s] = 0
         /\ s # {} => g[s] = f[Pick(s)] + g[s \ {Pick(s)}]
<1>1. /\ s = {} => Unfolded(f, g, S)[s] = 0
      /\ s # {} => Unfolded(f, g, S)[s] = f[Pick(s)] + g[s \ {Pick(s)}]
  BY DEF Unfolded
<1> QED
  BY <1>1 DEF PartialSums

(* The sum over a set does not depend on the larger set it is part of.     *)
LEMMA PartialUnique ==
  ASSUME NEW f, NEW g, NEW h, NEW S, NEW R, IsFiniteSet(S),
         PartialSums(f, g, S), PartialSums(f, h, R)
  PROVE  \A s \in SUBSET S : s \in SUBSET R => g[s] = h[s]
<1> DEFINE Bad == {s \in SUBSET S : s \in SUBSET R /\ g[s] # h[s]}
<1>1. CASE Bad = {}
  BY <1>1
<1>2. CASE Bad # {}
  <2>0. Bad \in SUBSET SUBSET S
    OBVIOUS
  <2> HIDE DEF Bad
  <2>1. PICK s \in Bad : \A u \in Bad : u \subseteq s => u = s
    BY <1>2, <2>0, SmallestSubset
  <2>2. s \in SUBSET S /\ s \in SUBSET R /\ g[s] # h[s]
    BY <2>1 DEF Bad
  <2>3. /\ s = {} => g[s] = 0 /\ h[s] = 0
        /\ s # {} => /\ g[s] = f[Pick(s)] + g[s \ {Pick(s)}]
                     /\ h[s] = f[Pick(s)] + h[s \ {Pick(s)}]
    <3>1. /\ s = {} => g[s] = 0
          /\ s # {} => g[s] = f[Pick(s)] + g[s \ {Pick(s)}]
      BY <2>2, PartialAt
    <3>2. /\ s = {} => h[s] = 0
          /\ s # {} => h[s] = f[Pick(s)] + h[s \ {Pick(s)}]
      BY <2>2, PartialAt
    <3> QED
      BY <3>1, <3>2
  <2>4. s # {}
    BY <2>2, <2>3
  <2>5. s \ {Pick(s)} \notin Bad
    BY <2>1, <2>4, PickIn
  <2>6. g[s \ {Pick(s)}] = h[s \ {Pick(s)}]
    BY <2>2, <2>5 DEF Bad
  <2> QED
    BY <2>2, <2>3, <2>4, <2>6
<1> QED
  BY <1>1, <1>2

(* The sums over the subsets of a subset.                                  *)
LEMMA PartialRestrict ==
  ASSUME NEW f, NEW g, NEW S, NEW R \in SUBSET S, PartialSums(f, g, S)
  PROVE  PartialSums(f, [s \in SUBSET R |-> g[s]], R)
<1> DEFINE h == [s \in SUBSET R |-> g[s]]
<1>1. ASSUME NEW s \in SUBSET R
      PROVE  h[s] = IF s = {} THEN 0 ELSE f[Pick(s)] + h[s \ {Pick(s)}]
  <2>1. s \in SUBSET S /\ s \ {Pick(s)} \in SUBSET R
    OBVIOUS
  <2>2. h[s] = g[s] /\ h[s \ {Pick(s)}] = g[s \ {Pick(s)}]
    BY <2>1
  <2> HIDE DEF h
  <2> QED
    BY <2>1, <2>2, PartialAt
<1>2. h = [s \in SUBSET R |-> h[s]]
  OBVIOUS
<1> HIDE DEF h
<1>3. h = [s \in SUBSET R |-> IF s = {} THEN 0 ELSE f[Pick(s)] + h[s \ {Pick(s)}]]
  BY <1>1, <1>2
<1>4. PartialSums(f, h, R)
  BY <1>3 DEF PartialSums, Unfolded
<1> QED
  BY <1>4 DEF h

(* They exist: they are put together from those over smaller sets.         *)
LEMMA PartialExists ==
  ASSUME NEW f, NEW S, IsFiniteSet(S)
  PROVE  \E g : PartialSums(f, g, S)
<1> DEFINE Bad == {s \in SUBSET S : ~\E g : PartialSums(f, g, s)}
<1> SUFFICES ASSUME S \in Bad PROVE FALSE
  OBVIOUS
<1>0. Bad \in SUBSET SUBSET S /\ Bad # {}
  OBVIOUS
<1> HIDE DEF Bad
<1>1. PICK s \in Bad : \A u \in Bad : u \subseteq s => u = s
  BY <1>0, SmallestSubset
<1>2. s \in SUBSET S /\ ~\E g : PartialSums(f, g, s)
  BY <1>1 DEF Bad
<1>3. \A u \in SUBSET s : u # s => \E g : PartialSums(f, g, u)
  BY <1>1, <1>2 DEF Bad
<1>4. \A u \in SUBSET s : IsFiniteSet(u)
  BY <1>2, FS_Subset
<1> DEFINE Of(u) == CHOOSE g : PartialSums(f, g, u)
           g == [u \in SUBSET s |->
                   IF u = {} THEN 0 ELSE f[Pick(u)] + Of(u \ {Pick(u)})[u \ {Pick(u)}]]
<1>5. \A u \in SUBSET s : u # s => PartialSums(f, Of(u), u)
  BY <1>3
<1> HIDE DEF Of
<1>6. ASSUME NEW u \in SUBSET s, u # s PROVE Of(u)[u] = g[u]
  <2>1. /\ u = {} => Of(u)[u] = 0
        /\ u # {} => Of(u)[u] = f[Pick(u)] + Of(u)[u \ {Pick(u)}]
    BY <1>5, <1>6, PartialAt
  <2>2. CASE u = {}
    BY <2>1, <2>2
  <2>3. CASE u # {}
    <3>1. /\ u \ {Pick(u)} \in SUBSET u /\ u \ {Pick(u)} \in SUBSET s
          /\ u \ {Pick(u)} # s
      BY <1>6, <2>3, PickIn
    <3>2. Of(u \ {Pick(u)})[u \ {Pick(u)}] = Of(u)[u \ {Pick(u)}]
      BY <1>4, <1>5, <1>6, <3>1, PartialUnique
    <3> QED
      BY <2>1, <2>3, <3>2
  <2> QED
    BY <2>2, <2>3
<1>7. ASSUME NEW u \in SUBSET s
      PROVE  g[u] = IF u = {} THEN 0 ELSE f[Pick(u)] + g[u \ {Pick(u)}]
  <2>1. CASE u = {}
    BY <2>1
  <2>2. CASE u # {}
    <3>1. u \ {Pick(u)} \in SUBSET s /\ u \ {Pick(u)} # s
      BY <2>2, PickIn
    <3>2. Of(u \ {Pick(u)})[u \ {Pick(u)}] = g[u \ {Pick(u)}]
      BY <1>6, <3>1
    <3>3. g[u] = f[Pick(u)] + Of(u \ {Pick(u)})[u \ {Pick(u)}]
      BY <2>2
    <3> QED
      BY <2>2, <3>2, <3>3
  <2> QED
    BY <2>1, <2>2
<1>8. g = [u \in SUBSET s |-> g[u]]
  OBVIOUS
<1> HIDE DEF g
<1>9. g = [u \in SUBSET s |-> IF u = {} THEN 0 ELSE f[Pick(u)] + g[u \ {Pick(u)}]]
  BY <1>7, <1>8
<1>10. PartialSums(f, g, s)
  BY <1>9 DEF PartialSums, Unfolded
<1> QED
  BY <1>2, <1>10

-------------------------------------------------------------------------------
(* The sum is the one over the whole set.                                  *)
LEMMA SumIsPartial ==
  ASSUME NEW f, NEW S, IsFiniteSet(S), NEW g, PartialSums(f, g, S)
  PROVE  SumFunctionOnSet(f, S) = g[S]
<1> DEFINE Body(it) == [s \in SUBSET S |->
             IF s = {} THEN 0 ELSE LET x == CHOOSE x \in s : TRUE IN f[x] + it[s \ {x}]]
           iter == CHOOSE it : it = Body(it)
<1>1. \A h : Body(h) = Unfolded(f, h, S)
  BY DEF Unfolded, Pick
<1>2. g = Body(g)
  BY <1>1 DEF PartialSums
<1>3. iter = Body(iter)
  BY <1>2
<1>4. SumFunctionOnSet(f, S) = iter[S]
  BY DEF SumFunctionOnSet, FoldFunctionOnSet, MapThenFoldSet
<1> HIDE DEF iter, Body
<1>5. PartialSums(f, iter, S)
  BY <1>1, <1>3 DEF PartialSums
<1>6. iter[S] = g[S]
  BY <1>5, PartialUnique
<1> QED
  BY <1>4, <1>6

(* The sum over a set is a value of it and the sum over the rest.          *)
LEMMA SumUnfold ==
  ASSUME NEW f, NEW S, IsFiniteSet(S)
  PROVE  /\ S = {} => SumFunctionOnSet(f, S) = 0
         /\ S # {} => SumFunctionOnSet(f, S) = f[Pick(S)] + SumFunctionOnSet(f, S \ {Pick(S)})
<1>1. PICK g : PartialSums(f, g, S)
  BY PartialExists
<1>2. SumFunctionOnSet(f, S) = g[S]
  BY <1>1, SumIsPartial
<1>3. /\ S = {} => g[S] = 0
      /\ S # {} => g[S] = f[Pick(S)] + g[S \ {Pick(S)}]
  BY <1>1, PartialAt
<1>4. SumFunctionOnSet(f, S \ {Pick(S)}) = g[S \ {Pick(S)}]
  <2> DEFINE R == S \ {Pick(S)}
             h == [s \in SUBSET R |-> g[s]]
  <2>1. IsFiniteSet(R)
    BY FS_RemoveElement
  <2>2. PartialSums(f, h, R)
    BY <1>1, PartialRestrict
  <2>3. h[R] = g[R]
    OBVIOUS
  <2> HIDE DEF R, h
  <2>4. SumFunctionOnSet(f, R) = h[R]
    BY <2>1, <2>2, SumIsPartial
  <2> QED
    BY <2>3, <2>4 DEF R
<1> QED
  BY <1>2, <1>3, <1>4

(* A sum of integers is an integer.                                        *)
LEMMA SumInt ==
  ASSUME NEW f, NEW S, IsFiniteSet(S), \A x \in S : f[x] \in Int
  PROVE  SumFunctionOnSet(f, S) \in Int
<1> DEFINE Bad == {s \in SUBSET S : SumFunctionOnSet(f, s) \notin Int}
<1> SUFFICES ASSUME S \in Bad PROVE FALSE
  OBVIOUS
<1>1. Bad \in SUBSET SUBSET S /\ Bad # {}
  OBVIOUS
<1> HIDE DEF Bad
<1>2. PICK s \in Bad : \A u \in Bad : u \subseteq s => u = s
  BY <1>1, SmallestSubset
<1>3. s \in SUBSET S /\ SumFunctionOnSet(f, s) \notin Int /\ IsFiniteSet(s)
  BY <1>2, FS_Subset DEF Bad
<1>4. s # {} /\ Pick(s) \in s
  BY <1>3, SumUnfold, PickIn
<1>5. SumFunctionOnSet(f, s \ {Pick(s)}) \in Int
  BY <1>2, <1>3, <1>4 DEF Bad
<1> QED
  BY <1>3, <1>4, <1>5, SumUnfold

(* The order in which the indices are taken does not matter: any of them   *)
(* may be taken first.                                                     *)
LEMMA SumRemove ==
  ASSUME NEW f, NEW S, IsFiniteSet(S), \A x \in S : f[x] \in Int, NEW x \in S
  PROVE  SumFunctionOnSet(f, S) = f[x] + SumFunctionOnSet(f, S \ {x})
<1> DEFINE Bad == {s \in SUBSET S : \E y \in s :
                     SumFunctionOnSet(f, s) # f[y] + SumFunctionOnSet(f, s \ {y})}
<1> SUFFICES ASSUME S \in Bad PROVE FALSE
  OBVIOUS
<1>1. Bad \in SUBSET SUBSET S /\ Bad # {}
  OBVIOUS
<1> HIDE DEF Bad
<1>2. PICK s \in Bad : \A u \in Bad : u \subseteq s => u = s
  BY <1>1, SmallestSubset
<1>3. PICK y \in s : SumFunctionOnSet(f, s) # f[y] + SumFunctionOnSet(f, s \ {y})
  BY <1>2 DEF Bad
<1>4. s \in SUBSET S /\ IsFiniteSet(s)
  BY <1>2, FS_Subset DEF Bad
<1> DEFINE z == Pick(s)
           rest == s \ {y, z}
<1>5. z \in s /\ SumFunctionOnSet(f, s) = f[z] + SumFunctionOnSet(f, s \ {z})
  BY <1>3, <1>4, SumUnfold, PickIn
<1> HIDE DEF z
<1>6. z # y
  BY <1>3, <1>5
<1>7. /\ s \ {z} \in SUBSET S /\ s \ {y} \in SUBSET S
      /\ s \ {z} \notin Bad /\ s \ {y} \notin Bad
  BY <1>2, <1>4, <1>5
<1>8. /\ SumFunctionOnSet(f, s \ {z}) = f[y] + SumFunctionOnSet(f, rest)
      /\ SumFunctionOnSet(f, s \ {y}) = f[z] + SumFunctionOnSet(f, rest)
  <2>1. /\ y \in s \ {z} /\ z \in s \ {y}
        /\ rest = (s \ {z}) \ {y} /\ rest = (s \ {y}) \ {z}
    BY <1>5, <1>6
  <2> HIDE DEF rest
  <2> QED
    BY <1>7, <2>1 DEF Bad
<1>9. IsFiniteSet(rest) /\ \A i \in rest : f[i] \in Int
  BY <1>4, FS_Subset
<1>10. SumFunctionOnSet(f, rest) \in Int
  BY <1>9, SumInt
<1> HIDE DEF rest
<1>11. f[y] \in Int /\ f[z] \in Int
  BY <1>4, <1>5
<1> QED
  BY <1>3, <1>5, <1>8, <1>10, <1>11

(* Functions that agree on the indices have the same sum.                  *)
LEMMA SumEqual ==
  ASSUME NEW f, NEW g, NEW S, IsFiniteSet(S), \A x \in S : f[x] = g[x]
  PROVE  SumFunctionOnSet(f, S) = SumFunctionOnSet(g, S)
<1> DEFINE Bad == {s \in SUBSET S : SumFunctionOnSet(f, s) # SumFunctionOnSet(g, s)}
<1> SUFFICES ASSUME S \in Bad PROVE FALSE
  OBVIOUS
<1>1. Bad \in SUBSET SUBSET S /\ Bad # {}
  OBVIOUS
<1> HIDE DEF Bad
<1>2. PICK s \in Bad : \A u \in Bad : u \subseteq s => u = s
  BY <1>1, SmallestSubset
<1>3. /\ s \in SUBSET S /\ IsFiniteSet(s)
      /\ SumFunctionOnSet(f, s) # SumFunctionOnSet(g, s)
  BY <1>2, FS_Subset DEF Bad
<1>4. s # {} /\ Pick(s) \in s
  BY <1>3, SumUnfold, PickIn
<1>5. SumFunctionOnSet(f, s \ {Pick(s)}) = SumFunctionOnSet(g, s \ {Pick(s)})
  BY <1>2, <1>3, <1>4 DEF Bad
<1>6. /\ SumFunctionOnSet(f, s) = f[Pick(s)] + SumFunctionOnSet(f, s \ {Pick(s)})
      /\ SumFunctionOnSet(g, s) = g[Pick(s)] + SumFunctionOnSet(g, s \ {Pick(s)})
  BY <1>3, <1>4, SumUnfold
<1>7. f[Pick(s)] = g[Pick(s)]
  BY <1>3, <1>4
<1> QED
  BY <1>3, <1>5, <1>6, <1>7

(* The sum of the sums of two functions.                                   *)
LEMMA SumPlus ==
  ASSUME NEW f, NEW g, NEW h, NEW S, IsFiniteSet(S),
         \A x \in S : f[x] \in Int /\ g[x] \in Int /\ h[x] = f[x] + g[x]
  PROVE  SumFunctionOnSet(h, S) = SumFunctionOnSet(f, S) + SumFunctionOnSet(g, S)
<1> DEFINE Bad == {s \in SUBSET S : SumFunctionOnSet(h, s) #
                                      SumFunctionOnSet(f, s) + SumFunctionOnSet(g, s)}
<1> SUFFICES ASSUME S \in Bad PROVE FALSE
  OBVIOUS
<1>1. Bad \in SUBSET SUBSET S /\ Bad # {}
  OBVIOUS
<1> HIDE DEF Bad
<1>2. PICK s \in Bad : \A u \in Bad : u \subseteq s => u = s
  BY <1>1, SmallestSubset
<1>3. /\ s \in SUBSET S /\ IsFiniteSet(s)
      /\ SumFunctionOnSet(h, s) # SumFunctionOnSet(f, s) + SumFunctionOnSet(g, s)
  BY <1>2, FS_Subset DEF Bad
<1>4. s # {} /\ Pick(s) \in s
  <2>1. CASE s = {}
    <3>1. /\ SumFunctionOnSet(f, s) = 0 /\ SumFunctionOnSet(g, s) = 0
          /\ SumFunctionOnSet(h, s) = 0
      BY <1>3, <2>1, SumUnfold
    <3> QED
      BY <1>3, <3>1
  <2> QED
    BY <2>1, PickIn
<1> DEFINE x == Pick(s)
           rest == s \ {x}
<1>5. rest \in SUBSET S /\ IsFiniteSet(rest) /\ rest \notin Bad
  BY <1>2, <1>3, <1>4, FS_Subset
<1>6. /\ SumFunctionOnSet(f, s) = f[x] + SumFunctionOnSet(f, rest)
      /\ SumFunctionOnSet(g, s) = g[x] + SumFunctionOnSet(g, rest)
      /\ SumFunctionOnSet(h, s) = h[x] + SumFunctionOnSet(h, rest)
  BY <1>3, <1>4, SumUnfold
<1>7. x \in S
  BY <1>3, <1>4
<1> HIDE DEF x, rest
<1>8. SumFunctionOnSet(h, rest) = SumFunctionOnSet(f, rest) + SumFunctionOnSet(g, rest)
  BY <1>5 DEF Bad
<1>9. (\A i \in rest : f[i] \in Int) /\ (\A i \in rest : g[i] \in Int)
  BY <1>5
<1>10. SumFunctionOnSet(f, rest) \in Int /\ SumFunctionOnSet(g, rest) \in Int
  BY <1>5, <1>9, SumInt
<1>11. f[x] \in Int /\ g[x] \in Int /\ h[x] = f[x] + g[x]
  BY <1>7
<1> QED
  BY <1>3, <1>6, <1>8, <1>10, <1>11

(* The same of three functions.                                            *)
LEMMA SumOfThree ==
  ASSUME NEW f, NEW g, NEW h, NEW k, NEW S, IsFiniteSet(S),
         \A x \in S : f[x] \in Int /\ g[x] \in Int /\ h[x] \in Int,
         \A x \in S : k[x] = f[x] + g[x] + h[x]
  PROVE  SumFunctionOnSet(k, S) =
           SumFunctionOnSet(f, S) + SumFunctionOnSet(g, S) + SumFunctionOnSet(h, S)
<1> DEFINE fg == [x \in S |-> f[x] + g[x]]
<1>1. \A x \in S : /\ fg[x] = f[x] + g[x] /\ fg[x] \in Int
                   /\ k[x] = fg[x] + h[x]
  OBVIOUS
<1> HIDE DEF fg
<1>2. SumFunctionOnSet(fg, S) = SumFunctionOnSet(f, S) + SumFunctionOnSet(g, S)
  BY <1>1, SumPlus
<1>3. SumFunctionOnSet(k, S) = SumFunctionOnSet(fg, S) + SumFunctionOnSet(h, S)
  BY <1>1, SumPlus
<1> QED
  BY <1>2, <1>3

(* A sum of naturals is a natural number.                                  *)
LEMMA SumNat ==
  ASSUME NEW f, NEW S, IsFiniteSet(S), \A x \in S : f[x] \in Nat
  PROVE  SumFunctionOnSet(f, S) \in Nat
<1> DEFINE Bad == {s \in SUBSET S : SumFunctionOnSet(f, s) \notin Nat}
<1> SUFFICES ASSUME S \in Bad PROVE FALSE
  OBVIOUS
<1>1. Bad \in SUBSET SUBSET S /\ Bad # {}
  OBVIOUS
<1> HIDE DEF Bad
<1>2. PICK s \in Bad : \A u \in Bad : u \subseteq s => u = s
  BY <1>1, SmallestSubset
<1>3. s \in SUBSET S /\ SumFunctionOnSet(f, s) \notin Nat /\ IsFiniteSet(s)
  BY <1>2, FS_Subset DEF Bad
<1>4. s # {} /\ Pick(s) \in s
  <2>1. s = {} => SumFunctionOnSet(f, s) = 0
    BY <1>3, SumUnfold
  <2> QED
    BY <1>3, <2>1, PickIn
<1>5. SumFunctionOnSet(f, s \ {Pick(s)}) \in Nat
  BY <1>2, <1>3, <1>4 DEF Bad
<1> QED
  BY <1>3, <1>4, <1>5, SumUnfold

(* A sum is at most another whose values are at least as large.            *)
LEMMA SumAtMost ==
  ASSUME NEW f, NEW g, NEW S, IsFiniteSet(S),
         \A x \in S : f[x] \in Int /\ g[x] \in Int /\ f[x] <= g[x]
  PROVE  SumFunctionOnSet(f, S) <= SumFunctionOnSet(g, S)
<1> DEFINE d == [x \in S |-> g[x] - f[x]]
<1>1. \A x \in S : d[x] \in Nat /\ d[x] \in Int /\ g[x] = f[x] + d[x]
  OBVIOUS
<1> HIDE DEF d
<1>2. SumFunctionOnSet(g, S) = SumFunctionOnSet(f, S) + SumFunctionOnSet(d, S)
  BY <1>1, SumPlus
<1>3. SumFunctionOnSet(f, S) \in Int /\ SumFunctionOnSet(d, S) \in Nat
  BY <1>1, SumInt, SumNat
<1> QED
  BY <1>2, <1>3

(* The value at one index changes, the others do not.                      *)
LEMMA SumChange ==
  ASSUME NEW f, NEW g, NEW S, IsFiniteSet(S), NEW c \in S,
         \A x \in S : f[x] \in Int /\ g[x] \in Int,
         \A x \in S \ {c} : g[x] = f[x]
  PROVE  SumFunctionOnSet(g, S) = SumFunctionOnSet(f, S) + (g[c] - f[c])
<1>1. /\ SumFunctionOnSet(g, S) = g[c] + SumFunctionOnSet(g, S \ {c})
      /\ SumFunctionOnSet(f, S) = f[c] + SumFunctionOnSet(f, S \ {c})
  BY SumRemove
<1>2. IsFiniteSet(S \ {c})
  BY FS_RemoveElement
<1>3. SumFunctionOnSet(g, S \ {c}) = SumFunctionOnSet(f, S \ {c})
  BY <1>2, SumEqual
<1>4. SumFunctionOnSet(f, S \ {c}) \in Int
  BY <1>2, SumInt
<1>5. f[c] \in Int /\ g[c] \in Int
  OBVIOUS
<1> QED
  BY <1>1, <1>3, <1>4, <1>5

(* Indices at which the value is 0 add nothing.                            *)
LEMMA SumOfZeros ==
  ASSUME NEW f, NEW S, IsFiniteSet(S), \A x \in S : f[x] = 0
  PROVE  SumFunctionOnSet(f, S) = 0
<1> DEFINE g == [x \in S |-> 0]
<1>1. \A x \in S : f[x] \in Int /\ g[x] \in Int /\ f[x] = f[x] + g[x] /\ g[x] = f[x]
  OBVIOUS
<1> HIDE DEF g
<1>2. SumFunctionOnSet(f, S) = SumFunctionOnSet(f, S) + SumFunctionOnSet(g, S)
  BY <1>1, SumPlus
<1>3. SumFunctionOnSet(g, S) = SumFunctionOnSet(f, S)
  BY <1>1, SumEqual
<1>4. SumFunctionOnSet(f, S) \in Int
  BY <1>1, SumInt
<1> DEFINE x == SumFunctionOnSet(f, S)
<1>5. x \in Int /\ x = x + x
  BY <1>2, <1>3, <1>4
<1> HIDE DEF x
<1>6. x = 0
  BY <1>5
<1> QED
  BY <1>6 DEF x

(* Elements that count nothing may be left out of a sum.                   *)
LEMMA SumOnSupport ==
  ASSUME NEW f, NEW S, IsFiniteSet(S), NEW R \in SUBSET S,
         \A x \in S : f[x] \in Int, \A x \in S \ R : f[x] = 0
  PROVE  SumFunctionOnSet(f, S) = SumFunctionOnSet(f, R)
<1> DEFINE Bad == {s \in SUBSET S : R \subseteq s /\
                     SumFunctionOnSet(f, s) # SumFunctionOnSet(f, R)}
<1> SUFFICES ASSUME S \in Bad PROVE FALSE
  OBVIOUS
<1>1. Bad \in SUBSET SUBSET S /\ Bad # {}
  OBVIOUS
<1> HIDE DEF Bad
<1>2. PICK s \in Bad : \A u \in Bad : u \subseteq s => u = s
  BY <1>1, SmallestSubset
<1>3. /\ s \in SUBSET S /\ R \subseteq s /\ IsFiniteSet(s)
      /\ SumFunctionOnSet(f, s) # SumFunctionOnSet(f, R)
  BY <1>2, FS_Subset DEF Bad
<1>4. PICK x \in s : x \notin R
  BY <1>3
<1>5. SumFunctionOnSet(f, s \ {x}) = SumFunctionOnSet(f, R)
  BY <1>2, <1>3, <1>4 DEF Bad
<1>6. SumFunctionOnSet(f, s) = f[x] + SumFunctionOnSet(f, s \ {x})
  BY <1>3, SumRemove
<1>7. f[x] = 0
  BY <1>3, <1>4
<1>8. IsFiniteSet(s \ {x}) /\ \A i \in s \ {x} : f[i] \in Int
  BY <1>3, FS_Subset
<1>9. SumFunctionOnSet(f, s \ {x}) \in Int
  BY <1>8, SumInt
<1> QED
  BY <1>3, <1>5, <1>6, <1>7, <1>9

(* A sum of naturals is no less than one over fewer indices.               *)
LEMMA SumSubset ==
  ASSUME NEW f, NEW S, IsFiniteSet(S), NEW R \in SUBSET S, \A x \in S : f[x] \in Nat
  PROVE  SumFunctionOnSet(f, R) <= SumFunctionOnSet(f, S)
<1> DEFINE g == [x \in S |-> IF x \in R THEN f[x] ELSE 0]
<1>1. /\ \A x \in S : g[x] \in Int /\ f[x] \in Int /\ g[x] <= f[x]
      /\ \A x \in S \ R : g[x] = 0
      /\ \A x \in R : g[x] = f[x]
  OBVIOUS
<1> HIDE DEF g
<1>2. IsFiniteSet(R)
  BY FS_Subset
<1>3. SumFunctionOnSet(g, S) = SumFunctionOnSet(g, R)
  BY <1>1, SumOnSupport
<1>4. SumFunctionOnSet(g, R) = SumFunctionOnSet(f, R)
  BY <1>1, <1>2, SumEqual
<1>5. SumFunctionOnSet(g, S) <= SumFunctionOnSet(f, S)
  BY <1>1, SumAtMost
<1> QED
  BY <1>3, <1>4, <1>5

(* Summing over the parts of a partition, here the fibres of h, and then   *)
(* over the parts, is summing over the whole.                              *)
LEMMA SumByParts ==
  ASSUME NEW f, NEW S, NEW T, IsFiniteSet(S), IsFiniteSet(T), NEW h,
         \A x \in S : f[x] \in Int /\ h[x] \in T
  PROVE  SumFunctionOnSet([t \in T |-> SumFunctionOnSet(f, {x \in S : h[x] = t})], T)
           = SumFunctionOnSet(f, S)
<1> DEFINE Part(s, t) == {x \in s : h[x] = t}
           Parts(s) == [t \in T |-> SumFunctionOnSet(f, Part(s, t))]
           Bad == {s \in SUBSET S : SumFunctionOnSet(Parts(s), T) # SumFunctionOnSet(f, s)}
<1> SUFFICES ASSUME S \in Bad PROVE FALSE
  OBVIOUS
<1>1. Bad \in SUBSET SUBSET S /\ Bad # {}
  OBVIOUS
<1> HIDE DEF Bad
<1>2. PICK s \in Bad : \A u \in Bad : u \subseteq s => u = s
  BY <1>1, SmallestSubset
<1>3. /\ s \in SUBSET S /\ IsFiniteSet(s)
      /\ SumFunctionOnSet(Parts(s), T) # SumFunctionOnSet(f, s)
  BY <1>2, FS_Subset DEF Bad
<1>4. ASSUME NEW u \in SUBSET s, NEW t \in T
      PROVE  /\ IsFiniteSet(Part(u, t)) /\ \A x \in Part(u, t) : f[x] \in Int
             /\ SumFunctionOnSet(f, Part(u, t)) \in Int
             /\ Parts(u)[t] = SumFunctionOnSet(f, Part(u, t))
  <2>1. IsFiniteSet(Part(u, t)) /\ \A x \in Part(u, t) : f[x] \in Int
    BY <1>3, FS_Subset
  <2> HIDE DEF Part
  <2>2. SumFunctionOnSet(f, Part(u, t)) \in Int
    BY <2>1, SumInt
  <2> QED
    BY <2>1, <2>2
<1>5. s # {}
  <2> SUFFICES ASSUME s = {} PROVE FALSE
    OBVIOUS
  <2>1. \A t \in T : Part(s, t) = {}
    OBVIOUS
  <2>2. SumFunctionOnSet(f, {}) = 0
    BY FS_EmptySet, SumUnfold
  <2>3. \A t \in T : SumFunctionOnSet(f, Part(s, t)) = 0
    <3> HIDE DEF Part
    <3> QED
      BY <2>1, <2>2
  <2>4. \A t \in T : Parts(s)[t] = 0
    BY <2>3
  <2> HIDE DEF Parts
  <2>5. SumFunctionOnSet(Parts(s), T) = 0
    BY <2>4, SumOfZeros
  <2>6. SumFunctionOnSet(f, s) = 0
    BY <1>3, SumUnfold
  <2> QED
    BY <1>3, <2>5, <2>6
<1>6. PICK c \in s : TRUE
  BY <1>5
<1> DEFINE rest == s \ {c}
<1>7. rest \in SUBSET s /\ rest \notin Bad /\ rest \in SUBSET S /\ IsFiniteSet(rest)
  BY <1>2, <1>3, <1>6, FS_Subset
<1>8. f[c] \in Int /\ h[c] \in T
  BY <1>3, <1>6
<1>9. /\ Part(rest, h[c]) = Part(s, h[c]) \ {c} /\ c \in Part(s, h[c])
      /\ \A t \in T \ {h[c]} : Part(rest, t) = Part(s, t)
  BY <1>6
<1> HIDE DEF Part, rest
<1>10. SumFunctionOnSet(f, Part(s, h[c])) = f[c] + SumFunctionOnSet(f, Part(rest, h[c]))
  BY <1>4, <1>8, <1>9, SumRemove
<1>11. Parts(s)[h[c]] - Parts(rest)[h[c]] = f[c]
  <2>1. /\ Parts(s)[h[c]] = SumFunctionOnSet(f, Part(s, h[c]))
        /\ Parts(rest)[h[c]] = SumFunctionOnSet(f, Part(rest, h[c]))
        /\ SumFunctionOnSet(f, Part(rest, h[c])) \in Int
    BY <1>4, <1>7, <1>8
  <2> HIDE DEF Parts
  <2> QED
    BY <1>8, <1>10, <2>1
<1>12. /\ \A t \in T : Parts(rest)[t] \in Int /\ Parts(s)[t] \in Int
       /\ \A t \in T \ {h[c]} : Parts(s)[t] = Parts(rest)[t]
  BY <1>4, <1>7, <1>9
<1> HIDE DEF Parts
<1>13. SumFunctionOnSet(Parts(s), T) =
         SumFunctionOnSet(Parts(rest), T) + (Parts(s)[h[c]] - Parts(rest)[h[c]])
  BY <1>8, <1>12, SumChange
<1>14. SumFunctionOnSet(Parts(rest), T) = SumFunctionOnSet(f, rest)
  BY <1>7 DEF Bad
<1>15. SumFunctionOnSet(f, s) = f[c] + SumFunctionOnSet(f, rest)
  BY <1>3, <1>6, SumRemove DEF rest
<1>16. SumFunctionOnSet(f, rest) \in Int
  <2>1. \A x \in rest : f[x] \in Int
    BY <1>7
  <2> QED
    BY <1>7, <2>1, SumInt
<1> QED
  BY <1>3, <1>8, <1>11, <1>13, <1>14, <1>15, <1>16

(* The sum of all the values of a function.                                *)
LEMMA SumOfFunction ==
  ASSUME NEW f
  PROVE  SumFunction(f) = SumFunctionOnSet(f, DOMAIN f)
BY DEF SumFunction, SumFunctionOnSet, FoldFunction, FoldFunctionOnSet, MapThenFoldSet

(* A sum over no index is 0.                                               *)
LEMMA SumOfNone ==
  ASSUME NEW f
  PROVE  SumFunctionOnSet(f, {}) = 0
BY SumUnfold, FS_EmptySet

(* A sum over one index is the value there.                                *)
LEMMA SumOfOne ==
  ASSUME NEW f, NEW c, f[c] \in Int
  PROVE  SumFunctionOnSet(f, {c}) = f[c]
<1>1. IsFiniteSet({c}) /\ Pick({c}) = c /\ {c} \ {c} = {}
  BY FS_Singleton DEF Pick
<1> QED
  BY <1>1, SumUnfold, SumOfNone

-------------------------------------------------------------------------------
(* A list as long as a finite set, of distinct members of it, has them     *)
(* all.                                                                    *)
LEMMA OnceEach ==
  ASSUME NEW S, IsFiniteSet(S), NEW f \in [1 .. Cardinality(S) -> S],
         \A i, j \in 1 .. Cardinality(S) : i # j => f[i] # f[j]
  PROVE  \A x \in S : \E i \in 1 .. Cardinality(S) : f[i] = x
<1>1. Cardinality(S) \in Nat
  BY FS_CardinalityType
<1>2. IsFiniteSet(1 .. Cardinality(S)) /\ Cardinality(1 .. Cardinality(S)) = Cardinality(S)
  BY <1>1, FS_Interval
<1>3. f \in Injection(1 .. Cardinality(S), S)
  BY DEF Injection, IsInjective
<1>4. f \in Surjection(1 .. Cardinality(S), S)
  BY <1>2, <1>3, FS_Injection
<1> QED
  BY <1>4 DEF Surjection

(* A set of naturals has a smallest member.                                *)
LEMMA SmallestNat ==
  ASSUME NEW T \in SUBSET Nat, T # {}
  PROVE  \E n \in T : \A m \in T : n <= m
<1>1. PICK n \in T : \A m \in T : ~(<<m, n>> \in OpToRel(<, Nat))
  BY NatLessThanWellFounded, WFMin
<1>2. ASSUME NEW m \in T, m < n PROVE FALSE
  <2>1. <<m, n>> \in OpToRel(<, Nat)
    BY <1>2 DEF OpToRel
  <2> QED
    BY <1>1, <2>1
<1>3. \A m \in T : m \in Nat /\ n \in Nat
  OBVIOUS
<1> QED
  BY <1>2, <1>3
===============================================================================
