---------------------------------- MODULE Sums ----------------------------------
(***************************************************************************)
(* What SumFunctionOnSet, the sum of f[x] over the elements x of a finite    *)
(* set, computes.  The operator folds over the set in an order of its own    *)
(* choosing; these lemmas say that the order does not matter.                *)
(*                                                                          *)
(* Induction over a finite set is by a smallest counterexample: inclusion is *)
(* well founded on the subsets of a finite set.                              *)
(***************************************************************************)
EXTENDS Integers, FiniteSets, Functions, FiniteSetTheorems, WellFoundedInduction, TLAPS

\* A set of subsets of a finite set has a member that includes no other member.
LEMMA SmallestSubset ==
    ASSUME NEW U, IsFiniteSet(U), NEW T \in SUBSET (SUBSET U), T # {}
    PROVE  \E m \in T : \A k \in T : ~(k \subseteq m /\ k # m)
<1>1. IsWellFoundedOn(StrictSubsetOrdering(U), FiniteSubsetsOf(U))
  BY FS_StrictSubsetOrderingWellFounded
<1>2. T \subseteq FiniteSubsetsOf(U)
  BY FS_FiniteSubsetsOfFinite
<1>3. \E m \in T : \A k \in T : <<k, m>> \notin StrictSubsetOrdering(U)
  BY <1>1, <1>2, WFMin
<1> QED BY <1>3 DEF StrictSubsetOrdering

-----------------------------------------------------------------------------
(* The recursion behind the operator. *)

\* The element the fold takes out of s.
Taken(s) == CHOOSE x \in s : TRUE

\* g is the function the fold over S is defined by.
IsFold(f, S, g) ==
    g = [s \in SUBSET S |-> IF s = {} THEN 0 ELSE f[Taken(s)] + g[s \ {Taken(s)}]]

LEMMA SumIsFold ==
    ASSUME NEW f, NEW S
    PROVE  SumFunctionOnSet(f, S) = (CHOOSE g : IsFold(f, S, g))[S]
BY DEF SumFunctionOnSet, FoldFunctionOnSet, MapThenFoldSet, IsFold, Taken

LEMMA TakenIsElement == \A s : s # {} => Taken(s) \in s
BY DEF Taken

\* Folds over two sets agree on what the sets share.
LEMMA FoldsAgree ==
    ASSUME NEW f, NEW S, NEW R, NEW g, NEW h, IsFold(f, S, g), IsFold(f, R, h),
           IsFiniteSet(S), NEW t \in SUBSET S, t \subseteq R
    PROVE  g[t] = h[t]
<1> DEFINE T == {s \in SUBSET S : s \subseteq R /\ g[s] # h[s]}
<1> SUFFICES ASSUME T # {} PROVE FALSE
  OBVIOUS
<1>1. PICK m \in T : \A k \in T : ~(k \subseteq m /\ k # m)
  <2>1. T \in SUBSET (SUBSET S)
    OBVIOUS
  <2> HIDE DEF T
  <2> QED BY <2>1, SmallestSubset
<1>2. m \in SUBSET S /\ m \in SUBSET R /\ g[m] # h[m]
  BY <1>1
<1>3. /\ g[m] = IF m = {} THEN 0 ELSE f[Taken(m)] + g[m \ {Taken(m)}]
      /\ h[m] = IF m = {} THEN 0 ELSE f[Taken(m)] + h[m \ {Taken(m)}]
  BY <1>2 DEF IsFold
<1>4. CASE m = {}
  BY <1>2, <1>3, <1>4
<1>5. CASE m # {}
  <2>1. m \ {Taken(m)} \subseteq m /\ m \ {Taken(m)} # m
    BY <1>5, TakenIsElement
  <2>2. m \ {Taken(m)} \notin T
    BY <1>1, <2>1
  <2>3. g[m \ {Taken(m)}] = h[m \ {Taken(m)}]
    BY <1>2, <2>2
  <2> QED BY <1>2, <1>3, <1>5, <2>3
<1> QED BY <1>4, <1>5

\* The recursive definition defines something.
LEMMA FoldExists ==
    ASSUME NEW f, NEW S, IsFiniteSet(S)
    PROVE  \E g : IsFold(f, S, g)
<1> DEFINE T == {s \in SUBSET S : ~ \E g : IsFold(f, s, g)}
<1> SUFFICES ASSUME T # {} PROVE FALSE
  OBVIOUS
<1>1. PICK m \in T : \A k \in T : ~(k \subseteq m /\ k # m)
  <2>1. T \in SUBSET (SUBSET S)
    OBVIOUS
  <2> HIDE DEF T
  <2> QED BY <2>1, SmallestSubset
<1>2. m \subseteq S /\ ~ \E g : IsFold(f, m, g)
  BY <1>1
<1>3. IsFiniteSet(m)
  BY <1>2, FS_Subset
<1> DEFINE G(s) == CHOOSE g : IsFold(f, s, g)
           V(s) == G(s)[s]
           W(s) == IF s = {} THEN 0 ELSE f[Taken(s)] + V(s \ {Taken(s)})
           h == [s \in SUBSET m |-> W(s)]
<1>4. ASSUME NEW s \in SUBSET m, s # m
      PROVE  IsFold(f, s, G(s))
  <2>1. \E g : IsFold(f, s, g)
    BY <1>1, <1>2, <1>4
  <2> QED BY <2>1
<1>5. ASSUME NEW s \in SUBSET m, s # m
      PROVE  V(s) = W(s)
  <2>1. IsFold(f, s, G(s))
    BY <1>4, <1>5
  <2>2. V(s) = IF s = {} THEN 0 ELSE f[Taken(s)] + G(s)[s \ {Taken(s)}]
    BY <2>1 DEF IsFold
  <2>3. ASSUME s # {}
        PROVE  G(s)[s \ {Taken(s)}] = V(s \ {Taken(s)})
    <3> DEFINE r == s \ {Taken(s)}
    <3>1. r \in SUBSET s /\ r \in SUBSET m /\ r # m
      BY <1>5, <2>3, TakenIsElement
    <3>2. IsFold(f, r, G(r))
      BY <1>4, <3>1
    <3>3. IsFiniteSet(s) /\ IsFiniteSet(r)
      BY <1>3, <3>1, FS_Subset
    <3> HIDE DEF r, G
    <3>4. G(r)[r] = G(s)[r]
      BY <2>1, <3>1, <3>2, <3>3, FoldsAgree
    <3> QED BY <3>4 DEF r
  <2> QED BY <2>2, <2>3
<1>6. IsFold(f, m, h)
  <2>1. \A s \in SUBSET m : s # {} => h[s \ {Taken(s)}] = V(s \ {Taken(s)})
    <3> SUFFICES ASSUME NEW s \in SUBSET m, s # {} PROVE h[s \ {Taken(s)}] = V(s \ {Taken(s)})
      OBVIOUS
    <3>1. s \ {Taken(s)} \in SUBSET m /\ s \ {Taken(s)} # m
      BY TakenIsElement
    <3> HIDE DEF V, W
    <3> QED BY <1>5, <3>1
  <2> HIDE DEF V
  <2> QED BY <2>1 DEF IsFold
<1> QED BY <1>2, <1>6

\* The sum over a nonempty set is the value of one element and the sum of the rest.
LEMMA SumRecursion ==
    ASSUME NEW f, NEW S, IsFiniteSet(S)
    PROVE  SumFunctionOnSet(f, S) =
             IF S = {} THEN 0 ELSE f[Taken(S)] + SumFunctionOnSet(f, S \ {Taken(S)})
<1> DEFINE G(s) == CHOOSE g : IsFold(f, s, g)
           r == S \ {Taken(S)}
<1>1. IsFold(f, S, G(S))
  BY FoldExists
<1>2. IsFiniteSet(r)
  BY FS_Subset
<1>3. IsFold(f, r, G(r))
  BY <1>2, FoldExists
<1>4. SumFunctionOnSet(f, S) = G(S)[S] /\ SumFunctionOnSet(f, r) = G(r)[r]
  BY SumIsFold
<1>5. G(S)[S] = IF S = {} THEN 0 ELSE f[Taken(S)] + G(S)[r]
  BY <1>1 DEF IsFold
<1> HIDE DEF G
<1>6. G(r)[r] = G(S)[r]
  <2>1. r \subseteq S
    OBVIOUS
  <2> HIDE DEF r
  <2> QED BY <1>1, <1>2, <1>3, <2>1, FoldsAgree
<1> QED BY <1>4, <1>5, <1>6
-----------------------------------------------------------------------------
(* What callers need. *)

IntsOn(f, S) == \A x \in S : f[x] \in Int

NatsOn(f, S) == \A x \in S : f[x] \in Nat

\* Nothing sums to zero.
LEMMA SumEmpty ==
    ASSUME NEW f
    PROVE  SumFunctionOnSet(f, {}) = 0
BY SumRecursion, FS_EmptySet

\* A sum of integers is an integer.
LEMMA SumType ==
    ASSUME NEW f, NEW S, IsFiniteSet(S), IntsOn(f, S)
    PROVE  SumFunctionOnSet(f, S) \in Int
<1> DEFINE T == {s \in SUBSET S : SumFunctionOnSet(f, s) \notin Int}
<1> SUFFICES ASSUME T # {} PROVE FALSE
  OBVIOUS
<1>1. PICK m \in T : \A k \in T : ~(k \subseteq m /\ k # m)
  <2>1. T \in SUBSET (SUBSET S)
    OBVIOUS
  <2> HIDE DEF T
  <2> QED BY <2>1, SmallestSubset
<1>2. IsFiniteSet(m) /\ m \subseteq S
  BY <1>1, FS_Subset
<1>3. m # {}
  <2>1. SumFunctionOnSet(f, m) # 0
    BY <1>1
  <2> QED BY <2>1, SumEmpty, Zenon
<1>4. Taken(m) \in m /\ m \ {Taken(m)} # m /\ m \ {Taken(m)} \subseteq m
  BY <1>3, TakenIsElement
<1>5. SumFunctionOnSet(f, m \ {Taken(m)}) \in Int
  BY <1>1, <1>2, <1>4
<1>6. SumFunctionOnSet(f, m) = f[Taken(m)] + SumFunctionOnSet(f, m \ {Taken(m)})
  BY <1>2, <1>3, SumRecursion
<1> QED BY <1>1, <1>2, <1>4, <1>5, <1>6 DEF IntsOn

\* Any element may be taken out first.
LEMMA SumTake ==
    ASSUME NEW f, NEW S, IsFiniteSet(S), IntsOn(f, S), NEW x \in S
    PROVE  SumFunctionOnSet(f, S) = f[x] + SumFunctionOnSet(f, S \ {x})
<1> DEFINE T == {s \in SUBSET S :
                   \E y \in s : SumFunctionOnSet(f, s) # f[y] + SumFunctionOnSet(f, s \ {y})}
<1> SUFFICES ASSUME T # {} PROVE FALSE
  OBVIOUS
<1>1. PICK m \in T : \A k \in T : ~(k \subseteq m /\ k # m)
  <2>1. T \in SUBSET (SUBSET S)
    OBVIOUS
  <2> HIDE DEF T
  <2> QED BY <2>1, SmallestSubset
<1>2. PICK y \in m : SumFunctionOnSet(f, m) # f[y] + SumFunctionOnSet(f, m \ {y})
  BY <1>1
<1> DEFINE t == Taken(m)
<1>3. IsFiniteSet(m) /\ m \subseteq S /\ t \in m
  BY <1>1, <1>2, FS_Subset, TakenIsElement
<1>4. SumFunctionOnSet(f, m) = f[t] + SumFunctionOnSet(f, m \ {t})
  BY <1>2, <1>3, SumRecursion
<1>5. t # y
  BY <1>2, <1>4
<1> HIDE DEF t
<1>6. /\ IsFiniteSet(m \ {t}) /\ IsFiniteSet(m \ {y}) /\ IsFiniteSet((m \ {t}) \ {y})
      /\ (m \ {t}) \ {y} = (m \ {y}) \ {t}
  BY <1>3, FS_Subset
<1>7. SumFunctionOnSet(f, m \ {t}) = f[y] + SumFunctionOnSet(f, (m \ {t}) \ {y})
  <2>1. m \ {t} \notin T /\ y \in m \ {t} /\ m \ {t} \in SUBSET S
    BY <1>1, <1>2, <1>3, <1>5
  <2> QED BY <2>1
<1>8. SumFunctionOnSet(f, m \ {y}) = f[t] + SumFunctionOnSet(f, (m \ {y}) \ {t})
  <2>1. m \ {y} \notin T /\ t \in m \ {y} /\ m \ {y} \in SUBSET S
    BY <1>1, <1>2, <1>3, <1>5
  <2> QED BY <2>1
<1>9. /\ f[t] \in Int /\ f[y] \in Int
      /\ SumFunctionOnSet(f, (m \ {t}) \ {y}) \in Int
  BY <1>2, <1>3, <1>6, SumType DEF IntsOn
<1>10. SumFunctionOnSet(f, m \ {y}) = f[t] + SumFunctionOnSet(f, (m \ {t}) \ {y})
  BY <1>6, <1>8, Zenon
<1> QED BY <1>2, <1>4, <1>7, <1>9, <1>10

\* One more element adds its value.
LEMMA SumAdd ==
    ASSUME NEW f, NEW S, IsFiniteSet(S), NEW x, x \notin S, IntsOn(f, S \cup {x})
    PROVE  SumFunctionOnSet(f, S \cup {x}) = SumFunctionOnSet(f, S) + f[x]
<1>1. IsFiniteSet(S \cup {x}) /\ (S \cup {x}) \ {x} = S
  BY FS_AddElement
<1>2. SumFunctionOnSet(f, S) \in Int /\ f[x] \in Int
  BY SumType DEF IntsOn
<1>3. SumFunctionOnSet(f, S \cup {x}) = f[x] + SumFunctionOnSet(f, (S \cup {x}) \ {x})
  BY <1>1, SumTake
<1>4. SumFunctionOnSet(f, S \cup {x}) = f[x] + SumFunctionOnSet(f, S)
  BY <1>1, <1>3, Zenon
<1> QED BY <1>2, <1>4

\* Only the values on the set matter.
LEMMA SumSame ==
    ASSUME NEW f, NEW g, NEW S, IsFiniteSet(S), \A x \in S : f[x] = g[x]
    PROVE  SumFunctionOnSet(f, S) = SumFunctionOnSet(g, S)
<1> DEFINE T == {s \in SUBSET S : SumFunctionOnSet(f, s) # SumFunctionOnSet(g, s)}
<1> SUFFICES ASSUME T # {} PROVE FALSE
  OBVIOUS
<1>1. PICK m \in T : \A k \in T : ~(k \subseteq m /\ k # m)
  <2>1. T \in SUBSET (SUBSET S)
    OBVIOUS
  <2> HIDE DEF T
  <2> QED BY <2>1, SmallestSubset
<1>2. IsFiniteSet(m) /\ m \subseteq S
  BY <1>1, FS_Subset
<1>3. m # {}
  BY <1>1, SumEmpty
<1>4. Taken(m) \in m /\ m \ {Taken(m)} # m /\ m \ {Taken(m)} \subseteq m
  BY <1>3, TakenIsElement
<1>5. SumFunctionOnSet(f, m \ {Taken(m)}) = SumFunctionOnSet(g, m \ {Taken(m)})
  BY <1>1, <1>2, <1>4
<1>6. /\ SumFunctionOnSet(f, m) = f[Taken(m)] + SumFunctionOnSet(f, m \ {Taken(m)})
      /\ SumFunctionOnSet(g, m) = g[Taken(m)] + SumFunctionOnSet(g, m \ {Taken(m)})
  BY <1>2, <1>3, SumRecursion
<1> QED BY <1>1, <1>2, <1>4, <1>5, <1>6

\* Zeros sum to zero.
LEMMA SumZero ==
    ASSUME NEW f, NEW S, IsFiniteSet(S), \A x \in S : f[x] = 0
    PROVE  SumFunctionOnSet(f, S) = 0
<1> DEFINE T == {s \in SUBSET S : SumFunctionOnSet(f, s) # 0}
<1> SUFFICES ASSUME T # {} PROVE FALSE
  OBVIOUS
<1>1. PICK m \in T : \A k \in T : ~(k \subseteq m /\ k # m)
  <2>1. T \in SUBSET (SUBSET S)
    OBVIOUS
  <2> HIDE DEF T
  <2> QED BY <2>1, SmallestSubset
<1>2. IsFiniteSet(m) /\ m \subseteq S /\ SumFunctionOnSet(f, m) # 0
  BY <1>1, FS_Subset
<1>3. m # {}
  BY <1>2, SumEmpty, Zenon
<1>4. PICK x \in m : TRUE
  BY <1>3
<1>5. m \ {x} \notin T /\ m \ {x} \in SUBSET S
  BY <1>1, <1>2
<1>6. SumFunctionOnSet(f, m) = f[x] + SumFunctionOnSet(f, m \ {x})
  BY <1>2, SumTake DEF IntsOn
<1> QED BY <1>2, <1>5, <1>6

\* A change of one value changes the sum by as much.
LEMMA SumChange ==
    ASSUME NEW f, NEW g, NEW S, IsFiniteSet(S), NEW x \in S, IntsOn(f, S), g[x] \in Int,
           \A y \in S \ {x} : f[y] = g[y]
    PROVE  SumFunctionOnSet(g, S) = SumFunctionOnSet(f, S) + (g[x] - f[x])
<1>1. IsFiniteSet(S \ {x}) /\ IntsOn(g, S) /\ f[x] \in Int
  BY FS_Subset DEF IntsOn
<1>2. SumFunctionOnSet(f, S \ {x}) = SumFunctionOnSet(g, S \ {x})
  BY <1>1, SumSame
<1>3. /\ SumFunctionOnSet(f, S) = f[x] + SumFunctionOnSet(f, S \ {x})
      /\ SumFunctionOnSet(g, S) = g[x] + SumFunctionOnSet(g, S \ {x})
  BY <1>1, SumTake
<1>4. SumFunctionOnSet(f, S \ {x}) \in Int
  BY <1>1, SumType DEF IntsOn
<1> QED BY <1>1, <1>2, <1>3, <1>4

\* Sums add up value by value.
LEMMA SumPlus ==
    ASSUME NEW f, NEW g, NEW h, NEW S, IsFiniteSet(S), IntsOn(f, S), IntsOn(g, S),
           \A x \in S : h[x] = f[x] + g[x]
    PROVE  SumFunctionOnSet(h, S) = SumFunctionOnSet(f, S) + SumFunctionOnSet(g, S)
<1> DEFINE T == {s \in SUBSET S :
                   SumFunctionOnSet(h, s) # SumFunctionOnSet(f, s) + SumFunctionOnSet(g, s)}
<1> SUFFICES ASSUME T # {} PROVE FALSE
  OBVIOUS
<1>1. PICK m \in T : \A k \in T : ~(k \subseteq m /\ k # m)
  <2>1. T \in SUBSET (SUBSET S)
    OBVIOUS
  <2> HIDE DEF T
  <2> QED BY <2>1, SmallestSubset
<1>2. /\ IsFiniteSet(m) /\ m \subseteq S
      /\ SumFunctionOnSet(h, m) # SumFunctionOnSet(f, m) + SumFunctionOnSet(g, m)
  BY <1>1, FS_Subset
<1>3. m # {}
  <2> SUFFICES ASSUME m = {} PROVE FALSE
    OBVIOUS
  <2>1. /\ SumFunctionOnSet(h, m) = 0 /\ SumFunctionOnSet(f, m) = 0
        /\ SumFunctionOnSet(g, m) = 0
    BY SumEmpty, Zenon
  <2> QED BY <1>2, <2>1
<1>4. PICK x \in m : TRUE
  BY <1>3
<1>5. IsFiniteSet(m \ {x}) /\ m \ {x} \notin T /\ m \ {x} \in SUBSET S
  BY <1>1, <1>2, FS_Subset
<1>6. /\ IntsOn(f, m) /\ IntsOn(g, m) /\ IntsOn(h, m) /\ h[x] = f[x] + g[x]
      /\ IntsOn(f, m \ {x}) /\ IntsOn(g, m \ {x}) /\ f[x] \in Int /\ g[x] \in Int
  BY <1>2 DEF IntsOn
<1>7. /\ SumFunctionOnSet(f, m) = f[x] + SumFunctionOnSet(f, m \ {x})
      /\ SumFunctionOnSet(g, m) = g[x] + SumFunctionOnSet(g, m \ {x})
      /\ SumFunctionOnSet(h, m) = h[x] + SumFunctionOnSet(h, m \ {x})
  BY <1>2, <1>6, SumTake
<1>8. SumFunctionOnSet(f, m \ {x}) \in Int /\ SumFunctionOnSet(g, m \ {x}) \in Int
  BY <1>5, <1>6, SumType
<1> QED BY <1>2, <1>5, <1>6, <1>7, <1>8

\* A sum of natural numbers is one, and no part of it is larger.
LEMMA SumOfPart ==
    ASSUME NEW f, NEW S, IsFiniteSet(S), NatsOn(f, S), NEW R \in SUBSET S
    PROVE  /\ SumFunctionOnSet(f, R) \in Nat
           /\ SumFunctionOnSet(f, R) <= SumFunctionOnSet(f, S)
<1>0. IntsOn(f, S)
  BY DEF IntsOn, NatsOn
<1> DEFINE T == {s \in SUBSET S : \/ SumFunctionOnSet(f, s) \notin Nat
                                  \/ \E q \in SUBSET s :
                                        ~(SumFunctionOnSet(f, q) <= SumFunctionOnSet(f, s))}
<1>t. S \notin T /\ R \notin T
  <2> SUFFICES ASSUME T # {} PROVE FALSE
    OBVIOUS
  <2>1. PICK m \in T : \A k \in T : ~(k \subseteq m /\ k # m)
    <3>1. T \in SUBSET (SUBSET S)
      OBVIOUS
    <3> HIDE DEF T
    <3> QED BY <3>1, SmallestSubset
  <2>2. IsFiniteSet(m) /\ m \subseteq S /\ SumFunctionOnSet(f, m) \in Int
    BY <1>0, <2>1, FS_Subset, SumType DEF IntsOn
  <2>3. ASSUME NEW q \in SUBSET m, q # m
        PROVE  SumFunctionOnSet(f, m) \in Nat /\ SumFunctionOnSet(f, q) <= SumFunctionOnSet(f, m)
    <3>1. PICK x \in m : x \notin q
      BY <2>3
    <3>2. SumFunctionOnSet(f, m) = f[x] + SumFunctionOnSet(f, m \ {x})
      BY <1>0, <2>2, SumTake DEF IntsOn
    <3>3. m \ {x} \notin T /\ m \ {x} \in SUBSET S /\ q \in SUBSET (m \ {x})
      BY <2>1, <2>2, <2>3, <3>1
    <3>4. /\ SumFunctionOnSet(f, m \ {x}) \in Nat
          /\ SumFunctionOnSet(f, q) <= SumFunctionOnSet(f, m \ {x})
      BY <3>3
    <3>5. f[x] \in Nat
      BY <2>2 DEF NatsOn
    <3>6. SumFunctionOnSet(f, q) \in Int
      BY <1>0, <2>2, <2>3, FS_Subset, SumType DEF IntsOn
    <3> QED BY <3>2, <3>4, <3>5, <3>6
  <2>4. SumFunctionOnSet(f, m) \in Nat
    <3>1. CASE m = {}
      <4>1. SumFunctionOnSet(f, m) = 0
        BY <3>1, SumEmpty, Zenon
      <4> QED BY <4>1
    <3>2. CASE m # {}
      <4>1. {} \in SUBSET m
        OBVIOUS
      <4> QED BY <2>3, <3>2, <4>1, Zenon
    <3> QED BY <3>1, <3>2
  <2>5. \A q \in SUBSET m : SumFunctionOnSet(f, q) <= SumFunctionOnSet(f, m)
    BY <2>3, <2>4
  <2> QED BY <2>1, <2>4, <2>5
<1> QED BY <1>t
=============================================================================
