----------------------------- MODULE SumTheorems -----------------------------
(***************************************************************************)
(* Facts about SumFunctionOnSet, the sum of a function's values over a      *)
(* finite set: what a budget, a stock, a capacity or a lot is counted with. *)
(* The sum is a recursive function; what it does for every finite set       *)
(* follows by looking at a smallest set for which it would not.             *)
(***************************************************************************)
EXTENDS Integers, FiniteSets, Functions, FiniteSetTheorems, WellFoundedInduction, TLAPS

\* Every set of natural numbers with elements has a least one.
LEMMA LeastNumber ==
  ASSUME NEW S \in SUBSET Nat, S # {}
  PROVE  \E x \in S : \A y \in S : x <= y
PROOF
  <1> DEFINE R == OpToRel(<, Nat)
  <1>1. IsWellFoundedOn(R, Nat) /\ R = {ss \in Nat \X Nat : ss[1] < ss[2]}
    BY NatLessThanWellFounded DEF OpToRel
  <1> HIDE DEF R
  <1>2. PICK x \in S : \A y \in S : <<y, x>> \notin R
    BY <1>1, WFMin
  <1>3. ASSUME NEW y \in S PROVE x <= y
    <2>1. <<y, x>> \in Nat \X Nat /\ ~(y < x)
      BY <1>1, <1>2
    <2> QED BY <2>1
  <1> QED
    BY <1>3

\* Of the sets among the subsets of a finite set, one has no other one inside it.
LEMMA MinimalSubset ==
  ASSUME NEW S, IsFiniteSet(S), NEW B \in SUBSET SUBSET S, B # {}
  PROVE  \E T \in B : \A U \in B : U \subseteq T => U = T
PROOF
  <1>1. B \subseteq FiniteSubsetsOf(S)
    BY FS_Subset DEF FiniteSubsetsOf
  <1>2. PICK T \in B : \A U \in B : <<U, T>> \notin StrictSubsetOrdering(S)
    BY <1>1, FS_StrictSubsetOrderingWellFounded, WFMin
  <1> QED
    BY <1>2 DEF StrictSubsetOrdering

\* The element a sum over s takes first.
Taken(s) == CHOOSE x \in s : TRUE
\* g sums f over every subset of T, one element at a time.
Sums(g, f, T) ==
  g = [s \in SUBSET T |-> IF s = {} THEN 0 ELSE f[Taken(s)] + g[s \ {Taken(s)}]]

\* The sum over S is what a function that sums over all subsets of S gives for S.
LEMMA SumDef ==
  ASSUME NEW f, NEW S
  PROVE SumFunctionOnSet(f, S) = (CHOOSE g : Sums(g, f, S))[S]
  BY DEF SumFunctionOnSet, FoldFunctionOnSet, MapThenFoldSet, Sums, Taken

\* What is taken from a set with elements is one of them.
LEMMA PickIn == \A s : s # {} => Taken(s) \in s
  BY DEF Taken

\* Two functions that sum over the subsets of two sets agree on what both cover.
LEMMA SumsAgree ==
  ASSUME NEW f, NEW S, IsFiniteSet(S), NEW T, NEW g, NEW h,
         Sums(g, f, S), Sums(h, f, T)
  PROVE \A s \in SUBSET (S \cap T) : g[s] = h[s]
PROOF
  <1> DEFINE B == {s \in SUBSET (S \cap T) : g[s] # h[s]}
  <1> SUFFICES ASSUME B # {} PROVE FALSE
    OBVIOUS
  <1>1. IsFiniteSet(S \cap T)
    BY FS_Subset
  <1>2. PICK s \in B : \A U \in B : U \subseteq s => U = s
    <2> HIDE DEF B
    <2>1. B \in SUBSET SUBSET (S \cap T)
      BY DEF B
    <2> QED BY <1>1, <2>1, MinimalSubset
  <1>3. s # {}
    BY DEF Sums
  <1> DEFINE r == s \ {Taken(s)}
  <1>4. r \subseteq s /\ r # s
    BY <1>3, PickIn
  <1>5. g[r] = h[r]
    BY <1>2, <1>4
  <1>6. g[s] = f[Taken(s)] + g[r] /\ h[s] = f[Taken(s)] + h[r]
    BY <1>3 DEF Sums
  <1> QED
    BY <1>2, <1>5, <1>6

\* Every finite set has such a function.
LEMMA SumsExist ==
  ASSUME NEW f, NEW S, IsFiniteSet(S)
  PROVE  \E g : Sums(g, f, S)
PROOF
  <1> DEFINE B == {T \in SUBSET S : ~ \E g : Sums(g, f, T)}
  <1> SUFFICES ASSUME B # {} PROVE FALSE
    OBVIOUS
  <1>1. PICK T \in B : \A U \in B : U \subseteq T => U = T
    <2> HIDE DEF B
    <2>1. B \in SUBSET SUBSET S
      BY DEF B
    <2> QED BY <2>1, MinimalSubset
  <1>2. \A U \in SUBSET T : IsFiniteSet(U)
    BY FS_Subset
  <1> DEFINE Of(U) == CHOOSE g : Sums(g, f, U)
             h == [s \in SUBSET T |-> IF s = {} THEN 0 ELSE f[Taken(s)] + Of(s \ {Taken(s)})[s \ {Taken(s)}]]
  <1>3. \A U \in SUBSET T : U # T => Sums(Of(U), f, U)
    BY <1>1
  <1>4. ASSUME NEW s \in SUBSET T, s # T PROVE h[s] = Of(s)[s]
    <2> DEFINE r == s \ {Taken(s)}
    <2>1. CASE s = {}
      <3>1. Sums(Of(s), f, s)
        BY <1>3, <1>4
      <3> HIDE DEF Of
      <3> QED BY <2>1, <3>1 DEF Sums
    <2>2. CASE s # {}
      <3>1. Taken(s) \in s /\ r \subseteq s /\ r # T /\ r \in SUBSET T
        BY <1>4, <2>2, PickIn
      <3>2. Sums(Of(s), f, s) /\ Sums(Of(r), f, r)
        BY <1>3, <1>4, <3>1
      <3> HIDE DEF Of
      <3>3. Of(s)[r] = Of(r)[r]
        BY <1>2, <3>1, <3>2, SumsAgree, r \in SUBSET (s \cap r)
      <3>4. Of(s)[s] = f[Taken(s)] + Of(s)[r]
        BY <2>2, <3>2 DEF Sums
      <3> QED BY <2>2, <3>3, <3>4
    <2> QED BY <2>1, <2>2
  <1>5. Sums(h, f, T)
    <2> HIDE DEF Of
    <2>1. ASSUME NEW s \in SUBSET T, s # {}
          PROVE h[s \ {Taken(s)}] = Of(s \ {Taken(s)})[s \ {Taken(s)}]
      <3>1. Taken(s) \in s
         BY <2>1, PickIn
      <3> QED BY <3>1, <1>4, s \ {Taken(s)} \in SUBSET T, s \ {Taken(s)} # T
    <2>2. \A s \in SUBSET T : s # {} => h[s] = f[Taken(s)] + h[s \ {Taken(s)}]
      BY <2>1
    <2>3. h[{}] = 0
      OBVIOUS
    <2> HIDE DEF h
    <2>4. h = [s \in SUBSET T |-> h[s]]
      BY DEF h
    <2> QED BY <2>2, <2>3, <2>4 DEF Sums
  <1> QED
    BY <1>1, <1>5
-----------------------------------------------------------------------------
\* A sum takes one element and goes on with the rest.
LEMMA SumStep ==
  ASSUME NEW f, NEW S, IsFiniteSet(S)
  PROVE  SumFunctionOnSet(f, S) =
            IF S = {} THEN 0
            ELSE f[Taken(S)] + SumFunctionOnSet(f, S \ {Taken(S)})
PROOF
  <1> DEFINE Of(U) == CHOOSE g : Sums(g, f, U)
             r == S \ {Taken(S)}
  <1>1. IsFiniteSet(r) /\ r \in SUBSET (S \cap r)
    BY FS_Subset
  <1>2. Sums(Of(S), f, S) /\ Sums(Of(r), f, r)
    BY <1>1, SumsExist
  <1>3. SumFunctionOnSet(f, S) = Of(S)[S] /\ SumFunctionOnSet(f, r) = Of(r)[r]
    BY SumDef
  <1> HIDE DEF Of, r
  <1>4. Of(S)[r] = Of(r)[r]
    <2>1. \A s \in SUBSET (S \cap r) : Of(S)[s] = Of(r)[s]
      BY <1>2, SumsAgree
    <2> QED BY <1>1, <2>1
  <1>5. Of(S)[S] = IF S = {} THEN 0 ELSE f[Taken(S)] + Of(S)[r]
    BY <1>2 DEF Sums, r
  <1> QED
    BY <1>3, <1>4, <1>5 DEF r

\* What nothing was booked on has a sum of zero.
LEMMA SumEmpty ==
  ASSUME NEW f
  PROVE  SumFunctionOnSet(f, {}) = 0
  BY FS_EmptySet, SumStep

\* Only the values on the set matter: a change of state elsewhere leaves a sum alone.
LEMMA SumEqual ==
  ASSUME NEW f, NEW h, NEW S, IsFiniteSet(S), \A x \in S : f[x] = h[x]
  PROVE  SumFunctionOnSet(f, S) = SumFunctionOnSet(h, S)
PROOF
  <1> DEFINE B == {T \in SUBSET S : SumFunctionOnSet(f, T) # SumFunctionOnSet(h, T)}
  <1> SUFFICES ASSUME B # {} PROVE FALSE
    OBVIOUS
  <1>1. PICK T \in B : \A U \in B : U \subseteq T => U = T
    <2> HIDE DEF B
    <2>1. B \in SUBSET SUBSET S
      BY DEF B
    <2> QED BY <2>1, MinimalSubset
  <1>2. IsFiniteSet(T)
    BY FS_Subset
  <1>3. T # {}
    BY SumEmpty
  <1>4. Taken(T) \in T
    BY <1>3, PickIn
  <1> DEFINE r == T \ {Taken(T)}
  <1>5. SumFunctionOnSet(f, r) = SumFunctionOnSet(h, r)
    BY <1>1, <1>4
  <1>6. SumFunctionOnSet(f, T) = f[Taken(T)] + SumFunctionOnSet(f, r)
        /\ SumFunctionOnSet(h, T) = h[Taken(T)] + SumFunctionOnSet(h, r)
    BY <1>2, <1>3, SumStep
  <1>7. f[Taken(T)] = h[Taken(T)]
    BY <1>4
  <1> QED
    BY <1>1, <1>5, <1>6, <1>7

\* Quantities add up to a quantity.
LEMMA SumType ==
  ASSUME NEW S, IsFiniteSet(S), NEW f, \A x \in S : f[x] \in Nat
  PROVE  SumFunctionOnSet(f, S) \in Nat
PROOF
  <1> DEFINE B == {T \in SUBSET S : SumFunctionOnSet(f, T) \notin Nat}
  <1> SUFFICES ASSUME B # {} PROVE FALSE
    OBVIOUS
  <1>1. PICK T \in B : \A U \in B : U \subseteq T => U = T
    <2> HIDE DEF B
    <2>1. B \in SUBSET SUBSET S
      BY DEF B
    <2> QED BY <2>1, MinimalSubset
  <1>2. IsFiniteSet(T)
    BY FS_Subset
  <1>3. T # {}
    BY SumEmpty
  <1>4. Taken(T) \in T
    BY <1>3, PickIn
  <1>5. SumFunctionOnSet(f, T \ {Taken(T)}) \in Nat
    BY <1>1, <1>4
  <1>6. SumFunctionOnSet(f, T) = f[Taken(T)] + SumFunctionOnSet(f, T \ {Taken(T)})
    BY <1>2, <1>3, SumStep
  <1> QED
    BY <1>1, <1>4, <1>5, <1>6

\* A sum is any one of its elements and the sum of the others: its order does not matter.
LEMMA SumRemove ==
  ASSUME NEW S, IsFiniteSet(S), NEW f, \A y \in S : f[y] \in Nat, NEW x \in S
  PROVE  SumFunctionOnSet(f, S) = f[x] + SumFunctionOnSet(f, S \ {x})
PROOF
  <1> DEFINE B == {T \in SUBSET S : \E z \in T :
                     SumFunctionOnSet(f, T) # f[z] + SumFunctionOnSet(f, T \ {z})}
  <1> SUFFICES ASSUME B # {} PROVE FALSE
    OBVIOUS
  <1>1. PICK T \in B : \A U \in B : U \subseteq T => U = T
    <2> HIDE DEF B
    <2>1. B \in SUBSET SUBSET S
      BY DEF B
    <2> QED BY <2>1, MinimalSubset
  <1>2. PICK z \in T : SumFunctionOnSet(f, T) # f[z] + SumFunctionOnSet(f, T \ {z})
    BY <1>1
  <1> DEFINE p == Taken(T)
             both == (T \ {p}) \ {z}
  <1>3. IsFiniteSet(T) /\ IsFiniteSet(both) /\ both = (T \ {z}) \ {p}
    BY FS_Subset
  <1>4. p \in T /\ SumFunctionOnSet(f, T) = f[p] + SumFunctionOnSet(f, T \ {p})
    BY <1>2, <1>3, SumStep, PickIn
  <1>5. z # p
    BY <1>2, <1>4
  <1>6. SumFunctionOnSet(f, T \ {p}) = f[z] + SumFunctionOnSet(f, both)
    BY <1>1, <1>4, <1>5, T \ {p} \notin B, z \in T \ {p}
  <1>7. SumFunctionOnSet(f, T \ {z}) = f[p] + SumFunctionOnSet(f, both)
    BY <1>1, <1>2, <1>3, <1>4, <1>5, T \ {z} \notin B, p \in T \ {z}
  <1>8. SumFunctionOnSet(f, both) \in Nat /\ f[p] \in Nat /\ f[z] \in Nat
    <2>1. \A y \in both : f[y] \in Nat
       OBVIOUS
    <2>2. SumFunctionOnSet(f, both) \in Nat
       BY <1>3, <2>1, SumType
    <2> QED BY <1>4, <2>2
  <1> HIDE DEF p, both
  <1> QED
    BY <1>2, <1>4, <1>6, <1>7, <1>8

\* Nothing booked anywhere sums to nothing.
LEMMA SumZero ==
  ASSUME NEW S, IsFiniteSet(S), NEW f, \A x \in S : f[x] = 0
  PROVE  SumFunctionOnSet(f, S) = 0
PROOF
  <1> DEFINE B == {T \in SUBSET S : SumFunctionOnSet(f, T) # 0}
  <1> SUFFICES ASSUME B # {} PROVE FALSE
    OBVIOUS
  <1>1. PICK T \in B : \A U \in B : U \subseteq T => U = T
    <2> HIDE DEF B
    <2>1. B \in SUBSET SUBSET S
      BY DEF B
    <2> QED BY <2>1, MinimalSubset
  <1>2. IsFiniteSet(T) /\ \A y \in T : f[y] \in Nat
    BY FS_Subset
  <1>3. PICK x \in T : TRUE
    BY SumEmpty
  <1>4. SumFunctionOnSet(f, T) = f[x] + SumFunctionOnSet(f, T \ {x})
    BY <1>2, <1>3, SumRemove
  <1>5. SumFunctionOnSet(f, T \ {x}) = 0
    BY <1>1, <1>3, T \ {x} \notin B
  <1> QED
    BY <1>1, <1>3, <1>4, <1>5

\* One more operation, claim or delivery adds exactly its own amount.
LEMMA SumAdd ==
  ASSUME NEW S, IsFiniteSet(S), NEW x, x \notin S, NEW f, \A y \in S \cup {x} : f[y] \in Nat
  PROVE  SumFunctionOnSet(f, S \cup {x}) = SumFunctionOnSet(f, S) + f[x]
PROOF
  <1>1. IsFiniteSet(S \cup {x}) /\ (S \cup {x}) \ {x} = S
    BY FS_AddElement
  <1>2. SumFunctionOnSet(f, S) \in Nat
    BY SumType
  <1>3. SumFunctionOnSet(f, S \cup {x}) = f[x] + SumFunctionOnSet(f, S)
    BY <1>1, SumRemove
  <1> QED
    BY <1>2, <1>3

\* What is reserved less often is not more: a sum over fewer elements is no larger.
LEMMA SumSubset ==
  ASSUME NEW S, IsFiniteSet(S), NEW f, \A y \in S : f[y] \in Nat, NEW T \in SUBSET S
  PROVE  SumFunctionOnSet(f, T) <= SumFunctionOnSet(f, S)
PROOF
  <1> DEFINE B == {U \in SUBSET S : T \subseteq U /\ ~(SumFunctionOnSet(f, T) <= SumFunctionOnSet(f, U))}
  <1> SUFFICES ASSUME B # {} PROVE FALSE
    OBVIOUS
  <1>1. PICK U \in B : \A V \in B : V \subseteq U => V = U
    <2> HIDE DEF B
    <2>1. B \in SUBSET SUBSET S
      BY DEF B
    <2> QED BY <2>1, MinimalSubset
  <1>2. /\ SumFunctionOnSet(f, T) \in Nat /\ SumFunctionOnSet(f, U) \in Nat
        /\ IsFiniteSet(U)
    BY FS_Subset, SumType
  <1>3. PICK x \in U : x \notin T
    BY <1>2, U # T
  <1>4. SumFunctionOnSet(f, U) = f[x] + SumFunctionOnSet(f, U \ {x})
    BY <1>2, <1>3, SumRemove
  <1>5. SumFunctionOnSet(f, T) <= SumFunctionOnSet(f, U \ {x})
    BY <1>1, <1>3, U \ {x} \notin B
  <1>6. SumFunctionOnSet(f, U \ {x}) \in Nat /\ f[x] \in Nat
    <2>1. IsFiniteSet(U \ {x})
      BY <1>2, FS_Subset
    <2> QED BY <2>1, SumType
  <1> QED
    BY <1>2, <1>4, <1>5, <1>6
=============================================================================
