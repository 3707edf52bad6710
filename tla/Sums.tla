-------------------------------- MODULE Sums --------------------------------
(***************************************************************************)
(* What SumFunctionOnSet computes, the sum of f[x] for x in a finite set,  *)
(* and the induction that shows it.  The induction is over a family of     *)
(* sets, not over a predicate, so that every use of it is first-order.     *)
(***************************************************************************)
EXTENDS Integers, Functions, FiniteSetTheorems, WellFoundedInduction, TLAPS

\* The element of T that is added first.
Pick(T) == CHOOSE x \in T : TRUE

\* One step of the recursion by which the fold is defined.
Step(g, f, T) == IF T = {} THEN 0 ELSE f[Pick(T)] + g[T \ {Pick(T)}]

\* g holds the sums of f over all subsets of S.
Solves(g, f, S) == g = [T \in SUBSET S |-> Step(g, f, T)]

-----------------------------------------------------------------------------
(* Induction *)

\* Of a family of subsets of S, one has no other of the family inside it.
LEMMA SmallestSet ==
  ASSUME NEW S, IsFiniteSet(S), NEW F \in SUBSET (SUBSET S), F # {}
  PROVE  \E M \in F : \A T \in F : T \subseteq M => T = M
<1>1. IsWellFoundedOn(StrictSubsetOrdering(S), SUBSET S)
  BY FS_StrictSubsetOrderingWellFounded, FS_FiniteSubsetsOfFinite
<1>2. PICK M \in F : \A T \in F : <<T, M>> \notin StrictSubsetOrdering(S)
  BY <1>1, WFMin
<1> QED
  BY <1>2 DEF StrictSubsetOrdering

\* A family that has the empty set, and with T also T and one more element of S,
\* has S.
THEOREM SetInduction ==
  ASSUME NEW S, IsFiniteSet(S), NEW F,
         {} \in F,
         \A T \in SUBSET S : T \in F => \A x \in S \ T : T \cup {x} \in F
  PROVE  S \in F
<1> DEFINE Bad == {T \in SUBSET S : T \notin F}
<1> SUFFICES ASSUME Bad # {} PROVE FALSE
  OBVIOUS
<1>1. PICK M \in Bad : \A T \in Bad : T \subseteq M => T = M
  <2> HIDE DEF Bad
  <2>1. Bad \in SUBSET (SUBSET S)
    BY DEF Bad
  <2> QED
    BY <2>1, SmallestSet
<1>2. PICK x : x \in M
  OBVIOUS
<1>3. M \ {x} \in F /\ (M \ {x}) \cup {x} = M
  BY <1>1, <1>2
<1> QED
  BY <1>2, <1>3

-----------------------------------------------------------------------------
(* The recursion has one solution *)

LEMMA PickIsElement == \A T : T # {} => Pick(T) \in T
BY DEF Pick

\* Two solutions agree where both are defined.
LEMMA SolutionsAgree ==
  ASSUME NEW f, NEW S, IsFiniteSet(S), NEW U \in SUBSET S, NEW g, NEW h,
         Solves(g, f, S), Solves(h, f, U)
  PROVE  \A T \in SUBSET U : g[T] = h[T]
<1> DEFINE Bad == {T \in SUBSET U : g[T] # h[T]}
<1> SUFFICES ASSUME Bad # {} PROVE FALSE
  OBVIOUS
<1>1. PICK M \in Bad : \A T \in Bad : T \subseteq M => T = M
  <2> HIDE DEF Bad
  <2>1. Bad \in SUBSET (SUBSET S)
    BY DEF Bad
  <2> QED
    BY <2>1, SmallestSet
<1>2. g[M] = Step(g, f, M) /\ h[M] = Step(h, f, M)
  BY DEF Solves
<1>3. M # {}
  BY <1>2 DEF Step
<1>4. g[M \ {Pick(M)}] = h[M \ {Pick(M)}]
  BY <1>1, <1>3, PickIsElement
<1> QED
  BY <1>2, <1>3, <1>4 DEF Step

\* There is a solution.
LEMMA SolutionExists ==
  ASSUME NEW f, NEW S, IsFiniteSet(S)
  PROVE  \E g : Solves(g, f, S)
<1> DEFINE Bad == {T \in SUBSET S : ~ \E g : Solves(g, f, T)}
<1> SUFFICES ASSUME Bad # {} PROVE FALSE
  OBVIOUS
<1>1. PICK M \in Bad : \A T \in Bad : T \subseteq M => T = M
  <2> HIDE DEF Bad
  <2>1. Bad \in SUBSET (SUBSET S)
    BY DEF Bad
  <2> QED
    BY <2>1, SmallestSet
<1> DEFINE sol(T) == CHOOSE h : Solves(h, f, T)
           rest(T) == T \ {Pick(T)}
           g == [T \in SUBSET M |->
                  IF T = {} THEN 0 ELSE f[Pick(T)] + sol(rest(T))[rest(T)]]
<1>2. ASSUME NEW T \in SUBSET M, T # M
      PROVE  Solves(sol(T), f, T)
  BY <1>1, <1>2
<1>3. ASSUME NEW T \in SUBSET M, T # {}
      PROVE  rest(T) \in SUBSET M /\ rest(T) \in SUBSET T /\ rest(T) # M
  BY <1>3, PickIsElement
<1>4. ASSUME NEW T \in SUBSET M, T # M
      PROVE  g[T] = sol(T)[T]
  <2>1. Solves(sol(T), f, T) /\ IsFiniteSet(T)
    BY <1>2, <1>4, FS_Subset
  <2>2. sol(T)[T] = Step(sol(T), f, T)
    BY <2>1 DEF Solves
  <2>3. CASE T = {}
    BY <2>2, <2>3 DEF Step
  <2>4. CASE T # {}
    <3>1. Solves(sol(rest(T)), f, rest(T)) /\ rest(T) \in SUBSET T
      BY <1>2, <1>3, <2>4
    <3>2. sol(T)[rest(T)] = sol(rest(T))[rest(T)]
      <4> HIDE DEF sol, rest
      <4> QED
        BY <2>1, <3>1, SolutionsAgree
    <3> QED
      BY <2>2, <2>4, <3>2 DEF Step
  <2> QED
    BY <2>3, <2>4
<1>5. ASSUME NEW T \in SUBSET M
      PROVE  g[T] = Step(g, f, T)
  <2>1. CASE T = {}
    BY <2>1 DEF Step
  <2>2. CASE T # {}
    <3>1. g[rest(T)] = sol(rest(T))[rest(T)]
      <4> HIDE DEF g, sol, rest
      <4> QED
        BY <1>3, <1>4, <2>2
    <3> QED
      BY <2>2, <3>1 DEF Step
  <2> QED
    BY <2>1, <2>2
<1>6. Solves(g, f, M)
  BY <1>5 DEF Solves
<1> QED
  BY <1>6

-----------------------------------------------------------------------------
(* Sums *)

\* The fold of the library is the value of a solution.
LEMMA SumUnfolds ==
  ASSUME NEW f, NEW S
  PROVE  SumFunctionOnSet(f, S) = (CHOOSE g : Solves(g, f, S))[S]
BY DEF SumFunctionOnSet, FoldFunctionOnSet, MapThenFoldSet, Solves, Step, Pick

\* Any solution has the sums of all subsets.
LEMMA SolutionIsSum ==
  ASSUME NEW f, NEW S, IsFiniteSet(S), NEW g, Solves(g, f, S), NEW T \in SUBSET S
  PROVE  g[T] = SumFunctionOnSet(f, T)
<1>1. IsFiniteSet(T)
  BY FS_Subset
<1> DEFINE h == CHOOSE k : Solves(k, f, T)
<1>2. Solves(h, f, T)
  BY <1>1, SolutionExists
<1>3. SumFunctionOnSet(f, T) = h[T]
  BY SumUnfolds
<1> HIDE DEF h
<1> QED
  BY <1>2, <1>3, SolutionsAgree

\* The empty sum.
LEMMA SumEmpty == \A f : SumFunctionOnSet(f, {}) = 0
<1> TAKE f
<1>1. PICK g : Solves(g, f, {})
  BY FS_EmptySet, SolutionExists
<1>2. g[{}] = Step(g, f, {})
  BY <1>1 DEF Solves
<1> QED
  BY <1>1, <1>2, FS_EmptySet, SolutionIsSum DEF Step

\* The recursion, stated for the sum.
LEMMA SumPick ==
  ASSUME NEW f, NEW S, IsFiniteSet(S), S # {}
  PROVE  SumFunctionOnSet(f, S) = f[Pick(S)] + SumFunctionOnSet(f, S \ {Pick(S)})
<1>1. PICK g : Solves(g, f, S)
  BY SolutionExists
<1> DEFINE rest == S \ {Pick(S)}
<1>2. rest \in SUBSET S /\ S \in SUBSET S
  OBVIOUS
<1>3. g[S] = Step(g, f, S)
  BY <1>1 DEF Solves
<1>4. g[S] = f[Pick(S)] + g[rest]
  BY <1>3 DEF Step
<1> HIDE DEF rest
<1>5. g[S] = SumFunctionOnSet(f, S) /\ g[rest] = SumFunctionOnSet(f, rest)
  BY ZenonT(40), <1>1, <1>2, SolutionIsSum
<1> QED
  BY <1>4, <1>5 DEF rest

\* A sum of integers is one, and of naturals too.
LEMMA SumIsInt ==
  ASSUME NEW S, IsFiniteSet(S), NEW f, \A x \in S : f[x] \in Int
  PROVE  SumFunctionOnSet(f, S) \in Int
<1> DEFINE Bad == {T \in SUBSET S : SumFunctionOnSet(f, T) \notin Int}
<1> SUFFICES ASSUME Bad # {} PROVE FALSE
  OBVIOUS
<1>1. PICK M \in Bad : \A T \in Bad : T \subseteq M => T = M
  <2> HIDE DEF Bad
  <2>1. Bad \in SUBSET (SUBSET S)
    BY DEF Bad
  <2> QED
    BY <2>1, SmallestSet
<1>2. IsFiniteSet(M) /\ M # {}
  <2>1. IsFiniteSet(M)
    BY FS_Subset
  <2>2. M # {}
    BY SumEmpty
  <2> QED
    BY <2>1, <2>2
<1>3. SumFunctionOnSet(f, M) = f[Pick(M)] + SumFunctionOnSet(f, M \ {Pick(M)})
  BY <1>2, SumPick
<1>4. Pick(M) \in S /\ M \ {Pick(M)} \notin Bad /\ M \ {Pick(M)} \in SUBSET S
  BY <1>1, <1>2, PickIsElement
<1> QED
  BY <1>3, <1>4

\* Any element may be taken out: it does not matter in which order a sum is made.
THEOREM SumRemove ==
  ASSUME NEW S, IsFiniteSet(S), NEW f, \A y \in S : f[y] \in Int, NEW x \in S
  PROVE  SumFunctionOnSet(f, S) = f[x] + SumFunctionOnSet(f, S \ {x})
<1> DEFINE Bad == {T \in SUBSET S :
                    \E y \in T : SumFunctionOnSet(f, T) # f[y] + SumFunctionOnSet(f, T \ {y})}
<1> SUFFICES ASSUME Bad # {} PROVE FALSE
  OBVIOUS
<1>1. PICK M \in Bad : \A T \in Bad : T \subseteq M => T = M
  <2> HIDE DEF Bad
  <2>1. Bad \in SUBSET (SUBSET S)
    BY DEF Bad
  <2> QED
    BY <2>1, SmallestSet
<1>2. PICK y \in M : SumFunctionOnSet(f, M) # f[y] + SumFunctionOnSet(f, M \ {y})
  OBVIOUS
<1> DEFINE p == Pick(M)
           rest == (M \ {p}) \ {y}
<1>3. IsFiniteSet(M) /\ p \in M /\ M \in SUBSET S
  BY FS_Subset, PickIsElement
<1>4. SumFunctionOnSet(f, M) = f[p] + SumFunctionOnSet(f, M \ {p})
  BY <1>3, SumPick
<1>5. p # y
  BY <1>2, <1>4
<1>6. SumFunctionOnSet(f, M \ {p}) = f[y] + SumFunctionOnSet(f, rest)
  <2>1. M \ {p} \notin Bad /\ M \ {p} \in SUBSET S /\ y \in M \ {p}
    BY <1>1, <1>3, <1>5
  <2> QED
    BY <2>1
<1>7. SumFunctionOnSet(f, M \ {y}) = f[p] + SumFunctionOnSet(f, rest)
  <2>1. M \ {y} \notin Bad /\ M \ {y} \in SUBSET S /\ p \in M \ {y}
    BY <1>1, <1>3, <1>5
  <2>2. rest = (M \ {y}) \ {p}
    OBVIOUS
  <2> QED
    BY <2>1, <2>2
<1>8. f[p] \in Int /\ f[y] \in Int /\ SumFunctionOnSet(f, rest) \in Int
  <2>1. rest \in SUBSET S
    BY <1>3
  <2>2. IsFiniteSet(rest) /\ \A z \in rest : f[z] \in Int
    BY <2>1, FS_Subset
  <2> QED
    BY <1>3, <2>2, SumIsInt
<1> HIDE DEF p, rest
<1> QED
  BY <1>2, <1>4, <1>6, <1>7, <1>8

\* One more element.
LEMMA SumAdd ==
  ASSUME NEW S, IsFiniteSet(S), NEW x, x \notin S, NEW f,
         \A y \in S \cup {x} : f[y] \in Int
  PROVE  SumFunctionOnSet(f, S \cup {x}) = f[x] + SumFunctionOnSet(f, S)
<1>1. IsFiniteSet(S \cup {x}) /\ (S \cup {x}) \ {x} = S
  BY FS_AddElement
<1> QED
  BY <1>1, SumRemove

\* A sum depends on the values in its set only.
THEOREM SumSame ==
  ASSUME NEW S, IsFiniteSet(S), NEW f, NEW g, \A x \in S : f[x] = g[x]
  PROVE  SumFunctionOnSet(f, S) = SumFunctionOnSet(g, S)
<1> DEFINE Bad == {T \in SUBSET S : SumFunctionOnSet(f, T) # SumFunctionOnSet(g, T)}
<1> SUFFICES ASSUME Bad # {} PROVE FALSE
  OBVIOUS
<1>1. PICK M \in Bad : \A T \in Bad : T \subseteq M => T = M
  <2> HIDE DEF Bad
  <2>1. Bad \in SUBSET (SUBSET S)
    BY DEF Bad
  <2> QED
    BY <2>1, SmallestSet
<1>2. IsFiniteSet(M) /\ M # {}
  <2>1. IsFiniteSet(M)
    BY FS_Subset
  <2>2. M # {}
    BY SumEmpty
  <2> QED
    BY <2>1, <2>2
<1>3. /\ SumFunctionOnSet(f, M) = f[Pick(M)] + SumFunctionOnSet(f, M \ {Pick(M)})
      /\ SumFunctionOnSet(g, M) = g[Pick(M)] + SumFunctionOnSet(g, M \ {Pick(M)})
  BY <1>2, SumPick
<1>4. Pick(M) \in S /\ M \ {Pick(M)} \notin Bad /\ M \ {Pick(M)} \in SUBSET S
  BY <1>1, <1>2, PickIsElement
<1> QED
  BY <1>3, <1>4

=============================================================================
