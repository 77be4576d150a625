----------------------------- MODULE SumsProofs -----------------------------
(***************************************************************************)
(* The total of a function changes by what is added at one point.  The     *)
(* fold behind it is a recursive function on the subsets of a finite set;  *)
(* that it exists, and does not depend on the order of the summands, is    *)
(* shown by minimal counterexamples under strict inclusion.                *)
(***************************************************************************)
EXTENDS Sums, FiniteSetTheorems, TLAPS

Pick(s) == CHOOSE x \in s : TRUE
Rest(s) == s \ {Pick(s)}

\* f is the fold's iterator on the subsets of S.
Iterates(f, g, S) ==
    f = [s \in SUBSET S |-> IF s = {} THEN 0 ELSE g[Pick(s)] + f[Rest(s)]]

\* A nonempty collection of subsets of a finite set has a minimal member.
LEMMA MinimalSubset ==
    ASSUME NEW S, IsFiniteSet(S), NEW Z, Z \subseteq SUBSET S, Z # {}
    PROVE \E T \in Z : \A U \in SUBSET T : U # T => U \notin Z
<1>1. FiniteSubsetsOf(S) = SUBSET S BY FS_FiniteSubsetsOfFinite
<1>2. IsWellFoundedOn(StrictSubsetOrdering(S), SUBSET S) BY <1>1, FS_StrictSubsetOrderingWellFounded
<1>3. PICK T \in Z : \A U \in Z : ~(<<U, T>> \in StrictSubsetOrdering(S))
  BY <1>2, WFMin
<1>4. ASSUME NEW U \in SUBSET T, U # T, U \in Z PROVE FALSE
  <2>1. <<U, T>> \in StrictSubsetOrdering(S) BY <1>4 DEF StrictSubsetOrdering
  <2> QED BY <1>3, <1>4, <2>1
<1> QED BY <1>3, <1>4

LEMMA Picked == ASSUME NEW s, s # {} PROVE Pick(s) \in s /\ Rest(s) \subseteq s /\ Rest(s) # s
BY DEF Pick, Rest

\* Iterators agree where both are defined.
LEMMA IteratorsAgree ==
    ASSUME NEW S, IsFiniteSet(S), NEW g, NEW A \in SUBSET S, NEW B \in SUBSET S,
           NEW f, NEW h, Iterates(f, g, A), Iterates(h, g, B),
           NEW s \in SUBSET (A \cap B)
    PROVE f[s] = h[s]
<1> DEFINE Z == {T \in SUBSET (A \cap B) : f[T] # h[T]}
<1> SUFFICES ASSUME Z # {} PROVE FALSE OBVIOUS
<1>1. Z \subseteq SUBSET S OBVIOUS
<1>2. PICK T \in Z : \A U \in SUBSET T : U # T => U \notin Z
  <2> HIDE DEF Z
  <2> QED BY <1>1, MinimalSubset
<1>3. T # {} BY DEF Iterates
<1>4. f[T] = g[Pick(T)] + f[Rest(T)] BY <1>3 DEF Iterates
<1>5. h[T] = g[Pick(T)] + h[Rest(T)] BY <1>3 DEF Iterates
<1>6. f[Rest(T)] = h[Rest(T)] BY <1>2, <1>3, Picked
<1> QED BY <1>4, <1>5, <1>6

\* An iterator exists.
LEMMA IteratorExists ==
    ASSUME NEW S, IsFiniteSet(S), NEW g PROVE \E f : Iterates(f, g, S)
<1> DEFINE Z == {T \in SUBSET S : ~\E f : Iterates(f, g, T)}
<1> SUFFICES ASSUME Z # {} PROVE FALSE OBVIOUS
<1>0. Z \subseteq SUBSET S OBVIOUS
<1>1. PICK T \in Z : \A U \in SUBSET T : U # T => U \notin Z
  <2> HIDE DEF Z
  <2> QED BY <1>0, MinimalSubset
<1> DEFINE it(U) == CHOOSE f : Iterates(f, g, U)
           v(U) == it(U)[U]
           new == [s \in SUBSET T |-> IF s = {} THEN 0 ELSE g[Pick(s)] + v(Rest(s))]
<1>2. \A U \in SUBSET T : U # T => Iterates(it(U), g, U) BY <1>1
<1>3. ASSUME NEW s \in SUBSET T, s # T PROVE new[s] = v(s)
  <2>0. it(s) = [u \in SUBSET s |-> IF u = {} THEN 0 ELSE g[Pick(u)] + it(s)[Rest(u)]]
    <3> HIDE DEF it
    <3> QED BY <1>2, <1>3 DEF Iterates
  <2>1. CASE s = {}
    <3> HIDE DEF it
    <3> QED BY <2>0, <2>1
  <2>2. CASE s # {}
    <3>1. v(s) = g[Pick(s)] + it(s)[Rest(s)]
      <4> HIDE DEF it
      <4> QED BY <2>0, <2>2
    <3>2. Rest(s) \in SUBSET s /\ Rest(s) # T BY <1>3, <2>2, Picked
    <3>3. Iterates(it(Rest(s)), g, Rest(s)) /\ Iterates(it(s), g, s) BY <1>2, <1>3, <3>2
    <3>4. it(s)[Rest(s)] = v(Rest(s))
      <4>1. Rest(s) \in SUBSET (s \cap Rest(s)) BY <3>2
      <4>2. s \in SUBSET S /\ Rest(s) \in SUBSET S BY <3>2
      <4> HIDE DEF it
      <4> QED BY <3>3, <4>1, <4>2, IteratorsAgree
    <3> QED BY <2>2, <3>1, <3>4
  <2> QED BY <2>1, <2>2
<1>4. new = [s \in SUBSET T |-> IF s = {} THEN 0 ELSE g[Pick(s)] + new[Rest(s)]]
  <2>1. ASSUME NEW s \in SUBSET T, s # {} PROVE new[Rest(s)] = v(Rest(s))
    <3>1. Rest(s) \in SUBSET T /\ Rest(s) # T BY <2>1, Picked
    <3> HIDE DEF new, v
    <3> QED BY <1>3, <3>1
  <2> HIDE DEF v
  <2> QED BY <2>1
<1>5. Iterates(new, g, T) BY <1>4 DEF Iterates
<1> QED BY <1>1, <1>5

LEMMA SumUnfolds ==
    ASSUME NEW S, IsFiniteSet(S), NEW g
    PROVE SumOver(g, S) = IF S = {} THEN 0 ELSE g[Pick(S)] + SumOver(g, Rest(S))
<1> DEFINE it(U) == CHOOSE f : Iterates(f, g, U)
<1>1. \A U : SumOver(g, U) = it(U)[U]
  BY DEF SumOver, MapThenSumSet, MapThenFoldSet, Iterates, Pick, Rest
<1>2. Iterates(it(S), g, S) BY IteratorExists
<1>3. CASE S = {}
  <2> HIDE DEF it
  <2> QED BY <1>1, <1>2, <1>3 DEF Iterates
<1>4. CASE S # {}
  <2>1. Rest(S) \subseteq S BY <1>4, Picked
  <2>2. Iterates(it(Rest(S)), g, Rest(S)) BY <2>1, FS_Subset, IteratorExists
  <2> HIDE DEF it
  <2>3. it(S)[S] = g[Pick(S)] + it(S)[Rest(S)] BY <1>2, <1>4 DEF Iterates
  <2>4. it(S)[Rest(S)] = it(Rest(S))[Rest(S)] BY <1>2, <2>1, <2>2, IteratorsAgree
  <2> QED BY <1>1, <1>4, <2>3, <2>4
<1> QED BY <1>3, <1>4

LEMMA SumType ==
    ASSUME NEW S, IsFiniteSet(S), NEW g, \A x \in S : g[x] \in Nat
    PROVE SumOver(g, S) \in Nat
<1> DEFINE Z == {T \in SUBSET S : SumOver(g, T) \notin Nat}
<1> SUFFICES ASSUME Z # {} PROVE FALSE OBVIOUS
<1>1. Z \subseteq SUBSET S OBVIOUS
<1>2. PICK T \in Z : \A U \in SUBSET T : U # T => U \notin Z
  <2> HIDE DEF Z
  <2> QED BY <1>1, MinimalSubset
<1>3. IsFiniteSet(T) BY FS_Subset
<1>4. CASE T = {} BY <1>3, <1>4, SumUnfolds
<1>5. CASE T # {}
  <2>1. Pick(T) \in T /\ Rest(T) \subseteq T /\ Rest(T) # T BY <1>5, Picked
  <2>2. SumOver(g, Rest(T)) \in Nat BY <1>2, <2>1
  <2>3. SumOver(g, T) = g[Pick(T)] + SumOver(g, Rest(T)) BY <1>3, <1>5, SumUnfolds
  <2> QED BY <2>1, <2>2, <2>3
<1> QED BY <1>4, <1>5

\* Any element can be taken out first.
LEMMA SumRemove ==
    ASSUME NEW S, IsFiniteSet(S), NEW g, \A x \in S : g[x] \in Nat, NEW e \in S
    PROVE SumOver(g, S) = g[e] + SumOver(g, S \ {e})
<1> DEFINE Z == {T \in SUBSET S : \E x \in T : SumOver(g, T) # g[x] + SumOver(g, T \ {x})}
<1> SUFFICES ASSUME Z # {} PROVE FALSE OBVIOUS
<1>1. Z \subseteq SUBSET S OBVIOUS
<1>2. PICK T \in Z : \A U \in SUBSET T : U # T => U \notin Z
  <2> HIDE DEF Z
  <2> QED BY <1>1, MinimalSubset
<1>3. \A U \in SUBSET T : IsFiniteSet(U) /\ SumOver(g, U) \in Nat BY FS_Subset, SumType
<1>4. PICK x \in T : SumOver(g, T) # g[x] + SumOver(g, T \ {x}) OBVIOUS
<1> DEFINE y == Pick(T)
<1>5. y \in T /\ Rest(T) = T \ {y} BY <1>4, Picked DEF Rest
<1>6. SumOver(g, T) = g[y] + SumOver(g, T \ {y}) BY <1>3, <1>4, <1>5, SumUnfolds
<1> HIDE DEF y
<1>7. x # y BY <1>4, <1>6
<1>8. SumOver(g, T \ {y}) = g[x] + SumOver(g, (T \ {y}) \ {x}) BY <1>2, <1>4, <1>5, <1>7
<1>9. SumOver(g, T \ {x}) = g[y] + SumOver(g, (T \ {x}) \ {y}) BY <1>2, <1>4, <1>5, <1>7
<1>10. (T \ {x}) \ {y} = (T \ {y}) \ {x} OBVIOUS
<1>11. SumOver(g, (T \ {y}) \ {x}) \in Nat /\ g[x] \in Nat /\ g[y] \in Nat BY <1>3, <1>5
<1> QED BY <1>4, <1>6, <1>8, <1>9, <1>10, <1>11

\* The sum depends on what is summed, and on nothing else.
LEMMA SumSame ==
    ASSUME NEW S, IsFiniteSet(S), NEW g, NEW h, \A x \in S : g[x] = h[x]
    PROVE SumOver(g, S) = SumOver(h, S)
<1> DEFINE Z == {T \in SUBSET S : SumOver(g, T) # SumOver(h, T)}
<1> SUFFICES ASSUME Z # {} PROVE FALSE OBVIOUS
<1>1. Z \subseteq SUBSET S OBVIOUS
<1>2. PICK T \in Z : \A U \in SUBSET T : U # T => U \notin Z
  <2> HIDE DEF Z
  <2> QED BY <1>1, MinimalSubset
<1>3. IsFiniteSet(T) BY FS_Subset
<1>4. CASE T = {} BY <1>3, <1>4, SumUnfolds
<1>5. CASE T # {}
  <2>1. Pick(T) \in T /\ Rest(T) \subseteq T /\ Rest(T) # T BY <1>5, Picked
  <2>2. SumOver(g, Rest(T)) = SumOver(h, Rest(T)) BY <1>2, <2>1
  <2>3. SumOver(g, T) = g[Pick(T)] + SumOver(g, Rest(T)) BY <1>3, <1>5, SumUnfolds
  <2>4. SumOver(h, T) = h[Pick(T)] + SumOver(h, Rest(T)) BY <1>3, <1>5, SumUnfolds
  <2> QED BY <2>1, <2>2, <2>3, <2>4
<1> QED BY <1>4, <1>5

\* Nothing adds up to nothing.
LEMMA TotalOfZeros == ASSUME NEW S, IsFiniteSet(S) PROVE Total([x \in S |-> 0]) = 0
<1> DEFINE g == [x \in S |-> 0]
           Z == {T \in SUBSET S : SumOver(g, T) # 0}
<1>1. Z \subseteq SUBSET S OBVIOUS
<1>2. ASSUME Z # {} PROVE FALSE
  <2>1. PICK T \in Z : \A U \in SUBSET T : U # T => U \notin Z
    <3> HIDE DEF Z
    <3> QED BY <1>1, <1>2, MinimalSubset
  <2>2. IsFiniteSet(T) BY FS_Subset
  <2>3. T # {} BY <2>2, SumUnfolds
  <2>4. Pick(T) \in T /\ Rest(T) \subseteq T /\ Rest(T) # T BY <2>3, Picked
  <2>5. SumOver(g, Rest(T)) = 0 BY <2>1, <2>4
  <2>6. SumOver(g, T) = g[Pick(T)] + SumOver(g, Rest(T)) BY <2>2, <2>3, SumUnfolds
  <2> QED BY <2>4, <2>5, <2>6
<1>3. SumOver(g, S) = 0 BY <1>2
<1> QED BY <1>3 DEF Total

\* A total changes by what changes at one point, and not at all without a change.
LEMMA TotalChanges ==
    ASSUME NEW S, IsFiniteSet(S), NEW g \in [S -> Nat], NEW h \in [S -> Nat], NEW e \in S,
           \A x \in S \ {e} : h[x] = g[x]
    PROVE /\ Total(g) \in Nat /\ Total(h) \in Nat
          /\ Total(h) = Total(g) - g[e] + h[e]
<1>1. Total(g) = SumOver(g, S) /\ Total(h) = SumOver(h, S) BY DEF Total
<1>2. IsFiniteSet(S \ {e}) BY FS_Subset
<1>3. SumOver(g, S \ {e}) = SumOver(h, S \ {e}) BY <1>2, SumSame
<1>4. SumOver(g, S) = g[e] + SumOver(g, S \ {e}) BY SumRemove
<1>5. SumOver(h, S) = h[e] + SumOver(h, S \ {e}) BY SumRemove
<1>6. SumOver(g, S \ {e}) \in Nat BY <1>2, SumType
<1> QED BY <1>1, <1>3, <1>4, <1>5, <1>6
============================================================================
