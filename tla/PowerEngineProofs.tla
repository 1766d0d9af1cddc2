------------------------- MODULE PowerEngineProofs -------------------------
(***************************************************************************)
(* The solver of rail_currents ends with a current for every rail, and on  *)
(* a tree with those of Kirchhoff's law; the engine is an exact meter of   *)
(* them, and the batteries' books agree with the rails'.                   *)
(*                                                                         *)
(* The recursive functions of PowerEngine are CHOOSE expressions, of which *)
(* nothing is known until a function with their recursion is shown to      *)
(* exist: SumsExist, AlongExists and PassingExists do so.                  *)
(***************************************************************************)
EXTENDS PowerEngine, WellFoundedInduction, FiniteSetTheorems, TLAPS

(* A set of naturals has a least member. *)
LEMMA LeastNat ==
  ASSUME NEW S \in SUBSET Nat, S # {}
  PROVE  \E x \in S : \A y \in S : x <= y
<1>. DEFINE R == OpToRel(<, Nat)
<1>1. IsWellFoundedOn(R, Nat)
  BY NatLessThanWellFounded
<1>2. \A x, y \in Nat : y < x => <<y, x>> \in R
  BY DEF OpToRel
<1>. HIDE DEF R
<1>3. PICK x \in S : \A y \in S : ~(<<y, x>> \in R)
  BY <1>1, WFMin
<1>4. ASSUME NEW y \in S PROVE x <= y
  <2>1. x \in Nat /\ y \in Nat /\ ~(<<y, x>> \in R)
    BY <1>3
  <2>2. ~(y < x)
    BY <1>2, <2>1
  <2>. QED
    BY <2>1, <2>2
<1>. QED
  BY <1>4

(* Induction over 0 .. n, on the members of a set. *)
LEMMA UpTo ==
  ASSUME NEW n \in Nat, NEW T, 0 \in T, \A i \in 1 .. n : i - 1 \in T => i \in T
  PROVE  \A i \in 0 .. n : i \in T
<1>. DEFINE Bad == {i \in 0 .. n : i \notin T}
<1>1. ASSUME Bad # {} PROVE FALSE
  <2>1. PICK x \in Bad : \A y \in Bad : x <= y
    <3>1. Bad \in SUBSET Nat
      OBVIOUS
    <3>. QED
      BY <1>1, <3>1, LeastNat
  <2>2. x \in 1 .. n /\ x - 1 \in Bad
    BY <2>1
  <2>. QED
    BY <2>1, <2>2
<1>. QED
  BY <1>1
-----------------------------------------------------------------------------
(* Sums over a set, as FoldFunctionOnSet computes them.                    *)
Chosen(s) == CHOOSE x \in s : TRUE

Sums(f, S, it) == it = [s \in SUBSET S |-> IF s = {} THEN 0 ELSE f[Chosen(s)] + it[s \ {Chosen(s)}]]

LEMMA ChosenFacts ==
  ASSUME NEW s, s # {}
  PROVE  Chosen(s) \in s
BY DEF Chosen

LEMMA SmallerFacts ==
  ASSUME NEW S, IsFiniteSet(S), NEW s \in SUBSET S, NEW x \in s
  PROVE  /\ s \ {x} \in SUBSET S /\ IsFiniteSet(s) /\ IsFiniteSet(s \ {x}) /\ Cardinality(s) \in Nat
         /\ Cardinality(s \ {x}) = Cardinality(s) - 1 /\ Cardinality(s) > 0
<1>1. IsFiniteSet(s)
  BY FS_Subset
<1>2. IsFiniteSet(s \ {x}) /\ Cardinality(s \ {x}) = Cardinality(s) - 1
  BY <1>1, FS_RemoveElement
<1>3. Cardinality(s) \in Nat /\ Cardinality(s \ {x}) \in Nat
  BY <1>1, <1>2, FS_CardinalityType
<1>. QED
  BY <1>1, <1>2, <1>3

LEMMA SumsExist ==
  ASSUME NEW S, IsFiniteSet(S), NEW f, \A x \in S : f[x] \in Nat
  PROVE  \E it \in [SUBSET S -> Nat] : Sums(f, S, it)
<1>. DEFINE Small(k) == {s \in SUBSET S : Cardinality(s) <= k}
            Part(k, g) == g = [s \in Small(k) |-> IF s = {} THEN 0 ELSE f[Chosen(s)] + g[s \ {Chosen(s)}]]
            n == Cardinality(S)
            T == {k \in 0 .. n : \E g \in [Small(k) -> Nat] : Part(k, g)}
<1>1. n \in Nat
  BY FS_CardinalityType
<1>2. \A s \in SUBSET S : Cardinality(s) \in Nat /\ Cardinality(s) <= n /\ (Cardinality(s) = 0 <=> s = {})
  <2>1. ASSUME NEW s \in SUBSET S PROVE Cardinality(s) \in Nat /\ Cardinality(s) <= n /\ (Cardinality(s) = 0 <=> s = {})
    <3>1. IsFiniteSet(s) /\ Cardinality(s) <= n
      BY FS_Subset
    <3>. QED
      BY <3>1, FS_CardinalityType, FS_EmptySet
  <2>. QED
    BY <2>1
<1>3. 0 \in T
  <2>1. Small(0) = {{}}
    BY <1>2
  <2>. DEFINE g == [s \in Small(0) |-> 0]
  <2>2. g \in [Small(0) -> Nat]
    OBVIOUS
  <2>3. Part(0, g)
    BY <2>1
  <2>4. 0 \in 0 .. n
    BY <1>1
  <2>. HIDE DEF g, Small, n
  <2>. QED
    BY <2>2, <2>3, <2>4
<1>. HIDE DEF n
<1>4. ASSUME NEW i \in 1 .. n, i - 1 \in T PROVE i \in T
  <2>1. i \in Nat /\ i - 1 \in Nat /\ i \in 0 .. n
    BY <1>1
  <2>2. PICK g \in [Small(i - 1) -> Nat] : Part(i - 1, g)
    BY <1>4
  <2>. DEFINE h == [s \in Small(i) |-> IF s = {} THEN 0 ELSE f[Chosen(s)] + g[s \ {Chosen(s)}]]
  <2>3. ASSUME NEW s \in Small(i), s # {}
        PROVE  /\ Chosen(s) \in S /\ s \ {Chosen(s)} \in Small(i - 1) /\ s \ {Chosen(s)} \in Small(i)
    <3>1. Chosen(s) \in s
      BY <2>3, ChosenFacts
    <3>2. /\ s \ {Chosen(s)} \in SUBSET S /\ Cardinality(s \ {Chosen(s)}) = Cardinality(s) - 1
          /\ Cardinality(s) \in Nat
      BY <3>1, SmallerFacts
    <3>. QED
      BY <2>1, <3>1, <3>2
  <2>4. \A s \in Small(i - 1) : s \in Small(i) /\ g[s] = h[s]
    <3>1. \A s \in Small(i - 1) : s \in Small(i)
      BY <1>2, <2>1
    <3>2. \A s \in Small(i - 1) : g[s] = IF s = {} THEN 0 ELSE f[Chosen(s)] + g[s \ {Chosen(s)}]
      BY <2>2
    <3>. QED
      BY <3>1, <3>2
  <2>5. h \in [Small(i) -> Nat]
    <3>1. ASSUME NEW s \in Small(i), s # {} PROVE f[Chosen(s)] + g[s \ {Chosen(s)}] \in Nat
      <4>1. f[Chosen(s)] \in Nat /\ g[s \ {Chosen(s)}] \in Nat
        BY <2>2, <2>3, <3>1
      <4>. QED
        BY <4>1
    <3>. QED
      BY <3>1
  <2>6. Part(i, h)
    <3>1. \A s \in Small(i) : s # {} => g[s \ {Chosen(s)}] = h[s \ {Chosen(s)}]
      BY <2>3, <2>4
    <3>2. h = [s \in Small(i) |-> IF s = {} THEN 0 ELSE f[Chosen(s)] + h[s \ {Chosen(s)}]]
      <4>. HIDE DEF Small, T
      <4>. QED
        BY <3>1
    <3>. QED
      BY <3>2
  <2>. QED
    BY <2>1, <2>5, <2>6
<1>5. n \in T
  <2>. HIDE DEF T
  <2>1. \A i \in 0 .. n : i \in T
    BY <1>1, <1>3, <1>4, UpTo
  <2>. QED
    BY <1>1, <2>1
<1>6. Small(n) = SUBSET S
  BY <1>2
<1>. QED
  BY <1>5, <1>6 DEF Sums

LEMMA SumIsSums ==
  ASSUME NEW S, IsFiniteSet(S), NEW f, \A x \in S : f[x] \in Nat
  PROVE  \E it : Sums(f, S, it) /\ SumFunctionOnSet(f, S) = it[S]
<1>. DEFINE it == CHOOSE g : Sums(f, S, g)
<1>1. Sums(f, S, it)
  BY SumsExist
<1>2. SumFunctionOnSet(f, S) = it[S]
  BY DEF SumFunctionOnSet, FoldFunctionOnSet, MapThenFoldSet, Sums, Chosen
<1>. QED
  BY <1>1, <1>2

(* Two sums over parts of the same set agree where the values do.          *)
LEMMA SumsAgree ==
  ASSUME NEW S, IsFiniteSet(S), NEW U, IsFiniteSet(U), S \subseteq U, NEW f, NEW g,
         \A x \in S : f[x] = g[x], NEW it, NEW ju, Sums(f, S, it), Sums(g, U, ju)
  PROVE  it[S] = ju[S]
<1>. DEFINE n == Cardinality(S)
            T == {k \in 0 .. n : \A s \in SUBSET S : Cardinality(s) = k => it[s] = ju[s]}
<1>1. n \in Nat
  BY FS_CardinalityType
<1>2. /\ \A s \in SUBSET S : it[s] = IF s = {} THEN 0 ELSE f[Chosen(s)] + it[s \ {Chosen(s)}]
      /\ \A s \in SUBSET U : ju[s] = IF s = {} THEN 0 ELSE g[Chosen(s)] + ju[s \ {Chosen(s)}]
  BY DEF Sums
<1>3. 0 \in T
  <2>1. \A s \in SUBSET S : Cardinality(s) = 0 => s = {}
    <3>1. \A s \in SUBSET S : IsFiniteSet(s)
      BY FS_Subset
    <3>. QED
      BY <3>1, FS_EmptySet
  <2>2. it[{}] = 0 /\ ju[{}] = 0
    BY <1>2
  <2>. QED
    BY <1>1, <2>1, <2>2
<1>. HIDE DEF n
<1>4. ASSUME NEW i \in 1 .. n, i - 1 \in T PROVE i \in T
  <2>1. ASSUME NEW s \in SUBSET S, Cardinality(s) = i PROVE it[s] = ju[s]
    <3>1. s # {}
      BY <1>1, <2>1, FS_EmptySet
    <3>2. Chosen(s) \in s
      BY <3>1, ChosenFacts
    <3>3. s \ {Chosen(s)} \in SUBSET S /\ Cardinality(s \ {Chosen(s)}) = i - 1
      BY <2>1, <3>2, SmallerFacts
    <3>4. it[s \ {Chosen(s)}] = ju[s \ {Chosen(s)}]
      BY <1>4, <3>3
    <3>5. f[Chosen(s)] = g[Chosen(s)]
      BY <3>2
    <3>6. it[s] = f[Chosen(s)] + it[s \ {Chosen(s)}] /\ ju[s] = g[Chosen(s)] + ju[s \ {Chosen(s)}]
      BY <1>2, <3>1
    <3>. QED
      BY <3>4, <3>5, <3>6
  <2>2. i \in 0 .. n
    BY <1>1
  <2>. QED
    BY <2>1, <2>2
<1>5. n \in T
  <2>. HIDE DEF T
  <2>1. \A i \in 0 .. n : i \in T
    BY <1>1, <1>3, <1>4, UpTo
  <2>. QED
    BY <1>1, <2>1
<1>. QED
  BY <1>5 DEF n

(* The value of a sum does not depend on what the function is elsewhere.   *)
LEMMA SumsSame ==
  ASSUME NEW S, IsFiniteSet(S), NEW f, NEW g, \A x \in S : f[x] \in Nat /\ f[x] = g[x]
  PROVE  SumFunctionOnSet(f, S) = SumFunctionOnSet(g, S)
<1>1. PICK it : Sums(f, S, it) /\ SumFunctionOnSet(f, S) = it[S]
  BY SumIsSums
<1>2. PICK ju : Sums(g, S, ju) /\ SumFunctionOnSet(g, S) = ju[S]
  BY SumIsSums
<1>. QED
  BY <1>1, <1>2, SumsAgree

LEMMA SumStep ==
  ASSUME NEW S, IsFiniteSet(S), NEW f, \A x \in S : f[x] \in Nat
  PROVE  SumFunctionOnSet(f, S)
           = IF S = {} THEN 0 ELSE f[Chosen(S)] + SumFunctionOnSet(f, S \ {Chosen(S)})
<1>1. PICK it : Sums(f, S, it) /\ SumFunctionOnSet(f, S) = it[S]
  BY SumIsSums
<1>2. it[S] = IF S = {} THEN 0 ELSE f[Chosen(S)] + it[S \ {Chosen(S)}]
  BY <1>1 DEF Sums
<1>3. ASSUME S # {} PROVE it[S \ {Chosen(S)}] = SumFunctionOnSet(f, S \ {Chosen(S)})
  <2>. DEFINE R == S \ {Chosen(S)}
  <2>1. IsFiniteSet(R) /\ R \subseteq S /\ \A x \in R : f[x] \in Nat
    BY FS_Subset
  <2>. HIDE DEF R
  <2>2. PICK ju : Sums(f, R, ju) /\ SumFunctionOnSet(f, R) = ju[R]
    BY <2>1, SumIsSums
  <2>3. ju[R] = it[R]
    BY <1>1, <2>1, <2>2, SumsAgree
  <2>. QED
    BY <2>2, <2>3 DEF R
<1>. QED
  BY <1>1, <1>2, <1>3

(* Sums are naturals, and any member may be taken out first.               *)
LEMMA SumTakesOut ==
  ASSUME NEW S, IsFiniteSet(S), NEW f, \A x \in S : f[x] \in Nat
  PROVE  /\ SumFunctionOnSet(f, S) \in Nat
         /\ \A x \in S : SumFunctionOnSet(f, S) = f[x] + SumFunctionOnSet(f, S \ {x})
<1>. DEFINE n == Cardinality(S)
            Sum(s) == SumFunctionOnSet(f, s)
            T == {k \in 0 .. n : \A s \in SUBSET S : Cardinality(s) <= k =>
                    Sum(s) \in Nat /\ \A x \in s : Sum(s) = f[x] + Sum(s \ {x})}
<1>1. n \in Nat
  BY FS_CardinalityType
<1>2. \A s \in SUBSET S : IsFiniteSet(s) /\ Sum(s) = IF s = {} THEN 0 ELSE f[Chosen(s)] + Sum(s \ {Chosen(s)})
  <2>1. ASSUME NEW s \in SUBSET S
        PROVE  IsFiniteSet(s) /\ Sum(s) = IF s = {} THEN 0 ELSE f[Chosen(s)] + Sum(s \ {Chosen(s)})
    <3>1. IsFiniteSet(s)
      BY FS_Subset
    <3>. QED
      BY <3>1, SumStep
  <2>. QED
    BY <2>1
<1>. HIDE DEF n, Sum
<1>3. 0 \in T
  <2>1. ASSUME NEW s \in SUBSET S, Cardinality(s) <= 0 PROVE s = {}
    <3>1. IsFiniteSet(s) /\ Cardinality(s) \in Nat
      BY <1>2, FS_CardinalityType
    <3>2. Cardinality(s) = 0
      BY <2>1, <3>1
    <3>. QED
      BY <3>1, <3>2, FS_EmptySet
  <2>2. Sum({}) = 0
    BY <1>2
  <2>3. ASSUME NEW s \in SUBSET S, Cardinality(s) <= 0
        PROVE  Sum(s) \in Nat /\ \A x \in s : Sum(s) = f[x] + Sum(s \ {x})
    <3>1. s = {}
      BY <2>1, <2>3
    <3>2. Sum(s) = 0
      BY <2>2, <3>1
    <3>. QED
      BY <3>1, <3>2
  <2>4. 0 \in 0 .. n
    BY <1>1
  <2>. QED
    BY <2>3, <2>4
<1>4. ASSUME NEW i \in 1 .. n, i - 1 \in T PROVE i \in T
  <2>0. i \in Nat /\ i \in 0 .. n
    BY <1>1
  <2>1. ASSUME NEW s \in SUBSET S, Cardinality(s) <= i, s # {}
        PROVE  Sum(s) \in Nat /\ \A x \in s : Sum(s) = f[x] + Sum(s \ {x})
    <3>. DEFINE c == Chosen(s)
    <3>2. c \in s
      BY <2>1, ChosenFacts
    <3>3. Sum(s) = f[c] + Sum(s \ {c})
      BY <1>2, <2>1
    <3>4. ASSUME NEW x \in s
          PROVE  /\ s \ {x} \in SUBSET S /\ Sum(s \ {x}) \in Nat /\ f[x] \in Nat
                 /\ \A y \in s \ {x} : Sum(s \ {x}) = f[y] + Sum((s \ {x}) \ {y})
      <4>0. Cardinality(s \ {x}) = Cardinality(s) - 1 /\ Cardinality(s) \in Nat
        BY SmallerFacts
      <4>1. s \ {x} \in SUBSET S /\ Cardinality(s \ {x}) <= i - 1
        BY <2>0, <2>1, <4>0
      <4>. QED
        BY <1>4, <4>1
    <3>. HIDE DEF c, T
    <3>5. Sum(s) \in Nat
      <4>1. Sum(s \ {c}) \in Nat /\ f[c] \in Nat
        BY <3>2, <3>4
      <4>. QED
        BY <3>3, <4>1
    <3>6. ASSUME NEW x \in s, x # c PROVE Sum(s) = f[x] + Sum(s \ {x})
      <4>. DEFINE rest == (s \ {c}) \ {x}
      <4>1. rest = (s \ {x}) \ {c}
        OBVIOUS
      <4>2. Sum(s \ {c}) = f[x] + Sum(rest)
        BY <3>2, <3>4, <3>6
      <4>3. Sum(s \ {x}) = f[c] + Sum(rest)
        BY <3>2, <3>4, <3>6, <4>1
      <4>4. rest \in SUBSET S
        OBVIOUS
      <4>5. Sum(rest) \in Nat
        <5>0. Cardinality(s \ {c}) = Cardinality(s) - 1 /\ Cardinality(s) \in Nat
          BY <3>2, SmallerFacts
        <5>1. s \ {c} \in SUBSET S /\ x \in s \ {c} /\ Cardinality(s \ {c}) <= i - 1
          BY <2>0, <2>1, <3>6, <5>0
        <5>2. Cardinality(rest) = Cardinality(s \ {c}) - 1 /\ Cardinality(s \ {c}) \in Nat
          BY <5>1, SmallerFacts
        <5>3. Cardinality(rest) <= i - 1
          BY <2>0, <5>1, <5>2
        <5>. QED
          BY <1>4, <4>4, <5>3 DEF T
      <4>6. f[x] \in Nat /\ f[c] \in Nat
        BY <3>2, <3>4
      <4>. HIDE DEF rest
      <4>. QED
        BY <3>3, <4>2, <4>3, <4>5, <4>6
    <3>. QED
      BY <3>3, <3>5, <3>6
  <2>2. Sum({}) = 0
    BY <1>2
  <2>3. \A s \in SUBSET S : Cardinality(s) <= i => Sum(s) \in Nat /\ \A x \in s : Sum(s) = f[x] + Sum(s \ {x})
    BY <2>1, <2>2
  <2>. QED
    BY <2>0, <2>3
<1>5. n \in T
  <2>. HIDE DEF T
  <2>1. \A i \in 0 .. n : i \in T
    BY <1>1, <1>3, <1>4, UpTo
  <2>. QED
    BY <1>1, <2>1
<1>6. Cardinality(S) <= n /\ S \in SUBSET S
  BY <1>1 DEF n
<1>. QED
  BY <1>5, <1>6 DEF Sum
-----------------------------------------------------------------------------
(* What a component must have for the solver to make sense. *)
Wired == regulators \in Seq(Edges) /\ on \in [Edges -> BOOLEAN]
Currents == [Rail -> Nat]

(* No edge registers twice. *)
Distinct == \A i, j \in 1 .. Len(regulators) : regulators[i] = regulators[j] => i = j

LEMMA DirectType ==
  ASSUME NEW ld \in [Load -> Nat]
  PROVE  Direct(ld) \in Currents
<1>1. ASSUME NEW r \in Rail PROVE SumFunctionOnSet(ld, {l \in Load : LoadRail[l] = r}) \in Nat
  <2>. DEFINE S == {l \in Load : LoadRail[l] = r}
  <2>1. IsFiniteSet(S)
    <3>1. IsFiniteSet(Load) /\ S \in SUBSET Load
      BY PowerAssumption
    <3>. QED
      BY <3>1, FS_Subset
  <2>2. \A l \in S : ld[l] \in Nat
    OBVIOUS
  <2>. QED
    BY <2>1, <2>2, SumTakesOut
<1>. QED
  BY <1>1 DEF Direct, Currents

LEMMA ReflectType ==
  ASSUME Wired, NEW e \in Edges, NEW x \in Nat
  PROVE  Reflect(e, x) \in Nat
BY PowerAssumption DEF Reflect, Wired

LEMMA ReflectedType ==
  ASSUME Wired, NEW e \in Edges, NEW a \in Currents
  PROVE  /\ Reflected(e)[a] = [a EXCEPT ![From[e]] = a[From[e]] + Reflect(e, a[To[e]])]
         /\ Reflected(e)[a] \in Currents
<1>1. From[e] \in Rail /\ To[e] \in Rail
  BY PowerAssumption
<1>2. Reflected(e)[a] = [a EXCEPT ![From[e]] = a[From[e]] + Reflect(e, a[To[e]])]
  BY DEF Reflected, Currents
<1>3. a[From[e]] + Reflect(e, a[To[e]]) \in Nat
  <2>1. a[From[e]] \in Nat /\ a[To[e]] \in Nat
    BY <1>1 DEF Currents
  <2>2. Reflect(e, a[To[e]]) \in Nat
    BY <2>1, ReflectType
  <2>. QED
    BY <2>1, <2>2
<1>. QED
  BY <1>1, <1>2, <1>3 DEF Currents

(* The currents after each edge of a pass. *)
Along(S, a, g) ==
  g = [i \in 0 .. Len(regulators) |->
         IF i = 0 THEN a
         ELSE IF regulators[i] \in S THEN Reflected(regulators[i])[g[i - 1]]
         ELSE g[i - 1]]

LEMMA AlongExists ==
  ASSUME Wired, NEW S, NEW a
  PROVE  \E g : Along(S, a, g) /\ ReflectAll(S, a) = g[Len(regulators)]
<1>. DEFINE n == Len(regulators)
            Part(k, g) == g = [i \in 0 .. k |->
                                 IF i = 0 THEN a
                                 ELSE IF regulators[i] \in S THEN Reflected(regulators[i])[g[i - 1]]
                                 ELSE g[i - 1]]
            T == {k \in 0 .. n : \E g : Part(k, g)}
<1>1. n \in Nat
  BY DEF Wired
<1>2. 0 \in T
  <2>. DEFINE h == [i \in 0 .. 0 |-> a]
  <2>1. Part(0, h)
    OBVIOUS
  <2>2. 0 \in 0 .. n
    BY <1>1
  <2>. HIDE DEF h, Part, n
  <2>. QED
    BY <2>1, <2>2
<1>. HIDE DEF n
<1>3. ASSUME NEW k \in 1 .. n, k - 1 \in T PROVE k \in T
  <2>1. k \in Nat /\ k \in 0 .. n /\ k - 1 \in Nat
    BY <1>1
  <2>2. PICK g : Part(k - 1, g)
    BY <1>3
  <2>. DEFINE h == [i \in 0 .. k |->
                      IF i = 0 THEN a
                      ELSE IF regulators[i] \in S THEN Reflected(regulators[i])[g[i - 1]]
                      ELSE g[i - 1]]
  <2>3. \A i \in 0 .. k - 1 : h[i] = g[i]
    BY <2>1, <2>2
  <2>4. \A i \in 0 .. k : i # 0 => h[i - 1] = g[i - 1]
    BY <2>1, <2>3
  <2>5. Part(k, h)
    <3>1. h = [i \in 0 .. k |->
                  IF i = 0 THEN a
                  ELSE IF regulators[i] \in S THEN Reflected(regulators[i])[h[i - 1]]
                  ELSE h[i - 1]]
      BY <2>4
    <3>. QED
      BY <3>1
  <2>. HIDE DEF h, Part
  <2>. QED
    BY <2>1, <2>5
<1>4. n \in T
  <2>. HIDE DEF T
  <2>1. \A k \in 0 .. n : k \in T
    BY <1>1, <1>2, <1>3, UpTo
  <2>. QED
    BY <1>1, <2>1
<1>5. \E g : Along(S, a, g)
  BY <1>4 DEF Along, n
<1>. DEFINE it == CHOOSE g : Along(S, a, g)
<1>6. Along(S, a, it)
  BY <1>5
<1>7. ReflectAll(S, a) = it[Len(regulators)]
  BY DEF ReflectAll, Along
<1>. QED
  BY <1>6, <1>7

LEMMA AlongFacts ==
  ASSUME Wired, NEW S, NEW a \in Currents, NEW g, Along(S, a, g)
  PROVE  /\ \A i \in 0 .. Len(regulators) : g[i] \in Currents
         /\ g[0] = a
         /\ \A i \in 1 .. Len(regulators) :
              g[i] = IF regulators[i] \in S THEN Reflected(regulators[i])[g[i - 1]] ELSE g[i - 1]
<1>. DEFINE n == Len(regulators)
            T == {i \in 0 .. n : g[i] \in Currents}
<1>1. n \in Nat /\ \A i \in 1 .. n : regulators[i] \in Edges
  BY DEF Wired
<1>2. g[0] = a
  BY <1>1 DEF Along
<1>3. \A i \in 1 .. n : g[i] = IF regulators[i] \in S THEN Reflected(regulators[i])[g[i - 1]] ELSE g[i - 1]
  BY <1>1 DEF Along
<1>. HIDE DEF n
<1>4. 0 \in T
  BY <1>1, <1>2
<1>5. ASSUME NEW i \in 1 .. n, i - 1 \in T PROVE i \in T
  <2>1. g[i - 1] \in Currents /\ regulators[i] \in Edges
    BY <1>1, <1>5
  <2>2. Reflected(regulators[i])[g[i - 1]] \in Currents
    BY <2>1, ReflectedType
  <2>3. g[i] \in Currents
    BY <1>3, <2>1, <2>2
  <2>. QED
    BY <1>1, <2>3
<1>6. \A i \in 0 .. n : i \in T
  <2>. HIDE DEF T
  <2>. QED
    BY <1>1, <1>4, <1>5, UpTo
<1>. QED
  BY <1>2, <1>3, <1>6 DEF n

LEMMA ReflectAllType ==
  ASSUME Wired, NEW S, NEW a \in Currents
  PROVE  ReflectAll(S, a) \in Currents
<1>1. PICK g : Along(S, a, g) /\ ReflectAll(S, a) = g[Len(regulators)]
  BY AlongExists
<1>2. Len(regulators) \in 0 .. Len(regulators)
  BY DEF Wired
<1>3. \A i \in 0 .. Len(regulators) : g[i] \in Currents
  BY <1>1, AlongFacts
<1>. QED
  BY <1>1, <1>2, <1>3
-----------------------------------------------------------------------------
Point == [left : SUBSET Edges, amps : Currents]

(* What is left, and the currents, after each pass. *)
Passing(ld, g) ==
  g = [k \in 0 .. Len(regulators) |->
         IF k = 0 THEN [left |-> Range(regulators), amps |-> Direct(ld)]
         ELSE AfterPass[g[k - 1]]]

LEMMA PassingExists ==
  ASSUME Wired, NEW ld
  PROVE  \E g : Passing(ld, g) /\ RailCurrents(ld) = g[Len(regulators)].amps
<1>. DEFINE n == Len(regulators)
            p0 == [left |-> Range(regulators), amps |-> Direct(ld)]
            Part(k, g) == g = [i \in 0 .. k |-> IF i = 0 THEN p0 ELSE AfterPass[g[i - 1]]]
            T == {k \in 0 .. n : \E g : Part(k, g)}
<1>1. n \in Nat
  BY DEF Wired
<1>. HIDE DEF p0
<1>2. 0 \in T
  <2>. DEFINE h == [i \in 0 .. 0 |-> p0]
  <2>1. Part(0, h)
    OBVIOUS
  <2>2. 0 \in 0 .. n
    BY <1>1
  <2>. HIDE DEF h, Part, n
  <2>. QED
    BY <2>1, <2>2
<1>. HIDE DEF n
<1>3. ASSUME NEW k \in 1 .. n, k - 1 \in T PROVE k \in T
  <2>1. k \in Nat /\ k \in 0 .. n /\ k - 1 \in Nat
    BY <1>1
  <2>2. PICK g : Part(k - 1, g)
    BY <1>3
  <2>. DEFINE h == [i \in 0 .. k |-> IF i = 0 THEN p0 ELSE AfterPass[g[i - 1]]]
  <2>3. \A i \in 0 .. k - 1 : h[i] = g[i]
    BY <2>1, <2>2
  <2>4. \A i \in 0 .. k : i # 0 => h[i - 1] = g[i - 1]
    BY <2>1, <2>3
  <2>5. Part(k, h)
    <3>1. h = [i \in 0 .. k |-> IF i = 0 THEN p0 ELSE AfterPass[h[i - 1]]]
      BY <2>4
    <3>. QED
      BY <3>1
  <2>. HIDE DEF h, Part
  <2>. QED
    BY <2>1, <2>5
<1>4. n \in T
  <2>. HIDE DEF T
  <2>1. \A k \in 0 .. n : k \in T
    BY <1>1, <1>2, <1>3, UpTo
  <2>. QED
    BY <1>1, <2>1
<1>5. \E g : Passing(ld, g)
  BY <1>4 DEF Passing, n, p0
<1>. DEFINE it == CHOOSE g : Passing(ld, g)
<1>6. Passing(ld, it)
  BY <1>5
<1>7. RailCurrents(ld) = it[Len(regulators)].amps
  BY DEF RailCurrents, Passing
<1>. QED
  BY <1>6, <1>7

LEMMA AfterPassFacts ==
  ASSUME Wired, NEW p \in Point
  PROVE  /\ AfterPass[p] = [left |-> p.left \ Pass(p.left), amps |-> ReflectAll(Pass(p.left), p.amps)]
         /\ AfterPass[p] \in Point
<1>1. p \in [left : SUBSET Edges, amps : [Rail -> Nat]]
  BY DEF Point, Currents
<1>2. AfterPass[p] = [left |-> p.left \ Pass(p.left), amps |-> ReflectAll(Pass(p.left), p.amps)]
  BY <1>1 DEF AfterPass
<1>3. ReflectAll(Pass(p.left), p.amps) \in Currents
  BY ReflectAllType DEF Point
<1>. QED
  BY <1>2, <1>3 DEF Point

LEMMA PassingFacts ==
  ASSUME Wired, NEW ld \in [Load -> Nat], NEW g, Passing(ld, g)
  PROVE  /\ \A k \in 0 .. Len(regulators) : g[k] \in Point
         /\ g[0] = [left |-> Range(regulators), amps |-> Direct(ld)]
         /\ \A k \in 1 .. Len(regulators) : g[k] = AfterPass[g[k - 1]]
<1>. DEFINE n == Len(regulators)
            T == {i \in 0 .. n : g[i] \in Point}
<1>1. n \in Nat /\ Range(regulators) \subseteq Edges
  BY DEF Wired, Range
<1>2. g[0] = [left |-> Range(regulators), amps |-> Direct(ld)]
  BY <1>1 DEF Passing
<1>3. \A k \in 1 .. n : g[k] = AfterPass[g[k - 1]]
  BY <1>1 DEF Passing
<1>. HIDE DEF n
<1>4. 0 \in T
  <2>1. g[0] \in Point
    BY <1>1, <1>2, DirectType DEF Point
  <2>. QED
    BY <1>1, <2>1
<1>5. ASSUME NEW i \in 1 .. n, i - 1 \in T PROVE i \in T
  <2>1. g[i] \in Point
    BY <1>3, <1>5, AfterPassFacts
  <2>. QED
    BY <1>1, <2>1
<1>6. \A i \in 0 .. n : i \in T
  <2>. HIDE DEF T
  <2>. QED
    BY <1>1, <1>4, <1>5, UpTo
<1>. QED
  BY <1>2, <1>3, <1>6 DEF n

LEMMA RailCurrentsType ==
  ASSUME Wired, NEW ld \in [Load -> Nat]
  PROVE  RailCurrents(ld) \in [Rail -> Nat]
<1>1. PICK g : Passing(ld, g) /\ RailCurrents(ld) = g[Len(regulators)].amps
  BY PassingExists
<1>2. Len(regulators) \in 0 .. Len(regulators)
  BY DEF Wired
<1>3. g[Len(regulators)] \in Point
  BY <1>1, <1>2, PassingFacts
<1>. QED
  BY <1>1, <1>3 DEF Point, Currents
-----------------------------------------------------------------------------
LEMMA Products == \A x, y, z \in Nat : x * y \in Nat /\ z + x * y \in Nat /\ x * (y + 1) = x * y + x /\ x * 0 = 0
<1>1. \A x, y \in Nat : x * y \in Nat
  OBVIOUS
<1>2. \A x, y \in Nat : x * (y + 1) = x * y + x
  OBVIOUS
<1>3. \A x \in Nat : x * 0 = 0
  OBVIOUS
<1>. QED
  BY <1>1, <1>2, <1>3

LEMMA LoadsAreCurrents ==
  ASSUME TypeOK
  PROVE  /\ Wired /\ loads \in [Load -> Nat] /\ now \in Nat /\ lastT \in Nat /\ now - lastT \in Nat
         /\ charge \in [Rail -> Nat] /\ RailCurrents(loads) \in [Rail -> Nat]
<1>1. Wired
  BY DEF TypeOK, Wired
<1>2. loads \in [Load -> Nat]
  <2>1. \A a \in Amps : a \in Nat
    BY PowerAssumption
  <2>. QED
    BY <2>1 DEF TypeOK
<1>3. now \in Nat /\ lastT \in Nat /\ now - lastT \in Nat
  BY PowerAssumption DEF TypeOK
<1>. QED
  BY <1>1, <1>2, <1>3, RailCurrentsType DEF TypeOK

CurrentsOK == RailCurrents(loads) \in [Rail -> Nat]

LEMMA CurrentsNow == TypeOK => CurrentsOK
BY LoadsAreCurrents DEF CurrentsOK

LEMMA CurrentsNext == TypeOK' => CurrentsOK'
BY CurrentsNow, PTL

(* An accrual brings the books up to date: the open interval is empty.     *)
LEMMA AccrueFacts ==
  ASSUME TypeOK, Accrue(loads)
  PROVE  /\ lastT' = now
         /\ charge' = [r \in Rail |-> charge[r] + RailCurrents(loads)[r] * (now - lastT)]
         /\ charge' \in [Rail -> Nat] /\ peak' \in [Rail -> Nat] /\ drained' \in [Battery -> Nat]
<1>. DEFINE amps == RailCurrents(loads)
            dt == now - lastT
<1>1. /\ now \in Nat /\ lastT \in Nat /\ dt \in Nat /\ charge \in [Rail -> Nat] /\ amps \in [Rail -> Nat]
      /\ peak \in [Rail -> Nat] /\ drained \in [Battery -> Nat]
  BY LoadsAreCurrents DEF TypeOK
<1>2. CASE dt <= 0
  <2>1. UNCHANGED <<lastT, charge, peak, drained>>
    BY <1>2 DEF Accrue
  <2>2. dt = 0 /\ lastT = now
    BY <1>1, <1>2
  <2>3. charge = [r \in Rail |-> charge[r] + amps[r] * dt]
    <3>1. \A r \in Rail : charge[r] + amps[r] * 0 = charge[r]
      BY <1>1, Products
    <3>. HIDE DEF amps, dt
    <3>. QED
      BY <1>1, <2>2, <3>1
  <2>. QED
    BY <1>1, <2>1, <2>2, <2>3
<1>3. CASE ~(dt <= 0)
  <2>1. /\ lastT' = now
        /\ charge' = [r \in Rail |-> charge[r] + amps[r] * dt]
        /\ peak' = [r \in Rail |-> PeakOf(r, amps[r])]
        /\ drained' = [b \in Battery |->
             drained[b] + (IF b \in batteries THEN BatteryAmps(b, amps) * dt ELSE 0)]
    BY <1>3 DEF Accrue
  <2>. HIDE DEF amps, dt
  <2>2. charge' \in [Rail -> Nat]
    <3>1. \A r \in Rail : charge[r] + amps[r] * dt \in Nat
      BY <1>1, Products
    <3>. QED
      BY <2>1, <3>1
  <2>3. peak' \in [Rail -> Nat]
    BY <1>1, <2>1 DEF PeakOf
  <2>4. drained' \in [Battery -> Nat]
    <3>1. ASSUME NEW b \in Battery
          PROVE  drained[b] + (IF b \in batteries THEN BatteryAmps(b, amps) * dt ELSE 0) \in Nat
      <4>1. amps[BatteryRail[b]] \in Nat /\ drained[b] \in Nat
        BY <1>1, PowerAssumption
      <4>2. amps[BatteryRail[b]] * dt \in Nat
        BY <1>1, <4>1, Products
      <4>. QED
        BY <4>1, <4>2 DEF BatteryAmps
    <3>. QED
      BY <2>1, <3>1
  <2>. QED
    BY <2>1, <2>2, <2>3, <2>4 DEF amps, dt
<1>. QED
  BY <1>2, <1>3

LEMMA InitTypeOK == Init => TypeOK
BY PowerAssumption DEF Init, TypeOK

LEMMA StepTypeOK == TypeOK /\ [Next]_vars => TypeOK'
<1>. SUFFICES ASSUME TypeOK, [Next]_vars PROVE TypeOK'
  OBVIOUS
<1>0. now \in 0 .. MaxTime /\ now \in Nat /\ now \in 0 .. now /\ MaxTime \in Nat /\ lastT \in Nat
  BY PowerAssumption, LoadsAreCurrents DEF TypeOK
<1>1. ASSUME NEW e \in Edges, AddRegulator(e) PROVE TypeOK'
  <2>1. regulators' \in Seq(Edges) /\ UNCHANGED <<now, loads, batteries, on>> /\ Accrue(loads)
    BY <1>1 DEF AddRegulator, TypeOK
  <2>. QED
    BY <1>0, <2>1, AccrueFacts DEF TypeOK
<1>2. ASSUME NEW e \in Edges, Switch(e) PROVE TypeOK'
  BY <1>2 DEF Switch, TypeOK
<1>3. ASSUME NEW b \in Battery, AddBattery(b) PROVE TypeOK'
  BY <1>0, <1>3, AccrueFacts DEF AddBattery, TypeOK
<1>4. ASSUME NEW l \in Load, NEW a \in Amps, SetLoad(l, a) PROVE TypeOK'
  <2>1. loads' \in [Load -> Amps] /\ UNCHANGED <<now, regulators, batteries, on>> /\ Accrue(loads)
    BY <1>4 DEF SetLoad, OperatingPoint, TypeOK
  <2>. QED
    BY <1>0, <2>1, AccrueFacts DEF TypeOK
<1>5. CASE Report
  BY <1>0, <1>5, AccrueFacts DEF Report, TypeOK
<1>6. CASE Tick
  <2>1. now' \in 0 .. MaxTime /\ lastT' \in 0 .. now'
    BY <1>0, <1>6 DEF Tick, TypeOK
  <2>. QED
    BY <1>6, <2>1 DEF Tick, TypeOK
<1>7. CASE UNCHANGED vars
  BY <1>7 DEF vars, TypeOK
<1>. QED
  BY <1>1, <1>2, <1>3, <1>4, <1>5, <1>6, <1>7 DEF Next

(* Currents and charges are naturals, and no accrual is ahead of the       *)
(* clock, whatever the board: rail_currents gets to an end and to a        *)
(* current for every rail.                                                 *)
THEOREM PowerIsTyped == Spec => []TypeOK
<1>. QED
  BY InitTypeOK, StepTypeOK, PTL DEF Spec
-----------------------------------------------------------------------------
(* Once accrued, the meter reads what the books say. *)
LEMMA AccrueReads ==
  ASSUME TypeOK, TypeOK', Accrue(loads), now' = now
  PROVE  Meter!Change
<1>. DEFINE amps == RailCurrents(loads)
<1>1. /\ lastT' = now
      /\ charge' = [r \in Rail |-> charge[r] + amps[r] * (now - lastT)]
      /\ charge' \in [Rail -> Nat]
  BY AccrueFacts
<1>2. RailCurrents(loads)' \in [Rail -> Nat]
  BY CurrentsNext DEF CurrentsOK
<1>3. now \in Nat
  BY LoadsAreCurrents
<1>4. Metered = charge'
  BY <1>1 DEF Metered
<1>5. Metered' = charge'
  <2>. DEFINE next == RailCurrents(loads)'
  <2>1. Metered' = [r \in Rail |-> charge'[r] + next[r] * (now' - lastT')]
    BY DEF Metered
  <2>2. now' - lastT' = 0
    BY <1>1, <1>3
  <2>3. next \in [Rail -> Nat]
    BY <1>2
  <2>. HIDE DEF next
  <2>4. \A r \in Rail : charge'[r] + next[r] * 0 = charge'[r]
    BY <1>1, <2>3, Products
  <2>5. Metered' = [r \in Rail |-> charge'[r]]
    BY <2>1, <2>2, <2>4
  <2>. QED
    BY <1>1, <2>5
<1>. QED
  BY <1>2, <1>4, <1>5 DEF Meter!Change

LEMMA StepMeters ==
  ASSUME TypeOK, TypeOK', [Next]_vars, on' = on
  PROVE  [Meter!Next]_<<now, RailCurrents(loads), Metered>>
<1>1. ASSUME NEW e \in Edges, AddRegulator(e) PROVE Meter!Next
  BY <1>1, AccrueReads DEF AddRegulator, Meter!Next
<1>2. ASSUME NEW e \in Edges, Switch(e) PROVE FALSE
  <2>1. on' = [on EXCEPT ![e] = ~on[e]] /\ on \in [Edges -> BOOLEAN]
    BY <1>2 DEF Switch, TypeOK
  <2>2. on'[e] = ~on[e] /\ on[e] \in BOOLEAN
    BY <2>1
  <2>. QED
    BY <2>2
<1>3. ASSUME NEW b \in Battery, AddBattery(b) PROVE Meter!Next
  BY <1>3, AccrueReads DEF AddBattery, Meter!Next
<1>4. ASSUME NEW l \in Load, NEW a \in Amps, SetLoad(l, a) PROVE Meter!Next
  BY <1>4, AccrueReads DEF SetLoad, OperatingPoint, Meter!Next
<1>5. CASE Report
  BY <1>5, AccrueReads DEF Report, Meter!Next
<1>6. CASE Tick
  <2>1. /\ now' = now + 1
        /\ UNCHANGED <<loads, regulators, batteries, on, lastT, charge, peak, drained>>
    BY <1>6 DEF Tick
  <2>2. RailCurrents(loads)' = RailCurrents(loads)
    BY <2>1 DEF RailCurrents, AfterPass, ReflectAll, Reflected, Reflect
  <2>. DEFINE amps == RailCurrents(loads)
  <2>3. /\ now \in Nat /\ lastT \in Nat /\ now - lastT \in Nat
        /\ charge \in [Rail -> Nat] /\ amps \in [Rail -> Nat]
    BY LoadsAreCurrents
  <2>4. Metered' = [r \in Rail |-> charge[r] + amps[r] * (now + 1 - lastT)]
    <3>. DEFINE next == RailCurrents(loads)'
    <3>1. Metered' = [r \in Rail |-> charge'[r] + next[r] * (now' - lastT')]
      BY DEF Metered
    <3>2. now' - lastT' = now + 1 - lastT /\ charge' = charge
      BY <2>1, <2>3
    <3>3. next = amps
      BY <2>2
    <3>. HIDE DEF next, amps
    <3>. QED
      BY <3>1, <3>2, <3>3
  <2>5. Metered = [r \in Rail |-> charge[r] + amps[r] * (now - lastT)]
    BY DEF Metered
  <2>. HIDE DEF amps
  <2>6. \A r \in Rail : charge[r] + amps[r] * (now + 1 - lastT) = charge[r] + amps[r] * (now - lastT) + amps[r]
    <3>. DEFINE dt == now - lastT
    <3>1. now + 1 - lastT = dt + 1 /\ dt \in Nat
      BY <2>3
    <3>. HIDE DEF dt
    <3>2. \A r \in Rail : charge[r] \in Nat /\ amps[r] * (dt + 1) = amps[r] * dt + amps[r] /\ amps[r] * dt \in Nat /\ amps[r] \in Nat
      BY <2>3, <3>1, Products
    <3>3. \A r \in Rail : charge[r] + amps[r] * (dt + 1) = charge[r] + amps[r] * dt + amps[r]
      BY <3>2
    <3>. QED
      BY <3>1, <3>3 DEF dt
  <2>7. Metered' = [r \in Rail |-> Metered[r] + amps[r]]
    BY <2>4, <2>5, <2>6
  <2>. QED
    BY <2>1, <2>2, <2>7 DEF Meter!Next, Meter!Elapse, amps
<1>7. CASE UNCHANGED vars
  <2>1. RailCurrents(loads)' = RailCurrents(loads)
    BY <1>7 DEF vars, RailCurrents, AfterPass, ReflectAll, Reflected, Reflect
  <2>. QED
    BY <1>7, <2>1 DEF vars, Metered
<1>. QED
  BY <1>1, <1>2, <1>3, <1>4, <1>5, <1>6, <1>7 DEF Next

(* The engine samples nothing and yet is an exact meter of every rail, for *)
(* any board, as long as no edge changes over unannounced.                 *)
THEOREM EngineMetersLoads == Spec => MetersLoads
<1>1. TypeOK /\ TypeOK' /\ [Next]_vars => [on' = on => [Meter!Next]_<<now, RailCurrents(loads), Metered>>]_vars
  BY StepMeters
<1>. QED
  BY <1>1, PowerIsTyped, PTL DEF Spec, MetersLoads
-----------------------------------------------------------------------------
(* Kirchhoff's law, for the edges D that are reflected so far: no other    *)
(* edge draws on what one of them was reflected from.                      *)
Draws(a) == [e \in Edges |-> Reflect(e, a[To[e]])]
At(D, r) == {e \in D : From[e] = r}
Registered == Range(regulators)

Solved(ld, D, a) ==
  /\ D \subseteq Registered /\ a \in Currents
  /\ \A e \in D, f \in Registered \ D : From[f] # To[e]
  /\ \A r \in Rail : a[r] = Direct(ld)[r] + SumFunctionOnSet(Draws(a), At(D, r))

LEMMA RegisteredFacts ==
  ASSUME Wired
  PROVE  /\ Registered \subseteq Edges /\ IsFiniteSet(Registered)
         /\ Len(regulators) \in Nat /\ Cardinality(Registered) <= Len(regulators)
         /\ Registered = {regulators[i] : i \in 1 .. Len(regulators)}
<1>. DEFINE n == Len(regulators)
            h == [i \in 1 .. n |-> regulators[i]]
<1>1. n \in Nat /\ Registered = {regulators[i] : i \in 1 .. n} /\ Registered \subseteq Edges
  BY DEF Wired, Registered, Range
<1>2. IsFiniteSet(Registered)
  BY <1>1, PowerAssumption, FS_Subset
<1>3. Cardinality(Registered) <= n
  <2>1. h \in Surjection(1 .. n, Registered)
    BY <1>1 DEF Surjection
  <2>2. ExistsSurjection(1 .. n, Registered)
    BY <2>1 DEF ExistsSurjection
  <2>. QED
    BY <1>1, <2>2, FS_SurjCardinalityBound
<1>. QED
  BY <1>1, <1>2, <1>3

LEMMA DrawsType ==
  ASSUME Wired, NEW a \in Currents, NEW D \in SUBSET Registered, NEW r
  PROVE  /\ IsFiniteSet(At(D, r)) /\ At(D, r) \subseteq Edges
         /\ \A e \in Edges : Draws(a)[e] \in Nat
         /\ SumFunctionOnSet(Draws(a), At(D, r)) \in Nat
<1>1. At(D, r) \in SUBSET Registered /\ IsFiniteSet(Registered) /\ Registered \subseteq Edges
  BY RegisteredFacts DEF At
<1>2. IsFiniteSet(At(D, r))
  BY <1>1, FS_Subset
<1>3. ASSUME NEW e \in Edges PROVE Draws(a)[e] \in Nat
  <2>1. a[To[e]] \in Nat
    BY PowerAssumption DEF Currents
  <2>. QED
    BY <2>1, ReflectType DEF Draws
<1>4. \A e \in At(D, r) : Draws(a)[e] \in Nat
  BY <1>1, <1>3
<1>. QED
  BY <1>1, <1>2, <1>3, <1>4, SumTakesOut

(* Reflecting an edge on whose output rail nothing is left to draw. *)
LEMMA ReflectSolves ==
  ASSUME Wired, NEW ld \in [Load -> Nat], NEW D, NEW a, Solved(ld, D, a),
         NEW e \in Registered \ D, \A f \in Registered \ D : From[f] # To[e]
  PROVE  Solved(ld, D \cup {e}, Reflected(e)[a])
<1>. DEFINE b == Reflected(e)[a]
            E == D \cup {e}
<1>1. D \subseteq Registered /\ a \in Currents /\ e \in Edges /\ Registered \subseteq Edges
  BY RegisteredFacts DEF Solved
<1>2. From[e] \in Rail /\ To[e] \in Rail /\ \A d \in Edges : To[d] \in Rail
  BY <1>1, PowerAssumption
<1>3. b = [a EXCEPT ![From[e]] = a[From[e]] + Reflect(e, a[To[e]])] /\ b \in Currents
  BY <1>1, ReflectedType
<1>. HIDE DEF b
<1>4. \A r \in Rail : b[r] = IF r = From[e] THEN a[r] + Draws(a)[e] ELSE a[r]
  BY <1>1, <1>2, <1>3 DEF Currents, Draws
<1>5. \A d \in E : From[e] # To[d]
  BY DEF Solved
<1>6. ASSUME NEW d \in E PROVE Draws(b)[d] = Draws(a)[d]
  <2>1. d \in Edges /\ To[d] \in Rail
    BY <1>1, <1>2
  <2>2. b[To[d]] = a[To[d]]
    BY <1>4, <1>5, <2>1
  <2>. QED
    BY <2>1, <2>2 DEF Draws
<1>7. ASSUME NEW r \in Rail PROVE b[r] = Direct(ld)[r] + SumFunctionOnSet(Draws(b), At(E, r))
  <2>. DEFINE old == SumFunctionOnSet(Draws(a), At(D, r))
              new == SumFunctionOnSet(Draws(b), At(E, r))
  <2>0. E \in SUBSET Registered /\ D \in SUBSET Registered
    BY <1>1
  <2>1. /\ IsFiniteSet(At(E, r)) /\ IsFiniteSet(At(D, r)) /\ old \in Nat
        /\ \A d \in Edges : Draws(a)[d] \in Nat /\ Draws(b)[d] \in Nat
    BY <1>1, <1>3, <2>0, DrawsType
  <2>2. SumFunctionOnSet(Draws(b), At(D, r)) = old
    <3>1. \A d \in At(D, r) : Draws(b)[d] \in Nat /\ Draws(b)[d] = Draws(a)[d]
      BY <1>1, <1>6, <2>1 DEF At
    <3>. QED
      BY <2>1, <3>1, SumsSame
  <2>3. a[r] = Direct(ld)[r] + old /\ Direct(ld)[r] \in Nat
    BY DirectType DEF Solved, Currents
  <2>4. CASE r = From[e]
    <3>1. e \in At(E, r) /\ At(E, r) \ {e} = At(D, r)
      BY <2>4 DEF At
    <3>2. \A d \in At(E, r) : Draws(b)[d] \in Nat
      BY <1>1, <2>1 DEF At
    <3>3. new = Draws(b)[e] + SumFunctionOnSet(Draws(b), At(E, r) \ {e})
      BY <2>1, <3>1, <3>2, SumTakesOut
    <3>4. new = Draws(a)[e] + old
      BY <1>6, <2>2, <3>1, <3>3
    <3>5. Draws(a)[e] \in Nat /\ b[r] = a[r] + Draws(a)[e]
      BY <1>1, <1>4, <2>1, <2>4
    <3>. HIDE DEF old, new
    <3>6. b[r] = Direct(ld)[r] + new
      BY <2>1, <2>3, <3>4, <3>5
    <3>. QED
      BY <3>6 DEF new
  <2>5. CASE r # From[e]
    <3>1. At(E, r) = At(D, r)
      BY <2>5 DEF At
    <3>. QED
      BY <1>4, <2>2, <2>3, <2>5, <3>1
  <2>. QED
    BY <2>4, <2>5
<1>8. \A d \in E, f \in Registered \ E : From[f] # To[d]
  BY DEF Solved
<1>9. E \subseteq Registered
  BY <1>1
<1>. QED
  BY <1>3, <1>7, <1>8, <1>9 DEF Solved, b

(* A pass over leaves reflects them all. *)
LEMMA PassSolves ==
  ASSUME Wired, Distinct, \A e \in Edges : From[e] # To[e], NEW ld \in [Load -> Nat],
         NEW left \in SUBSET Registered, NEW a, Solved(ld, Registered \ left, a),
         NEW S \in SUBSET left, \A e \in S : Leaf(e, left)
  PROVE  Solved(ld, Registered \ (left \ S), ReflectAll(S, a))
<1>. DEFINE n == Len(regulators)
            D(i) == (Registered \ left) \cup {e \in S : \E j \in 1 .. i : regulators[j] = e}
<1>1. /\ n \in Nat /\ Registered \subseteq Edges /\ a \in Currents
      /\ Registered = {regulators[i] : i \in 1 .. n}
  BY RegisteredFacts DEF Solved
<1>2. PICK g : Along(S, a, g) /\ ReflectAll(S, a) = g[n]
  BY AlongExists
<1>3. /\ g[0] = a
      /\ \A i \in 1 .. n : g[i] = IF regulators[i] \in S THEN Reflected(regulators[i])[g[i - 1]] ELSE g[i - 1]
  BY <1>1, <1>2, AlongFacts
<1>4. \A i, j \in 1 .. n : regulators[i] = regulators[j] => i = j
  BY DEF Distinct
<1>. HIDE DEF n
<1>. DEFINE T == {i \in 0 .. n : Solved(ld, D(i), g[i])}
<1>5. 0 \in T
  <2>1. D(0) = Registered \ left
    OBVIOUS
  <2>. QED
    BY <1>1, <1>3, <2>1
<1>6. ASSUME NEW i \in 1 .. n, i - 1 \in T PROVE i \in T
  <2>. DEFINE e == regulators[i]
  <2>1. i \in 0 .. n /\ Solved(ld, D(i - 1), g[i - 1]) /\ e \in Registered
    BY <1>1, <1>6
  <2>2. \A j : j \in 1 .. i <=> (j \in 1 .. i - 1 \/ j = i)
    BY <1>1
  <2>3. CASE e \in S
    <3>1. D(i) = D(i - 1) \cup {e}
      BY <2>2, <2>3
    <3>2. e \notin D(i - 1)
      <4>1. ASSUME NEW j \in 1 .. i - 1, regulators[j] = e PROVE FALSE
        <5>1. j \in 1 .. n /\ j # i
          BY <1>1
        <5>. QED
          BY <1>4, <4>1, <5>1
      <4>. QED
        BY <2>3, <4>1
    <3>3. ASSUME NEW f \in Registered \ D(i - 1) PROVE From[f] # To[e]
      <4>1. f \in left
        OBVIOUS
      <4>2. CASE f = e
        BY <1>1, <2>1, <4>2
      <4>3. CASE f # e
        BY <2>3, <4>1, <4>3 DEF Leaf
      <4>. QED
        BY <4>2, <4>3
    <3>4. g[i] = Reflected(e)[g[i - 1]]
      BY <1>3, <2>3
    <3>. HIDE DEF D, e
    <3>5. Solved(ld, D(i - 1) \cup {e}, Reflected(e)[g[i - 1]])
      BY <2>1, <3>2, <3>3, ReflectSolves
    <3>. QED
      BY <2>1, <3>1, <3>4, <3>5
  <2>4. CASE e \notin S
    <3>1. D(i) = D(i - 1)
      BY <2>2, <2>4
    <3>2. g[i] = g[i - 1]
      BY <1>3, <2>4
    <3>. HIDE DEF D, e
    <3>. QED
      BY <2>1, <3>1, <3>2
  <2>. QED
    BY <2>3, <2>4
<1>7. Solved(ld, D(n), g[n])
  <2>1. \A i \in 0 .. n : i \in T
    <3>. HIDE DEF T
    <3>. QED
      BY <1>1, <1>5, <1>6, UpTo
  <2>2. n \in 0 .. n
    BY <1>1
  <2>. QED
    BY <2>1, <2>2
<1>8. D(n) = Registered \ (left \ S)
  BY <1>1
<1>. QED
  BY <1>2, <1>7, <1>8

LEMMA LeavesExist ==
  ASSUME Tree, NEW left \in SUBSET Edges
  PROVE  /\ Pass(left) \subseteq left /\ \A e \in Pass(left) : Leaf(e, left)
         /\ left # {} => Pass(left) # {}
<1>1. PICK height \in [Rail -> Nat] : \A e \in Edges : height[To[e]] < height[From[e]]
  BY DEF Tree
<1>2. ASSUME left # {} PROVE \E e \in left : Leaf(e, left)
  <2>. DEFINE H == {height[To[e]] : e \in left}
  <2>1. H \in SUBSET Nat /\ H # {}
    BY <1>2, PowerAssumption
  <2>2. PICK x \in H : \A y \in H : x <= y
    BY <2>1, LeastNat
  <2>3. PICK e \in left : x = height[To[e]]
    BY <2>2
  <2>4. ASSUME NEW f \in left \ {e}, From[f] = To[e] PROVE FALSE
    <3>1. height[To[f]] < height[To[e]]
      BY <1>1, <2>4
    <3>2. height[To[e]] <= height[To[f]]
      BY <2>2, <2>3
    <3>3. height[To[f]] \in Nat /\ height[To[e]] \in Nat
      BY PowerAssumption
    <3>. QED
      BY <3>1, <3>2, <3>3
  <2>. QED
    BY <2>4 DEF Leaf
<1>. QED
  BY <1>2 DEF Pass

LEMMA TreeHasNoLoops ==
  ASSUME Tree
  PROVE  \A e \in Edges : From[e] # To[e]
<1>1. PICK height \in [Rail -> Nat] : \A e \in Edges : height[To[e]] < height[From[e]]
  BY DEF Tree
<1>2. ASSUME NEW e \in Edges PROVE From[e] # To[e]
  <2>1. height[To[e]] < height[From[e]] /\ height[To[e]] \in Nat /\ height[From[e]] \in Nat
    BY <1>1, PowerAssumption
  <2>. QED
    BY <2>1
<1>. QED
  BY <1>2

LEMMA DirectSolves ==
  ASSUME Wired, NEW ld \in [Load -> Nat]
  PROVE  Solved(ld, {}, Direct(ld))
<1>1. Direct(ld) \in Currents
  BY DirectType
<1>2. ASSUME NEW r \in Rail
      PROVE  Direct(ld)[r] = Direct(ld)[r] + SumFunctionOnSet(Draws(Direct(ld)), At({}, r))
  <2>. DEFINE f == Draws(Direct(ld))
  <2>1. At({}, r) = {}
    BY DEF At
  <2>. HIDE DEF f
  <2>2. SumFunctionOnSet(f, {}) = 0
    BY FS_EmptySet, SumStep
  <2>3. Direct(ld)[r] \in Nat
    BY <1>1 DEF Currents
  <2>. QED
    BY <2>1, <2>2, <2>3 DEF f
<1>. QED
  BY <1>1, <1>2 DEF Solved

(* The passes reflect everything: each takes at least one leaf.            *)
LEMMA CurrentsSolve ==
  ASSUME Tree, Wired, Distinct, NEW ld \in [Load -> Nat]
  PROVE  Solved(ld, Registered, RailCurrents(ld))
<1>. DEFINE n == Len(regulators)
<1>1. /\ n \in Nat /\ Registered \subseteq Edges /\ IsFiniteSet(Registered)
      /\ Cardinality(Registered) <= n
  BY RegisteredFacts
<1>2. PICK g : Passing(ld, g) /\ RailCurrents(ld) = g[n].amps
  BY PassingExists
<1>3. /\ \A k \in 0 .. n : g[k] \in Point
      /\ g[0] = [left |-> Registered, amps |-> Direct(ld)]
      /\ \A k \in 1 .. n : g[k] = AfterPass[g[k - 1]]
  BY <1>2, PassingFacts DEF Registered
<1>. HIDE DEF n
<1>. DEFINE Good(k, p) == /\ p.left \subseteq Registered /\ Cardinality(p.left) <= n - k
                          /\ Solved(ld, Registered \ p.left, p.amps)
            T == {k \in 0 .. n : Good(k, g[k])}
<1>4. 0 \in T
  <2>1. Solved(ld, {}, Direct(ld))
    BY DirectSolves
  <2>2. Registered \ Registered = {}
    OBVIOUS
  <2>3. Cardinality(Registered) <= n - 0 /\ 0 \in 0 .. n
    BY <1>1
  <2>. QED
    BY <1>3, <2>1, <2>2, <2>3
<1>5. ASSUME NEW k \in 1 .. n, k - 1 \in T PROVE k \in T
  <2>. DEFINE p == g[k - 1]
              S == Pass(p.left)
  <2>1. /\ k \in 0 .. n /\ k - 1 \in 0 .. n /\ k \in Nat
        /\ p.left \subseteq Registered /\ Cardinality(p.left) <= n - (k - 1)
        /\ Solved(ld, Registered \ p.left, p.amps)
    BY <1>1, <1>5
  <2>2. p \in Point /\ g[k] = AfterPass[p]
    BY <1>3, <2>1
  <2>3. g[k].left = p.left \ S /\ g[k].amps = ReflectAll(S, p.amps)
    <3>1. AfterPass[p] = [left |-> p.left \ S, amps |-> ReflectAll(S, p.amps)]
      BY <2>2, AfterPassFacts
    <3>. QED
      BY <2>2, <3>1
  <2>4. S \subseteq p.left /\ (\A e \in S : Leaf(e, p.left)) /\ (p.left # {} => S # {})
    BY <1>1, <2>1, LeavesExist
  <2>. HIDE DEF p, S
  <2>5. Solved(ld, Registered \ (p.left \ S), ReflectAll(S, p.amps))
    BY <2>1, <2>4, TreeHasNoLoops, PassSolves
  <2>6. Cardinality(p.left \ S) <= n - k
    <3>1. IsFiniteSet(p.left) /\ IsFiniteSet(p.left \ S)
      BY <1>1, <2>1, FS_Subset
    <3>2. Cardinality(p.left) \in Nat /\ Cardinality(p.left \ S) \in Nat
      BY <3>1, FS_CardinalityType
    <3>3. CASE p.left = {}
      BY <1>1, <2>1, <3>3, FS_EmptySet
    <3>4. CASE p.left # {}
      <4>1. p.left \ S \in SUBSET p.left /\ p.left \ S # p.left
        BY <2>4, <3>4
      <4>2. Cardinality(p.left \ S) <= Cardinality(p.left) /\ Cardinality(p.left \ S) # Cardinality(p.left)
        BY <3>1, <4>1, FS_Subset
      <4>. QED
        BY <1>1, <2>1, <3>2, <4>2
    <3>. QED
      BY <3>3, <3>4
  <2>7. Good(k, g[k])
    BY <2>1, <2>3, <2>5, <2>6
  <2>. QED
    BY <2>1, <2>7
<1>6. Good(n, g[n])
  <2>1. \A k \in 0 .. n : k \in T
    <3>. HIDE DEF T
    <3>. QED
      BY <1>1, <1>4, <1>5, UpTo
  <2>2. n \in 0 .. n
    BY <1>1
  <2>. QED
    BY <2>1, <2>2
<1>7. g[n].left = {}
  <2>1. IsFiniteSet(g[n].left)
    BY <1>1, <1>6, FS_Subset
  <2>2. Cardinality(g[n].left) \in Nat /\ Cardinality(g[n].left) <= 0
    BY <1>1, <1>6, <2>1, FS_CardinalityType
  <2>3. Cardinality(g[n].left) = 0
    BY <2>2
  <2>. QED
    BY <2>1, <2>3, FS_EmptySet
<1>8. Registered \ {} = Registered
  OBVIOUS
<1>. QED
  BY <1>2, <1>6, <1>7, <1>8

LEMMA StepDistinct == TypeOK /\ Distinct /\ [Next]_vars => Distinct'
<1>. SUFFICES ASSUME TypeOK, Distinct, [Next]_vars PROVE Distinct'
  OBVIOUS
<1>1. ASSUME NEW e \in Edges, AddRegulator(e) PROVE Distinct'
  <2>1. e \notin Range(regulators) /\ regulators' = Append(regulators, e) /\ regulators \in Seq(Edges)
    BY <1>1 DEF AddRegulator, TypeOK
  <2>. DEFINE n == Len(regulators)
  <2>2. /\ n \in Nat /\ Len(regulators') = n + 1 /\ regulators'[n + 1] = e
        /\ \A i \in 1 .. n : regulators'[i] = regulators[i] /\ regulators[i] # e
    BY <2>1 DEF Range
  <2>3. \A i \in 1 .. n + 1 : i \in 1 .. n \/ i = n + 1
    BY <2>2
  <2>4. \A i, j \in 1 .. n : regulators[i] = regulators[j] => i = j
    BY DEF Distinct
  <2>. HIDE DEF n
  <2>5. ASSUME NEW i \in 1 .. n + 1, NEW j \in 1 .. n + 1, regulators'[i] = regulators'[j] PROVE i = j
    BY <2>2, <2>3, <2>4, <2>5
  <2>. QED
    BY <2>2, <2>5 DEF Distinct
<1>2. CASE UNCHANGED regulators
  BY <1>2 DEF Distinct
<1>. QED
  BY <1>1, <1>2 DEF Next, Switch, AddBattery, SetLoad, Report, Tick, vars

(* Whatever order the edges registered in, and whichever conduct: on a     *)
(* board whose rails form a tree the leaves-first passes of rail_currents  *)
(* give the currents that obey Kirchhoff's law.                            *)
THEOREM CurrentsObeyKirchhoff == ASSUME Tree PROVE Spec => []Kirchhoff
<1>1. Init => TypeOK /\ Distinct
  BY InitTypeOK DEF Init, Distinct
<1>2. TypeOK /\ Distinct /\ [Next]_vars => (TypeOK /\ Distinct)'
  BY StepTypeOK, StepDistinct
<1>3. TypeOK /\ Distinct => Kirchhoff
  <2>. SUFFICES ASSUME TypeOK, Distinct PROVE Kirchhoff
    OBVIOUS
  <2>1. Solved(loads, Registered, RailCurrents(loads))
    BY LoadsAreCurrents, CurrentsSolve
  <2>. QED
    BY <2>1 DEF Solved, Kirchhoff, DrawnBy, Draws, At, Registered
<1>. QED
  BY <1>1, <1>2, <1>3, PTL DEF Spec
-----------------------------------------------------------------------------
(* A battery that is not yet registered has no accrual to miss, as time    *)
(* starts only when all are.                                               *)
AllRegistered == batteries = Battery \/ (now = 0 /\ lastT = 0)

IInv == AllRegistered /\ BatteryPaysRail
-----------------------------------------------------------------------------
(* An accrual charges a battery and its rail alike. *)
LEMMA AccrueKeepsBooks ==
  ASSUME IInv, NEW ld, Accrue(ld)
  PROVE  BatteryPaysRail' /\ (now = 0 /\ lastT = 0 => lastT' = 0)
<1>. DEFINE dt   == now - lastT
            amps == RailCurrents(ld)
<1>1. CASE dt <= 0
  <2>1. UNCHANGED <<lastT, charge, drained>>
    BY <1>1 DEF Accrue
  <2>. QED
    BY <2>1 DEF IInv, BatteryPaysRail
<1>2. CASE ~(dt <= 0)
  <2>1. batteries = Battery /\ ~(now = 0 /\ lastT = 0)
    BY <1>2 DEF IInv, AllRegistered
  <2>2. /\ charge' = [r \in Rail |-> charge[r] + amps[r] * dt]
        /\ drained' = [b \in Battery |->
             drained[b] + (IF b \in batteries THEN BatteryAmps(b, amps) * dt ELSE 0)]
    BY <1>2 DEF Accrue
  <2>3. ASSUME NEW b \in Battery PROVE drained'[b] = charge'[BatteryRail[b]]
    <3>1. BatteryRail[b] \in Rail
      BY PowerAssumption
    <3>2. drained'[b] = drained[b] + amps[BatteryRail[b]] * dt
      BY <2>1, <2>2 DEF BatteryAmps
    <3>3. charge'[BatteryRail[b]] = charge[BatteryRail[b]] + amps[BatteryRail[b]] * dt
      BY <2>2, <3>1
    <3>. QED
      BY <3>2, <3>3 DEF IInv, BatteryPaysRail
  <2>. QED
    BY <2>1, <2>3 DEF BatteryPaysRail
<1>. QED
  BY <1>1, <1>2

LEMMA InitIInv == Init => IInv
<1>. SUFFICES ASSUME Init PROVE IInv
  OBVIOUS
<1>1. ASSUME NEW b \in Battery PROVE drained[b] = charge[BatteryRail[b]]
  BY PowerAssumption DEF Init
<1>. QED
  BY <1>1 DEF Init, IInv, AllRegistered, BatteryPaysRail

LEMMA StepIInv == IInv /\ [Next]_vars => IInv'
<1>. SUFFICES ASSUME IInv, [Next]_vars PROVE IInv'
  OBVIOUS
<1>1. ASSUME NEW e \in Edges, AddRegulator(e) PROVE IInv'
  BY <1>1, AccrueKeepsBooks DEF AddRegulator, IInv, AllRegistered
<1>2. ASSUME NEW e \in Edges, Switch(e) PROVE IInv'
  BY <1>2 DEF Switch, IInv, AllRegistered, BatteryPaysRail
<1>3. ASSUME NEW b \in Battery, AddBattery(b) PROVE IInv'
  <2>1. CASE batteries = Battery
    BY <1>3, <2>1 DEF AddBattery
  <2>2. CASE now = 0 /\ lastT = 0
    BY <1>3, <2>2, AccrueKeepsBooks DEF AddBattery, IInv, AllRegistered
  <2>. QED
    BY <2>1, <2>2 DEF IInv, AllRegistered
<1>4. ASSUME NEW l \in Load, NEW a \in Amps, SetLoad(l, a) PROVE IInv'
  BY <1>4, AccrueKeepsBooks DEF SetLoad, IInv, AllRegistered
<1>5. CASE Report
  BY <1>5, AccrueKeepsBooks DEF Report, IInv, AllRegistered
<1>6. CASE Tick
  BY <1>6 DEF Tick, Started, IInv, AllRegistered, BatteryPaysRail
<1>7. CASE UNCHANGED vars
  BY <1>7 DEF vars, IInv, AllRegistered, BatteryPaysRail
<1>. QED
  BY <1>1, <1>2, <1>3, <1>4, <1>5, <1>6, <1>7 DEF Next

(* Battery.drain is handed the current that the rail is charged with, over *)
(* the same interval: the two books never part.                            *)
THEOREM BatteryAndRailAgree == Spec => []BatteryPaysRail
<1>1. IInv => BatteryPaysRail
  BY DEF IInv
<1>. QED
  BY <1>1, InitIInv, StepIInv, PTL DEF Spec
=============================================================================
