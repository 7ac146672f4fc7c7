------------------------------ MODULE FiniteSums ------------------------------
(***************************************************************************)
(* Sums over finite sets, for the books of the system: the balance of an   *)
(* account is compared with the sum of the rows behind it.  The modules    *)
(* write these sums with SumFunctionOnSet of the community modules, which  *)
(* takes the elements in an order of CHOOSE's making; the lemmas here say  *)
(* what such a sum is whatever that order.                                 *)
(*                                                                         *)
(* They are proved by induction over the subsets of a finite set, the good *)
(* subsets being a set and not an operator (GrowingSets): an induction     *)
(* needs no more than a smallest counterexample, which LeastNatural gives. *)
(***************************************************************************)
EXTENDS Functions, FiniteSetTheorems, TLAPS

\* Numbers that are not none have a least one.
LEMMA LeastNatural ==
  ASSUME NEW T \in SUBSET Nat, T # {}
  PROVE  \E n \in T : \A k \in T : n <= k
<1>1. PICK n \in T : \A k \in T : ~(<<k, n>> \in OpToRel(<, Nat))
  BY NatLessThanWellFounded, WFMin
<1>2. \A k \in T : ~(k < n)
  BY <1>1 DEF OpToRel
<1> QED BY <1>2

\* Induction: when a set is good as soon as it is good without any one of its
\* elements, every subset of a finite set is.
LEMMA GrowingSets ==
  ASSUME NEW S, IsFiniteSet(S), NEW Good \in SUBSET SUBSET S,
         \A T \in SUBSET S : (\A x \in T : T \ {x} \in Good) => T \in Good
  PROVE  Good = SUBSET S
<1> DEFINE Bad == {n \in Nat : \E T \in SUBSET S : T \notin Good /\ Cardinality(T) = n}
<1>1. SUFFICES ASSUME NEW U \in SUBSET S, U \notin Good PROVE FALSE
  OBVIOUS
<1>2. Bad # {}
  <2>1. Cardinality(U) \in Nat BY FS_Subset, FS_CardinalityType
  <2> QED BY <1>1, <2>1
<1>3. PICK n \in Bad : \A k \in Bad : n <= k
  <2> HIDE DEF Bad
  <2>1. Bad \in SUBSET Nat BY DEF Bad
  <2> QED BY <1>2, <2>1, LeastNatural
<1>4. PICK T \in SUBSET S : T \notin Good /\ Cardinality(T) = n
  OBVIOUS
<1>5. ASSUME NEW x \in T PROVE T \ {x} \in Good
  <2>1. IsFiniteSet(T) BY FS_Subset
  <2>2. IsFiniteSet(T \ {x}) /\ Cardinality(T \ {x}) = n - 1
    BY <2>1, <1>4, FS_RemoveElement
  <2>3. n - 1 \in Nat
    BY <2>2, FS_CardinalityType
  <2>4. n \in Nat OBVIOUS
  <2>5. n - 1 \notin Bad
    BY <1>3, <2>3, <2>4
  <2> QED BY <2>2, <2>3, <2>5
<1> QED BY <1>4, <1>5

-----------------------------------------------------------------------------
\* The element the operator of the community modules takes first.
any(S) == CHOOSE x \in S : TRUE

\* g computes the sums of f over all subsets of S.
Sums(g, f, S) ==
  g = [T \in SUBSET S |->
         IF T = {} THEN 0
         ELSE f[any(T)] + g[T \ {any(T)}]]

\* It is an element, where there is one.
LEMMA AnyElement == ASSUME NEW S, S # {} PROVE any(S) \in S
  BY DEF any

\* Two tables of sums of the same function agree on the sets both hold.
LEMMA SumsAgree ==
  ASSUME NEW f, NEW g, NEW h, NEW S, NEW T, Sums(g, f, S), Sums(h, f, T),
         NEW U \in SUBSET (S \cap T), IsFiniteSet(U)
  PROVE  g[U] = h[U]
<1> DEFINE Good == {V \in SUBSET U : g[V] = h[V]}
<1>1. ASSUME NEW V \in SUBSET U, \A x \in V : V \ {x} \in Good
      PROVE  V \in Good
  <2> DEFINE x == any(V)
  <2>1. CASE V = {} BY <2>1 DEF Sums
  <2>2. CASE V # {}
    <3>1. x \in V BY <2>2, AnyElement
    <3>2. g[V] = f[x] + g[V \ {x}]
      <4>1. V \in SUBSET S OBVIOUS
      <4> QED BY <2>2, <4>1 DEF Sums
    <3>3. h[V] = f[x] + h[V \ {x}]
      <4>1. V \in SUBSET T OBVIOUS
      <4> QED BY <2>2, <4>1 DEF Sums
    <3> QED BY <3>1, <3>2, <3>3, <1>1
  <2> QED BY <2>1, <2>2
<1>2. Good = SUBSET U
  <2> HIDE DEF Good
  <2>1. Good \in SUBSET SUBSET U BY DEF Good
  <2> QED BY <1>1, <2>1, GrowingSets
<1> QED BY <1>2

\* A table of sums exists for every finite set: the recursive function that
\* the community operator chooses is there to be chosen.
LEMMA SumsExist ==
  ASSUME NEW f, NEW S, IsFiniteSet(S)
  PROVE  \E g : Sums(g, f, S)
<1> DEFINE Good == {T \in SUBSET S : \E g : Sums(g, f, T)}
<1>1. ASSUME NEW T \in SUBSET S, \A x \in T : T \ {x} \in Good
      PROVE  T \in Good
  <2> DEFINE below(U) == CHOOSE h : \E y \in T \ U : Sums(h, f, T \ {y})
             of(U) == IF U = {} THEN 0
                      ELSE f[any(U)] + below(U \ {any(U)})[U \ {any(U)}]
             g == [U \in SUBSET T |-> of(U)]
  <2>1. ASSUME NEW U \in SUBSET T, U # T
        PROVE  \E y \in T \ U : Sums(below(U), f, T \ {y})
    <3>1. PICK y \in T \ U : TRUE BY <2>1
    <3>2. \E h : Sums(h, f, T \ {y}) BY <1>1
    <3>3. \E h : \E z \in T \ U : Sums(h, f, T \ {z}) BY <3>1, <3>2
    <3> QED BY <3>3
  <2>2. ASSUME NEW U \in SUBSET T, U # T PROVE below(U)[U] = of(U)
    <3>1. PICK y \in T \ U : Sums(below(U), f, T \ {y}) BY <2>1, <2>2
    <3>2. CASE U = {} BY <3>1, <3>2 DEF Sums
    <3>3. CASE U # {}
      <4> DEFINE x == any(U)
      <4>1. x \in U BY <3>3, AnyElement
      <4>2. below(U)[U] = f[x] + below(U)[U \ {x}]
        <5>1. U \in SUBSET (T \ {y}) OBVIOUS
        <5> HIDE DEF below
        <5> QED BY <3>1, <3>3, <5>1 DEF Sums
      <4>3. PICK z \in T \ (U \ {x}) : Sums(below(U \ {x}), f, T \ {z})
        <5>1. U \ {x} \in SUBSET T /\ U \ {x} # T BY <4>1
        <5> HIDE DEF below, x
        <5> QED BY <5>1, <2>1
      <4>4. below(U)[U \ {x}] = below(U \ {x})[U \ {x}]
        <5>1. U \ {x} \in SUBSET ((T \ {y}) \cap (T \ {z})) OBVIOUS
        <5>2. IsFiniteSet(U \ {x}) BY FS_Subset
        <5> HIDE DEF below, x
        <5> QED BY <3>1, <4>3, <5>1, <5>2, SumsAgree
      <4> HIDE DEF below
      <4> QED BY <4>2, <4>4, <3>3
    <3> QED BY <3>2, <3>3
  <2>3. ASSUME NEW U \in SUBSET T, U # {}
        PROVE  g[U] = f[any(U)] + g[U \ {any(U)}]
    <3> DEFINE x == any(U)
    <3>1. x \in U /\ U \ {x} \in SUBSET T /\ U \ {x} # T BY <2>3, AnyElement
    <3>2. g[U] = f[x] + below(U \ {x})[U \ {x}] BY <2>3
    <3>3. below(U \ {x})[U \ {x}] = g[U \ {x}]
      <4> HIDE DEF x, below
      <4> QED BY <3>1, <2>2
    <3> HIDE DEF g, below
    <3> QED BY <3>2, <3>3
  <2>4. Sums(g, f, T)
    <3>1. g[{}] = 0 OBVIOUS
    <3>2. g = [U \in SUBSET T |-> g[U]] OBVIOUS
    <3> HIDE DEF g
    <3> QED BY <2>3, <3>1, <3>2 DEF Sums
  <2> QED BY <2>4
<1>2. Good = SUBSET S
  <2> HIDE DEF Good
  <2>1. Good \in SUBSET SUBSET S BY DEF Good
  <2> QED BY <1>1, <2>1, GrowingSets
<1> QED BY <1>2

\* The community operator looks its sum up in such a table.
LEMMA SumIsSums ==
  ASSUME NEW f, NEW S, IsFiniteSet(S)
  PROVE  \E g : Sums(g, f, S) /\ SumFunctionOnSet(f, S) = g[S]
<1> DEFINE g == CHOOSE g : Sums(g, f, S)
<1>1. Sums(g, f, S) BY SumsExist
<1>2. SumFunctionOnSet(f, S) = g[S]
  BY DEF SumFunctionOnSet, FoldFunctionOnSet, MapThenFoldSet, Sums, any
<1> QED BY <1>1, <1>2

\* So it satisfies the equation a sum is computed by.
LEMMA SumEquation ==
  ASSUME NEW f, NEW S, IsFiniteSet(S)
  PROVE  SumFunctionOnSet(f, S) =
           IF S = {} THEN 0
           ELSE f[any(S)] + SumFunctionOnSet(f, S \ {any(S)})
<1> DEFINE x == any(S)
<1>1. PICK g : Sums(g, f, S) /\ SumFunctionOnSet(f, S) = g[S] BY SumIsSums
<1>2. CASE S = {} BY <1>1, <1>2 DEF Sums
<1>3. CASE S # {}
  <2>1. IsFiniteSet(S \ {x}) BY FS_Subset
  <2>2. PICK h : /\ Sums(h, f, S \ {x})
                 /\ SumFunctionOnSet(f, S \ {x}) = h[S \ {x}]
    <3> HIDE DEF x
    <3> QED BY <2>1, SumIsSums
  <2>3. g[S \ {x}] = h[S \ {x}]
    <3>1. S \ {x} \in SUBSET (S \cap (S \ {x})) OBVIOUS
    <3> HIDE DEF x
    <3> QED BY <1>1, <2>1, <2>2, <3>1, SumsAgree
  <2>4. g[S] = f[x] + g[S \ {x}]
    <3>1. S \in SUBSET S OBVIOUS
    <3> QED BY <1>1, <1>3, <3>1 DEF Sums
  <2> QED BY <1>1, <1>3, <2>2, <2>3, <2>4
<1> QED BY <1>2, <1>3

\* Nothing adds up to 0.
LEMMA SumOfNone == ASSUME NEW f PROVE SumFunctionOnSet(f, {}) = 0
  BY SumEquation, FS_EmptySet

\* Integers add up to an integer.
LEMMA SumType ==
  ASSUME NEW f, NEW S, IsFiniteSet(S), \A x \in S : f[x] \in Int
  PROVE  SumFunctionOnSet(f, S) \in Int
<1> DEFINE Good == {T \in SUBSET S : SumFunctionOnSet(f, T) \in Int}
<1>1. ASSUME NEW T \in SUBSET S, \A x \in T : T \ {x} \in Good
      PROVE  T \in Good
  <2> IsFiniteSet(T) BY FS_Subset
  <2>1. CASE T = {} BY <2>1, SumOfNone
  <2>2. CASE T # {}
    <3>1. PICK x \in T : SumFunctionOnSet(f, T)
                           = f[x] + SumFunctionOnSet(f, T \ {x})
      BY <2>2, SumEquation, AnyElement
    <3>2. SumFunctionOnSet(f, T \ {x}) \in Int BY <1>1
    <3>3. f[x] \in Int OBVIOUS
    <3> QED BY <3>1, <3>2, <3>3
  <2> QED BY <2>1, <2>2
<1>2. Good = SUBSET S
  <2> HIDE DEF Good
  <2>1. Good \in SUBSET SUBSET S BY DEF Good
  <2> QED BY <1>1, <2>1, GrowingSets
<1> QED BY <1>2

\* Any element may be the one that is taken out first: the sum does not depend
\* on the order.
LEMMA SumRemove ==
  ASSUME NEW f, NEW S, IsFiniteSet(S), \A x \in S : f[x] \in Int, NEW a \in S
  PROVE  SumFunctionOnSet(f, S) = f[a] + SumFunctionOnSet(f, S \ {a})
<1> DEFINE sum(T) == SumFunctionOnSet(f, T)
           Good == {T \in SUBSET S : \A y \in T : sum(T) = f[y] + sum(T \ {y})}
<1>1. ASSUME NEW T \in SUBSET S, \A x \in T : T \ {x} \in Good
      PROVE  T \in Good
  <2>1. SUFFICES ASSUME NEW y \in T PROVE sum(T) = f[y] + sum(T \ {y})
    OBVIOUS
  <2>2. IsFiniteSet(T) BY FS_Subset
  <2>3. PICK x \in T : sum(T) = f[x] + sum(T \ {x})
    BY <2>2, SumEquation, AnyElement
  <2>4. CASE x = y BY <2>3, <2>4
  <2>5. CASE x # y
    <3>1. sum(T \ {x}) = f[y] + sum((T \ {x}) \ {y}) BY <1>1, <2>5
    <3>2. sum(T \ {y}) = f[x] + sum((T \ {y}) \ {x}) BY <1>1, <2>5
    <3>3. sum((T \ {x}) \ {y}) = sum((T \ {y}) \ {x})
      <4>1. (T \ {x}) \ {y} = (T \ {y}) \ {x} OBVIOUS
      <4> QED BY <4>1
    <3>4. sum((T \ {x}) \ {y}) \in Int
      <4>1. IsFiniteSet((T \ {x}) \ {y}) BY <2>2, FS_RemoveElement
      <4> QED BY <4>1, SumType
    <3>5. f[x] \in Int /\ f[y] \in Int OBVIOUS
    <3> HIDE DEF sum, Good
    <3> QED BY <2>3, <3>1, <3>2, <3>3, <3>4, <3>5
  <2> QED BY <2>4, <2>5
<1>2. Good = SUBSET S
  <2> HIDE DEF Good
  <2>1. Good \in SUBSET SUBSET S BY DEF Good
  <2> QED BY <1>1, <2>1, GrowingSets
<1> QED BY <1>2

\* A new element adds its value: a row is inserted.
LEMMA SumAdd ==
  ASSUME NEW f, NEW S, IsFiniteSet(S), NEW a, a \notin S,
         \A x \in S \cup {a} : f[x] \in Int
  PROVE  SumFunctionOnSet(f, S \cup {a}) = f[a] + SumFunctionOnSet(f, S)
<1>1. IsFiniteSet(S \cup {a}) BY FS_AddElement
<1>2. (S \cup {a}) \ {a} = S OBVIOUS
<1> QED BY <1>1, <1>2, SumRemove

\* One value is its own sum.
LEMMA SumOfOne ==
  ASSUME NEW f, NEW a, f[a] \in Int
  PROVE  SumFunctionOnSet(f, {a}) = f[a]
<1>1. SumFunctionOnSet(f, {} \cup {a}) = f[a] + SumFunctionOnSet(f, {})
  BY FS_EmptySet, SumAdd
<1>2. {} \cup {a} = {a} OBVIOUS
<1> QED BY <1>1, <1>2, SumOfNone

\* Two values are added.
LEMMA SumOfTwo ==
  ASSUME NEW f, NEW a, NEW b, a # b, f[a] \in Int, f[b] \in Int
  PROVE  SumFunctionOnSet(f, {a, b}) = f[a] + f[b]
<1>1. SumFunctionOnSet(f, {b} \cup {a}) = f[a] + SumFunctionOnSet(f, {b})
  BY FS_Singleton, SumAdd
<1>2. {b} \cup {a} = {a, b} OBVIOUS
<1> QED BY <1>1, <1>2, SumOfOne

\* Functions that agree on a set have one sum over it.
LEMMA SumAgrees ==
  ASSUME NEW f, NEW g, NEW S, IsFiniteSet(S), \A x \in S : f[x] = g[x]
  PROVE  SumFunctionOnSet(f, S) = SumFunctionOnSet(g, S)
<1> DEFINE Good == {T \in SUBSET S : SumFunctionOnSet(f, T) = SumFunctionOnSet(g, T)}
<1>1. ASSUME NEW T \in SUBSET S, \A x \in T : T \ {x} \in Good
      PROVE  T \in Good
  <2> IsFiniteSet(T) BY FS_Subset
  <2>1. CASE T = {} BY <2>1, SumOfNone
  <2>2. CASE T # {}
    <3> DEFINE x == any(T)
    <3>1. x \in T BY <2>2, AnyElement
    <3>2. SumFunctionOnSet(f, T) = f[x] + SumFunctionOnSet(f, T \ {x})
      BY <2>2, SumEquation, AnyElement
    <3>3. SumFunctionOnSet(g, T) = g[x] + SumFunctionOnSet(g, T \ {x})
      BY <2>2, SumEquation, AnyElement
    <3>4. SumFunctionOnSet(f, T \ {x}) = SumFunctionOnSet(g, T \ {x}) /\ f[x] = g[x]
      BY <3>1, <1>1
    <3> HIDE DEF x
    <3> QED BY <3>2, <3>3, <3>4
  <2> QED BY <2>1, <2>2
<1>2. Good = SUBSET S
  <2> HIDE DEF Good
  <2>1. Good \in SUBSET SUBSET S BY DEF Good
  <2> QED BY <1>1, <2>1, GrowingSets
<1> QED BY <1>2

\* Larger values have a larger sum.
LEMMA SumMonotone ==
  ASSUME NEW f, NEW g, NEW S, IsFiniteSet(S),
         \A x \in S : f[x] \in Int /\ g[x] \in Int /\ f[x] <= g[x]
  PROVE  SumFunctionOnSet(f, S) <= SumFunctionOnSet(g, S)
<1> DEFINE Good == {T \in SUBSET S : SumFunctionOnSet(f, T) <= SumFunctionOnSet(g, T)}
<1>1. ASSUME NEW T \in SUBSET S, \A x \in T : T \ {x} \in Good
      PROVE  T \in Good
  <2> IsFiniteSet(T) BY FS_Subset
  <2>1. CASE T = {} BY <2>1, SumOfNone
  <2>2. CASE T # {}
    <3>1. PICK x \in T : TRUE BY <2>2
    <3>2. SumFunctionOnSet(f, T) = f[x] + SumFunctionOnSet(f, T \ {x})
      BY SumRemove
    <3>3. SumFunctionOnSet(g, T) = g[x] + SumFunctionOnSet(g, T \ {x})
      BY SumRemove
    <3>4. SumFunctionOnSet(f, T \ {x}) <= SumFunctionOnSet(g, T \ {x})
      BY <1>1
    <3>5. SumFunctionOnSet(f, T \ {x}) \in Int /\ SumFunctionOnSet(g, T \ {x}) \in Int
      <4>1. IsFiniteSet(T \ {x}) BY FS_RemoveElement
      <4> QED BY <4>1, SumType
    <3>6. f[x] \in Int /\ g[x] \in Int /\ f[x] <= g[x] OBVIOUS
    <3> QED BY <3>2, <3>3, <3>4, <3>5, <3>6
  <2> QED BY <2>1, <2>2
<1>2. Good = SUBSET S
  <2> HIDE DEF Good
  <2>1. Good \in SUBSET SUBSET S BY DEF Good
  <2> QED BY <1>1, <2>1, GrowingSets
<1> QED BY <1>2

\* A sum is more when a part of it is, and no other part less.
LEMMA SumStrict ==
  ASSUME NEW f, NEW g, NEW S, IsFiniteSet(S), NEW a \in S,
         \A x \in S : f[x] \in Int /\ g[x] \in Int /\ f[x] <= g[x], f[a] < g[a]
  PROVE  SumFunctionOnSet(f, S) < SumFunctionOnSet(g, S)
<1>1. IsFiniteSet(S \ {a}) BY FS_RemoveElement
<1>2. SumFunctionOnSet(f, S) = f[a] + SumFunctionOnSet(f, S \ {a}) BY SumRemove
<1>3. SumFunctionOnSet(g, S) = g[a] + SumFunctionOnSet(g, S \ {a}) BY SumRemove
<1>4. SumFunctionOnSet(f, S \ {a}) <= SumFunctionOnSet(g, S \ {a}) BY <1>1, SumMonotone
<1>5. SumFunctionOnSet(f, S \ {a}) \in Int /\ SumFunctionOnSet(g, S \ {a}) \in Int
  BY <1>1, SumType
<1> QED BY <1>2, <1>3, <1>4, <1>5

\* When one value changes, the sum changes by as much: a row is updated.
LEMMA SumChange ==
  ASSUME NEW f, NEW g, NEW S, IsFiniteSet(S), NEW a \in S,
         \A x \in S : f[x] \in Int /\ g[x] \in Int,
         \A x \in S \ {a} : g[x] = f[x]
  PROVE  SumFunctionOnSet(g, S) = SumFunctionOnSet(f, S) + g[a] - f[a]
<1>1. IsFiniteSet(S \ {a}) BY FS_RemoveElement
<1>2. SumFunctionOnSet(f, S) = f[a] + SumFunctionOnSet(f, S \ {a}) BY SumRemove
<1>3. SumFunctionOnSet(g, S) = g[a] + SumFunctionOnSet(g, S \ {a}) BY SumRemove
<1>4. SumFunctionOnSet(g, S \ {a}) = SumFunctionOnSet(f, S \ {a})
  BY <1>1, SumAgrees
<1>5. SumFunctionOnSet(f, S \ {a}) \in Int BY <1>1, SumType
<1>6. f[a] \in Int /\ g[a] \in Int OBVIOUS
<1> QED BY <1>2, <1>3, <1>4, <1>5, <1>6

\* An element leaves, and the others keep their values: a row is closed.
LEMMA SumDrop ==
  ASSUME NEW f, NEW g, NEW S, IsFiniteSet(S), NEW a \in S,
         \A x \in S : f[x] \in Int, \A x \in S \ {a} : g[x] = f[x]
  PROVE  SumFunctionOnSet(g, S \ {a}) = SumFunctionOnSet(f, S) - f[a]
<1>1. IsFiniteSet(S \ {a}) BY FS_RemoveElement
<1>2. SumFunctionOnSet(f, S) = f[a] + SumFunctionOnSet(f, S \ {a}) BY SumRemove
<1>3. SumFunctionOnSet(g, S \ {a}) = SumFunctionOnSet(f, S \ {a})
  BY <1>1, SumAgrees
<1>4. SumFunctionOnSet(f, S \ {a}) \in Int BY <1>1, SumType
<1>5. f[a] \in Int OBVIOUS
<1> QED BY <1>2, <1>3, <1>4, <1>5

\* An element joins, and the others keep their values: a row is opened.
LEMMA SumGain ==
  ASSUME NEW f, NEW g, NEW S, IsFiniteSet(S), NEW a, a \notin S, g[a] \in Int,
         \A x \in S : f[x] \in Int, \A x \in S : g[x] = f[x]
  PROVE  SumFunctionOnSet(g, S \cup {a}) = SumFunctionOnSet(f, S) + g[a]
<1>1. \A x \in S \cup {a} : g[x] \in Int OBVIOUS
<1>2. SumFunctionOnSet(g, S \cup {a}) = g[a] + SumFunctionOnSet(g, S)
  BY <1>1, SumAdd
<1>3. SumFunctionOnSet(g, S) = SumFunctionOnSet(f, S) BY SumAgrees
<1>4. SumFunctionOnSet(f, S) \in Int BY SumType
<1> QED BY <1>2, <1>3, <1>4

\* Natural numbers add up to a natural number.
LEMMA SumNatural ==
  ASSUME NEW f, NEW S, IsFiniteSet(S), \A x \in S : f[x] \in Nat
  PROVE  SumFunctionOnSet(f, S) \in Nat
<1> DEFINE Good == {T \in SUBSET S : SumFunctionOnSet(f, T) \in Nat}
<1>1. ASSUME NEW T \in SUBSET S, \A x \in T : T \ {x} \in Good
      PROVE  T \in Good
  <2> IsFiniteSet(T) BY FS_Subset
  <2>1. CASE T = {} BY <2>1, SumOfNone
  <2>2. CASE T # {}
    <3>1. PICK x \in T : SumFunctionOnSet(f, T)
                           = f[x] + SumFunctionOnSet(f, T \ {x})
      BY <2>2, SumEquation, AnyElement
    <3>2. SumFunctionOnSet(f, T \ {x}) \in Nat BY <1>1
    <3>3. f[x] \in Nat OBVIOUS
    <3> QED BY <3>1, <3>2, <3>3
  <2> QED BY <2>1, <2>2
<1>2. Good = SUBSET S
  <2> HIDE DEF Good
  <2>1. Good \in SUBSET SUBSET S BY DEF Good
  <2> QED BY <1>1, <2>1, GrowingSets
<1> QED BY <1>2

\* Values of at most m add up to at most m for each element.
LEMMA SumBound ==
  ASSUME NEW f, NEW S, IsFiniteSet(S), NEW m \in Nat,
         \A x \in S : f[x] \in Int /\ f[x] <= m
  PROVE  SumFunctionOnSet(f, S) <= Cardinality(S) * m
<1> DEFINE Good == {T \in SUBSET S : SumFunctionOnSet(f, T) <= Cardinality(T) * m}
<1>1. ASSUME NEW T \in SUBSET S, \A x \in T : T \ {x} \in Good
      PROVE  T \in Good
  <2> IsFiniteSet(T) BY FS_Subset
  <2>1. CASE T = {} BY <2>1, SumOfNone, FS_EmptySet
  <2>2. CASE T # {}
    <3> DEFINE x == any(T)  n == Cardinality(T \ {x})
    <3>1. x \in T BY <2>2, AnyElement
    <3>2. SumFunctionOnSet(f, T) = f[x] + SumFunctionOnSet(f, T \ {x})
      BY <3>1, SumRemove
    <3>3. IsFiniteSet(T \ {x}) BY FS_RemoveElement
    <3>4. SumFunctionOnSet(f, T \ {x}) \in Int BY <3>3, SumType
    <3>5. SumFunctionOnSet(f, T \ {x}) <= n * m BY <1>1, <3>1
    <3>6. n \in Nat BY <3>3, FS_CardinalityType
    <3>7. Cardinality(T) = n + 1
      <4>1. n = Cardinality(T) - 1 BY <3>1, FS_RemoveElement
      <4>2. Cardinality(T) \in Nat BY FS_CardinalityType
      <4> QED BY <4>1, <4>2
    <3>8. f[x] \in Int /\ f[x] <= m BY <3>1
    <3> HIDE DEF n, x
    <3>9. (n + 1) * m = n * m + m /\ n * m \in Int BY <3>6
    <3> QED BY <3>2, <3>4, <3>5, <3>7, <3>8, <3>9
  <2> QED BY <2>1, <2>2
<1>2. Good = SUBSET S
  <2> HIDE DEF Good
  <2>1. Good \in SUBSET SUBSET S BY DEF Good
  <2> QED BY <1>1, <2>1, GrowingSets
<1> QED BY <1>2

\* No value is larger than the sum of natural numbers it belongs to.
LEMMA SumPart ==
  ASSUME NEW f, NEW S, IsFiniteSet(S), \A x \in S : f[x] \in Nat, NEW a \in S
  PROVE  f[a] <= SumFunctionOnSet(f, S)
<1>1. SumFunctionOnSet(f, S) = f[a] + SumFunctionOnSet(f, S \ {a}) BY SumRemove
<1>2. IsFiniteSet(S \ {a}) BY FS_RemoveElement
<1>3. SumFunctionOnSet(f, S \ {a}) \in Nat BY <1>2, SumNatural
<1>4. f[a] \in Nat OBVIOUS
<1> QED BY <1>1, <1>3, <1>4

\* Nothing adds up to nothing.
LEMMA SumOfZeros ==
  ASSUME NEW f, NEW S, IsFiniteSet(S), \A x \in S : f[x] = 0
  PROVE  SumFunctionOnSet(f, S) = 0
<1>1. SumFunctionOnSet(f, S) \in Nat BY SumNatural
<1>2. SumFunctionOnSet(f, S) <= Cardinality(S) * 0 BY SumBound
<1>3. Cardinality(S) \in Nat BY FS_CardinalityType
<1>4. Cardinality(S) * 0 = 0 BY <1>3
<1> QED BY <1>1, <1>2, <1>4

\* The same values, taken under other names, have the same sum.
LEMMA SumRenamed ==
  ASSUME NEW f, NEW g, NEW name, NEW S, IsFiniteSet(S),
         \A x, y \in S : name[x] = name[y] => x = y,
         \A x \in S : f[x] \in Int /\ g[name[x]] = f[x]
  PROVE  SumFunctionOnSet(g, {name[x] : x \in S}) = SumFunctionOnSet(f, S)
<1> DEFINE names(T) == {name[x] : x \in T}
           Good == {T \in SUBSET S : SumFunctionOnSet(g, names(T)) = SumFunctionOnSet(f, T)}
<1>1. ASSUME NEW T \in SUBSET S, \A x \in T : T \ {x} \in Good
      PROVE  T \in Good
  <2> IsFiniteSet(T) BY FS_Subset
  <2>1. CASE T = {}
    <3>1. names(T) = {} BY <2>1
    <3> HIDE DEF names
    <3> QED BY <2>1, <3>1, SumOfNone
  <2>2. CASE T # {}
    <3>1. PICK x \in T : TRUE BY <2>2
    <3>2. SumFunctionOnSet(f, T) = f[x] + SumFunctionOnSet(f, T \ {x})
      BY SumRemove
    <3>3. IsFiniteSet(names(T))
      <4> DEFINE n == [y \in T |-> name[y]]
      <4>1. n \in Surjection(T, names(T)) BY DEF Surjection
      <4> HIDE DEF n, names
      <4> QED BY <4>1, FS_Surjection
    <3>4. name[x] \in names(T) /\ \A m \in names(T) : g[m] \in Int BY <3>1
    <3>5. names(T) \ {name[x]} = names(T \ {x}) BY <3>1
    <3>6. SumFunctionOnSet(g, names(T))
            = g[name[x]] + SumFunctionOnSet(g, names(T) \ {name[x]})
      <4> HIDE DEF names
      <4> QED BY <3>3, <3>4, SumRemove
    <3>7. SumFunctionOnSet(g, names(T \ {x})) = SumFunctionOnSet(f, T \ {x})
      BY <1>1, <3>1
    <3>8. g[name[x]] = f[x] BY <3>1
    <3>9. SumFunctionOnSet(g, names(T)) = SumFunctionOnSet(f, T)
      <4> HIDE DEF names
      <4> QED BY <3>2, <3>5, <3>6, <3>7, <3>8
    <3> QED BY <3>9
  <2> QED BY <2>1, <2>2
<1>2. Good = SUBSET S
  <2> HIDE DEF Good
  <2>1. Good \in SUBSET SUBSET S BY DEF Good
  <2> QED BY <1>1, <2>1, GrowingSets
<1> QED BY <1>2

\* A finite set of numbers that is not empty has a largest one.
LEMMA LargestExists ==
  ASSUME NEW S \in SUBSET Int, IsFiniteSet(S), S # {}
  PROVE  \E m \in S : \A x \in S : x <= m
<1> DEFINE Good == {T \in SUBSET S : T = {} \/ \E m \in T : \A x \in T : x <= m}
<1>1. ASSUME NEW T \in SUBSET S, \A x \in T : T \ {x} \in Good
      PROVE  T \in Good
  <2>1. CASE T = {} BY <2>1
  <2>2. ASSUME NEW x \in T, T \ {x} = {} PROVE T \in Good BY <2>2
  <2>3. ASSUME NEW x \in T, NEW m \in T \ {x}, \A y \in T \ {x} : y <= m
        PROVE  T \in Good
    <3>1. CASE x <= m BY <2>3, <3>1
    <3>2. CASE m <= x BY <2>3, <3>2
    <3> QED BY <3>1, <3>2
  <2> QED BY <1>1, <2>1, <2>2, <2>3
<1>2. Good = SUBSET S
  <2> HIDE DEF Good
  <2>1. Good \in SUBSET SUBSET S BY DEF Good
  <2> QED BY <1>1, <2>1, GrowingSets
<1> QED BY <1>2
=============================================================================
