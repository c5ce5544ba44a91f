-------------------------------- MODULE Sums --------------------------------
(***************************************************************************)
(* Sums over finite sets of rows (SumFunctionOnSet of the community module  *)
(* Functions), as the ledger and the loans take them: what one row more,   *)
(* one changed or the order of summing makes of a sum.                     *)
(*                                                                         *)
(* The library folds by a function chosen over all subsets. That there is  *)
(* one, and what it gives, is shown here by induction over finite sets,    *)
(* with the sets that have a property as the thing the induction is about. *)
(***************************************************************************)
EXTENDS FiniteSetTheorems, TLAPS

\* A nonempty collection of subsets of a finite set has a minimal one.
LEMMA MinimalSubset ==
  ASSUME NEW S, IsFiniteSet(S), NEW C, C \subseteq SUBSET S, C # {}
  PROVE  \E T \in C : \A U \in C : U \subseteq T => U = T
  <1>1. IsWellFoundedOn(StrictSubsetOrdering(S), SUBSET S)
    BY FS_FiniteSubsetsOfFinite, FS_StrictSubsetOrderingWellFounded
  <1>2. PICK T \in C : \A U \in C : ~ (<<U, T>> \in StrictSubsetOrdering(S))
    BY <1>1, WFMin
  <1>3. QED
    BY <1>2 DEF StrictSubsetOrdering

\* Induction on finite sets, for a property given as the set of sets that have it.
LEMMA FiniteInduction ==
  ASSUME NEW S, IsFiniteSet(S), NEW good, {} \in good,
         \A u \in SUBSET S : \A x \in u : u \ {x} \in good => u \in good
  PROVE  S \in good
  <1> DEFINE bad == {u \in SUBSET S : u \notin good}
  <1>1. SUFFICES ASSUME bad # {} PROVE FALSE
    OBVIOUS
  <1>2. bad \subseteq SUBSET S
    OBVIOUS
  <1>3. PICK u \in bad : \A v \in bad : v \subseteq u => v = u
    <2> HIDE DEF bad
    <2>1. QED
      BY <1>1, <1>2, MinimalSubset
  <1>4. PICK x \in u : TRUE
    OBVIOUS
  <1>5. u \ {x} \in good
    BY <1>3
  <1>6. QED
    BY <1>3, <1>5

\* The function that Folds iterates to sum f over the subsets of S.
Pick(s) == CHOOSE x \in s : TRUE
Iterates(g, f, S) ==
  g = [s \in SUBSET S |-> IF s = {} THEN 0 ELSE f[Pick(s)] + g[s \ {Pick(s)}]]
Iter(f, S) == CHOOSE g : Iterates(g, f, S)

\* The library's sum is that function's value.
LEMMA SumIsIter ==
  ASSUME NEW f, NEW S
  PROVE  SumFunctionOnSet(f, S) = Iter(f, S)[S]
  BY DEF SumFunctionOnSet, FoldFunctionOnSet, MapThenFoldSet, Iter, Iterates, Pick

\* The element that is added next is one.
LEMMA PickIn == \A s : s # {} => Pick(s) \in s
  BY DEF Pick

\* Two such functions agree on the subsets both are about.
LEMMA IteratesAgree ==
  ASSUME NEW f, NEW S, NEW T, IsFiniteSet(S), NEW g, NEW h, Iterates(g, f, S), Iterates(h, f, T),
         NEW s, s \subseteq S, s \subseteq T
  PROVE  g[s] = h[s]
  <1> DEFINE C == {u \in SUBSET (S \cap T) : g[u] # h[u]}
  <1>1. SUFFICES C = {}
    OBVIOUS
  <1>2. SUFFICES ASSUME C # {} PROVE FALSE
    OBVIOUS
  <1>3. PICK u \in C : \A v \in C : v \subseteq u => v = u
    <2>1. C \subseteq SUBSET S
      OBVIOUS
    <2> HIDE DEF C
    <2>2. QED
      BY <2>1, <1>2, MinimalSubset
  <1>4. /\ g[u] = IF u = {} THEN 0 ELSE f[Pick(u)] + g[u \ {Pick(u)}]
        /\ h[u] = IF u = {} THEN 0 ELSE f[Pick(u)] + h[u \ {Pick(u)}]
    <2>1. u \in SUBSET S /\ u \in SUBSET T
      OBVIOUS
    <2>2. g[u] = IF u = {} THEN 0 ELSE f[Pick(u)] + g[u \ {Pick(u)}]
      BY <2>1, Zenon DEF Iterates
    <2>3. h[u] = IF u = {} THEN 0 ELSE f[Pick(u)] + h[u \ {Pick(u)}]
      BY <2>1, Zenon DEF Iterates
    <2>4. QED
      BY <2>2, <2>3
  <1>5. CASE u = {}
    BY <1>4, <1>5
  <1>6. CASE u # {}
    <2>1. u \ {Pick(u)} \subseteq u /\ u \ {Pick(u)} # u
      BY <1>6, PickIn
    <2>2. g[u \ {Pick(u)}] = h[u \ {Pick(u)}]
      BY <1>3, <2>1
    <2>3. QED
      BY <1>4, <1>6, <2>2
  <1>7. QED
    BY <1>5, <1>6

\* There is such a function for every finite set.
LEMMA IterExists ==
  ASSUME NEW f, NEW S, IsFiniteSet(S)
  PROVE  \E g : Iterates(g, f, S)
  <1> DEFINE C == {u \in SUBSET S : ~ \E g : Iterates(g, f, u)}
  <1>1. SUFFICES ASSUME C # {} PROVE FALSE
    OBVIOUS
  <1>2. PICK u \in C : \A v \in C : v \subseteq u => v = u
    <2>1. C \subseteq SUBSET S
      OBVIOUS
    <2> HIDE DEF C
    <2>2. QED
      BY <2>1, <1>1, MinimalSubset
  <1>3. ASSUME NEW v \in SUBSET u, v # u
        PROVE  Iterates(Iter(f, v), f, v)
    <2>1. \E g : Iterates(g, f, v)
      BY <1>2, <1>3
    <2>2. QED
      BY <2>1 DEF Iter
  <1> DEFINE below == [v \in SUBSET u |-> Iter(f, v)[v]]
             g == [v \in SUBSET u |->
                     IF v = {} THEN 0 ELSE f[Pick(v)] + below[v \ {Pick(v)}]]
  <1>4. \A v \in SUBSET u : v # u => g[v] = below[v]
    <2> SUFFICES ASSUME NEW v \in SUBSET u, v # u PROVE g[v] = below[v]
      OBVIOUS
    <2>1. Iterates(Iter(f, v), f, v)
      BY <1>3
    <2>2. Iter(f, v)[v] = IF v = {} THEN 0 ELSE f[Pick(v)] + Iter(f, v)[v \ {Pick(v)}]
      BY <2>1, Zenon DEF Iterates
    <2>3. CASE v = {}
      BY <2>2, <2>3
    <2>4. CASE v # {}
      <3> DEFINE w == v \ {Pick(v)}
      <3>1. w \in SUBSET u /\ w # u /\ w \subseteq v
        OBVIOUS
      <3>2. Iterates(Iter(f, w), f, w)
        BY <1>3, <3>1
      <3>3. IsFiniteSet(w)
        BY FS_Subset
      <3>4. Iter(f, w)[w] = Iter(f, v)[w]
        BY <3>1, <3>2, <3>3, <2>1, IteratesAgree
      <3>5. below[w] = Iter(f, w)[w]
        BY <3>1
      <3>6. g[v] = f[Pick(v)] + below[w]
        BY <2>4
      <3>7. QED
        BY <3>4, <3>5, <3>6, <2>2, <2>4
    <2>5. QED
      BY <2>3, <2>4
  <1>5. Iterates(g, f, u)
    <2>1. ASSUME NEW v \in SUBSET u, v # {} PROVE below[v \ {Pick(v)}] = g[v \ {Pick(v)}]
      <3>1. v \ {Pick(v)} \in SUBSET u /\ v \ {Pick(v)} # u
        BY <2>1, PickIn
      <3>2. QED
        BY <3>1, <1>4
    <2>2. g = [v \in SUBSET u |-> IF v = {} THEN 0 ELSE f[Pick(v)] + g[v \ {Pick(v)}]]
      BY <2>1
    <2>3. QED
      BY <2>2, Zenon DEF Iterates
  <1>6. QED
    BY <1>5

\* A sum over no elements is 0, and over others what one of them has and the rest.
LEMMA SumEquation ==
  ASSUME NEW f, NEW S, IsFiniteSet(S)
  PROVE  /\ SumFunctionOnSet(f, {}) = 0
         /\ S # {} => SumFunctionOnSet(f, S) = f[Pick(S)] + SumFunctionOnSet(f, S \ {Pick(S)})
  <1>1. /\ Iterates(Iter(f, S), f, S)
        /\ Iterates(Iter(f, {}), f, {})
        /\ Iterates(Iter(f, S \ {Pick(S)}), f, S \ {Pick(S)})
    BY IterExists, FS_EmptySet, FS_Subset DEF Iter
  <1>2. Iter(f, {})[{}] = 0
    BY <1>1, Zenon DEF Iterates
  <1>3. ASSUME S # {}
        PROVE  Iter(f, S)[S] = f[Pick(S)] + Iter(f, S \ {Pick(S)})[S \ {Pick(S)}]
    <2>1. Iter(f, S)[S] = IF S = {} THEN 0 ELSE f[Pick(S)] + Iter(f, S)[S \ {Pick(S)}]
      <3>1. S \in SUBSET S
        OBVIOUS
      <3>2. QED
        BY <3>1, <1>1, Zenon DEF Iterates
    <2>2. Iter(f, S)[S \ {Pick(S)}] = Iter(f, S \ {Pick(S)})[S \ {Pick(S)}]
      BY <1>1, IteratesAgree
    <2>3. QED
      BY <1>3, <2>1, <2>2
  <1>4. QED
    BY <1>2, <1>3, SumIsIter

\* A sum over nothing.
LEMMA SumEmpty == \A f : SumFunctionOnSet(f, {}) = 0
  BY FS_EmptySet, SumEquation

\* A sum of integers is one.
LEMMA SumInt ==
  ASSUME NEW S, IsFiniteSet(S), NEW f, \A x \in S : f[x] \in Int
  PROVE  SumFunctionOnSet(f, S) \in Int
  <1> DEFINE C == {u \in SUBSET S : SumFunctionOnSet(f, u) \notin Int}
  <1>1. SUFFICES ASSUME C # {} PROVE FALSE
    OBVIOUS
  <1>2. PICK u \in C : \A v \in C : v \subseteq u => v = u
    <2>1. C \subseteq SUBSET S
      OBVIOUS
    <2> HIDE DEF C
    <2>2. QED
      BY <2>1, <1>1, MinimalSubset
  <1>3. IsFiniteSet(u)
    BY FS_Subset
  <1>4. u # {}
    BY <1>3, SumEquation
  <1>5. Pick(u) \in u
    BY <1>4, PickIn
  <1>6. SumFunctionOnSet(f, u \ {Pick(u)}) \in Int
    BY <1>2, <1>5
  <1>7. QED
    BY <1>3, <1>4, <1>5, <1>6, SumEquation

\* Any element may be taken off first.
LEMMA SumRemove ==
  ASSUME NEW S, IsFiniteSet(S), NEW f, \A x \in S : f[x] \in Int, NEW y \in S
  PROVE  SumFunctionOnSet(f, S) = f[y] + SumFunctionOnSet(f, S \ {y})
  <1> DEFINE C == {u \in SUBSET S :
                     \E x \in u : SumFunctionOnSet(f, u) # f[x] + SumFunctionOnSet(f, u \ {x})}
  <1>1. SUFFICES ASSUME C # {} PROVE FALSE
    OBVIOUS
  <1>2. PICK u \in C : \A v \in C : v \subseteq u => v = u
    <2>1. C \subseteq SUBSET S
      OBVIOUS
    <2> HIDE DEF C
    <2>2. QED
      BY <2>1, <1>1, MinimalSubset
  <1>3. PICK x \in u : SumFunctionOnSet(f, u) # f[x] + SumFunctionOnSet(f, u \ {x})
    OBVIOUS
  <1> DEFINE p == Pick(u)
             rest == (u \ {p}) \ {x}
  <1>4. /\ p \in u
        /\ SumFunctionOnSet(f, u) = f[p] + SumFunctionOnSet(f, u \ {p})
    BY FS_Subset, SumEquation, PickIn
  <1>5. p # x
    BY <1>3, <1>4
  <1>6. \A v \in SUBSET u : \A z \in v : v # u =>
          SumFunctionOnSet(f, v) = f[z] + SumFunctionOnSet(f, v \ {z})
    BY <1>2
  <1>7. SumFunctionOnSet(f, u \ {p}) = f[x] + SumFunctionOnSet(f, rest)
    BY <1>4, <1>5, <1>6
  <1>8. SumFunctionOnSet(f, u \ {x}) = f[p] + SumFunctionOnSet(f, rest)
    <2>1. (u \ {x}) \ {p} = rest
      OBVIOUS
    <2>2. SumFunctionOnSet(f, u \ {x}) = f[p] + SumFunctionOnSet(f, (u \ {x}) \ {p})
      BY <1>4, <1>5, <1>6
    <2>3. QED
      BY <2>1, <2>2
  <1>9. SumFunctionOnSet(f, rest) \in Int /\ f[p] \in Int /\ f[x] \in Int
    <2>1. IsFiniteSet(rest) /\ rest \subseteq S
      BY FS_Subset
    <2> HIDE DEF rest
    <2>2. QED
      BY <2>1, <1>4, SumInt
  <1> HIDE DEF rest, p
  <1>10. QED
    BY <1>3, <1>4, <1>7, <1>8, <1>9

\* Functions that agree on a set have the same sum over it.
LEMMA SumSame ==
  ASSUME NEW S, IsFiniteSet(S), NEW f, NEW g,
         \A x \in S : f[x] \in Int /\ f[x] = g[x]
  PROVE  SumFunctionOnSet(f, S) = SumFunctionOnSet(g, S)
  <1> DEFINE good == {u \in SUBSET S : SumFunctionOnSet(f, u) = SumFunctionOnSet(g, u)}
  <1>1. {} \in good
    BY SumEmpty
  <1>2. ASSUME NEW u \in SUBSET S, NEW x \in u, u \ {x} \in good
        PROVE  u \in good
    <2>1. /\ SumFunctionOnSet(f, u) = f[x] + SumFunctionOnSet(f, u \ {x})
          /\ SumFunctionOnSet(g, u) = g[x] + SumFunctionOnSet(g, u \ {x})
      BY FS_Subset, SumRemove
    <2>2. QED
      BY <1>2, <2>1
  <1>3. S \in good
    <2> HIDE DEF good
    <2>1. QED
      BY <1>1, <1>2, FiniteInduction
  <1>4. QED
    BY <1>3

\* The sum of two functions' values is the sum of their sums.
LEMMA SumPlus ==
  ASSUME NEW S, IsFiniteSet(S), NEW f, NEW g, NEW h,
         \A x \in S : f[x] \in Int /\ g[x] \in Int /\ h[x] = f[x] + g[x]
  PROVE  SumFunctionOnSet(h, S) = SumFunctionOnSet(f, S) + SumFunctionOnSet(g, S)
  <1> DEFINE Splits(u) ==
        SumFunctionOnSet(h, u) = SumFunctionOnSet(f, u) + SumFunctionOnSet(g, u)
      good == {u \in SUBSET S : Splits(u)}
  <1>1. {} \in good
    BY SumEmpty
  <1>2. ASSUME NEW u \in SUBSET S, NEW x \in u, u \ {x} \in good
        PROVE  u \in good
    <2>1. IsFiniteSet(u) /\ IsFiniteSet(u \ {x})
      BY FS_Subset
    <2>2. /\ SumFunctionOnSet(f, u) = f[x] + SumFunctionOnSet(f, u \ {x})
          /\ SumFunctionOnSet(g, u) = g[x] + SumFunctionOnSet(g, u \ {x})
          /\ SumFunctionOnSet(h, u) = h[x] + SumFunctionOnSet(h, u \ {x})
      BY <2>1, SumRemove
    <2>3. /\ SumFunctionOnSet(f, u \ {x}) \in Int
          /\ SumFunctionOnSet(g, u \ {x}) \in Int
      BY <2>1, SumInt
    <2>4. QED
      BY <1>2, <2>2, <2>3
  <1>3. S \in good
    <2> HIDE DEF good
    <2>1. QED
      BY <1>1, <1>2, FiniteInduction
  <1>4. QED
    BY <1>3

\* A sum of naturals is one.
LEMMA SumNat ==
  ASSUME NEW S, IsFiniteSet(S), NEW f, \A x \in S : f[x] \in Nat
  PROVE  SumFunctionOnSet(f, S) \in Nat
  <1> DEFINE good == {u \in SUBSET S : SumFunctionOnSet(f, u) \in Nat}
  <1>1. {} \in good
    BY SumEmpty
  <1>2. ASSUME NEW u \in SUBSET S, NEW x \in u, u \ {x} \in good
        PROVE  u \in good
    BY <1>2, FS_Subset, SumRemove
  <1>3. S \in good
    <2> HIDE DEF good
    <2>1. QED
      BY <1>1, <1>2, FiniteInduction
  <1>4. QED
    BY <1>3

\* When one value changes, the sum changes by as much.
LEMMA SumUpdate ==
  ASSUME NEW S, IsFiniteSet(S), NEW f, NEW g, NEW y \in S,
         \A x \in S : f[x] \in Int /\ g[x] \in Int,
         \A x \in S \ {y} : f[x] = g[x]
  PROVE  SumFunctionOnSet(g, S) = SumFunctionOnSet(f, S) + g[y] - f[y]
  <1>1. IsFiniteSet(S \ {y})
    BY FS_Subset
  <1>2. /\ SumFunctionOnSet(f, S) = f[y] + SumFunctionOnSet(f, S \ {y})
        /\ SumFunctionOnSet(g, S) = g[y] + SumFunctionOnSet(g, S \ {y})
    BY SumRemove
  <1>3. SumFunctionOnSet(f, S \ {y}) = SumFunctionOnSet(g, S \ {y})
    BY <1>1, SumSame
  <1>4. SumFunctionOnSet(f, S \ {y}) \in Int
    BY <1>1, SumInt
  <1>5. QED
    BY <1>2, <1>3, <1>4

\* A sum of zeros is zero.
LEMMA SumZero ==
  ASSUME NEW S, IsFiniteSet(S), NEW f, \A x \in S : f[x] = 0
  PROVE  SumFunctionOnSet(f, S) = 0
  <1> DEFINE good == {u \in SUBSET S : SumFunctionOnSet(f, u) = 0}
  <1>1. {} \in good
    BY SumEmpty
  <1>2. ASSUME NEW u \in SUBSET S, NEW x \in u, u \ {x} \in good
        PROVE  u \in good
    BY <1>2, FS_Subset, SumRemove
  <1>3. S \in good
    <2> HIDE DEF good
    <2>1. QED
      BY <1>1, <1>2, FiniteInduction
  <1>4. QED
    BY <1>3

\* f and g are tables of integers over A and B, one the other turned round.
Turned(A, B, f, g) == \A x \in A : \A y \in B : f[x][y] \in Int /\ g[y][x] = f[x][y]

\* F holds the sum of each row of the table f.
RowSums(A, B, f, F) == \A x \in A : F[x] = SumFunctionOnSet(f[x], B)

\* Two sums may be taken in either order: the rows of a table and of the table turned round
\* add up to the same.
LEMMA SumSwap ==
  ASSUME NEW A, IsFiniteSet(A), NEW B, IsFiniteSet(B), NEW f, NEW g, NEW F, NEW G,
         Turned(A, B, f, g), RowSums(A, B, f, F), RowSums(B, A, g, G)
  PROVE  SumFunctionOnSet(F, A) = SumFunctionOnSet(G, B)
  <1> DEFINE columns(u) == [y \in B |-> SumFunctionOnSet(g[y], u)]
             good == {u \in SUBSET A : SumFunctionOnSet(F, u) = SumFunctionOnSet(columns(u), B)}
  <1>a. \A x \in A : \A y \in B : f[x][y] \in Int /\ g[y][x] = f[x][y]
    BY DEF Turned
  <1>b. /\ \A x \in A : F[x] = SumFunctionOnSet(f[x], B)
        /\ \A y \in B : G[y] = SumFunctionOnSet(g[y], A)
    BY DEF RowSums
  <1>1. \A u : \A y \in B : columns(u)[y] = SumFunctionOnSet(g[y], u)
    OBVIOUS
  <1>2. {} \in good
    <2>1. \A y \in B : columns({})[y] = 0
      BY SumEmpty
    <2>2. SumFunctionOnSet(columns({}), B) = 0
      <3> HIDE DEF columns
      <3>1. QED
        BY <2>1, SumZero
    <2>3. QED
      BY <2>2, SumEmpty
  <1>3. ASSUME NEW u \in SUBSET A, NEW x \in u, u \ {x} \in good
        PROVE  u \in good
    <2>1. IsFiniteSet(u) /\ IsFiniteSet(u \ {x})
      BY FS_Subset
    <2>2. \A z \in u : F[z] \in Int
      <3> SUFFICES ASSUME NEW z \in u PROVE F[z] \in Int
        OBVIOUS
      <3>1. \A y \in B : f[z][y] \in Int
        BY <1>a
      <3>2. SumFunctionOnSet(f[z], B) \in Int
        BY <3>1, SumInt
      <3>3. QED
        BY <1>b, <3>2
    <2>3. SumFunctionOnSet(F, u) = F[x] + SumFunctionOnSet(F, u \ {x})
      BY <2>1, <2>2, SumRemove
    <2>4. ASSUME NEW y \in B
          PROVE  /\ columns(u)[y] = f[x][y] + columns(u \ {x})[y]
                 /\ f[x][y] \in Int /\ columns(u \ {x})[y] \in Int
      <3> DEFINE h == g[y]
      <3>1. (\A z \in u : h[z] \in Int) /\ h[x] = f[x][y] /\ f[x][y] \in Int
        BY <1>a
      <3>2. /\ columns(u)[y] = SumFunctionOnSet(h, u)
            /\ columns(u \ {x})[y] = SumFunctionOnSet(h, u \ {x})
        BY <1>1
      <3> HIDE DEF columns, h
      <3>3. SumFunctionOnSet(h, u) = h[x] + SumFunctionOnSet(h, u \ {x})
        BY <2>1, <3>1, SumRemove
      <3>4. SumFunctionOnSet(h, u \ {x}) \in Int
        BY <2>1, <3>1, SumInt
      <3>5. QED
        BY <3>1, <3>2, <3>3, <3>4
    <2> HIDE DEF columns
    <2>5. SumFunctionOnSet(columns(u), B)
            = SumFunctionOnSet(f[x], B) + SumFunctionOnSet(columns(u \ {x}), B)
      <3> DEFINE whole == columns(u)
                 row == f[x]
                 rest == columns(u \ {x})
      <3>1. \A y \in B : row[y] \in Int /\ rest[y] \in Int /\ whole[y] = row[y] + rest[y]
        BY <2>4
      <3> HIDE DEF whole, row, rest
      <3>2. SumFunctionOnSet(whole, B) = SumFunctionOnSet(row, B) + SumFunctionOnSet(rest, B)
        BY <3>1, SumPlus
      <3>3. QED
        BY <3>2 DEF whole, row, rest
    <2>6. SumFunctionOnSet(F, u \ {x}) = SumFunctionOnSet(columns(u \ {x}), B)
      BY <1>3
    <2>7. F[x] = SumFunctionOnSet(f[x], B)
      BY <1>b
    <2>8. QED
      BY <2>3, <2>5, <2>6, <2>7
  <1>4. A \in good
    <2> HIDE DEF good
    <2>1. QED
      BY <1>2, <1>3, FiniteInduction
  <1>5. SumFunctionOnSet(columns(A), B) = SumFunctionOnSet(G, B)
    <2>1. \A y \in B : columns(A)[y] = G[y] /\ columns(A)[y] \in Int
      <3> SUFFICES ASSUME NEW y \in B PROVE columns(A)[y] = G[y] /\ columns(A)[y] \in Int
        OBVIOUS
      <3> DEFINE h == g[y]
      <3>1. \A z \in A : h[z] \in Int
        BY <1>a
      <3>2. columns(A)[y] = SumFunctionOnSet(h, A) /\ G[y] = SumFunctionOnSet(h, A)
        BY <1>1, <1>b
      <3> HIDE DEF h, columns
      <3>3. SumFunctionOnSet(h, A) \in Int
        BY <3>1, SumInt
      <3>4. QED
        BY <3>2, <3>3
    <2> HIDE DEF columns
    <2>2. QED
      BY <2>1, SumSame
  <1>6. QED
    BY <1>4, <1>5

=============================================================================
