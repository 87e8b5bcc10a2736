------------------------ MODULE ModuleLayout_proofs -------------------------
(***************************************************************************)
(* Whatever the program is, and however many units it has: the modules     *)
(* that --module-layout source writes link and load.                       *)
(*                                                                         *)
(* The invariant, LayoutInv, joins those of the two walks, which hold for  *)
(* every graph (GraphWalks_proofs), to what the passes have stored.  From  *)
(* the search: the modules are the strongly connected components of the    *)
(* units, so what leaves a module does not come back, and no module is     *)
(* required in a circle.  From the names: those of a module's fragments    *)
(* differ, because a unit reserves what its mates export and have          *)
(* declared; so a use finds what C binds it to, or what it must not.       *)
(* From the sorting: each unit's objects are in the order of what its      *)
(* initializers reach as far as the second pass knows, and what the first  *)
(* pass did not learn, it did not learn because the object is not          *)
(* initialized in place; so what an initializer reads was followed, and    *)
(* what it reads in another fragment orders the includes.                  *)
(*                                                                         *)
(* The model defines Called, Reach and Included by recursion.  Induction   *)
(* over them is on sets: Course and the lemmas after it say what a         *)
(* function is that is defined from what it is on lower numbers.           *)
(***************************************************************************)
EXTENDS ModuleLayout, GraphWalks_proofs

(* A function can be defined from what it is on lower numbers. *)
Lower(S, x) == {y \in S : y < x}
Image(f, T) == {f[y] : y \in T}

Course(S, F, f, x) ==
    \A z \in S : z <= x => f[z] = F[z][Image(f, Lower(S, z))]

Staying(S, V, F) == \A x \in S : \A A \in SUBSET V : F[x][A] \in V

LEMMA CourseAgrees ==
    ASSUME NEW S \in SUBSET Nat, NEW F, NEW x \in S, NEW w \in S,
           NEW f, NEW g, Course(S, F, f, x), Course(S, F, g, w)
    PROVE  \A z \in S : z <= x /\ z <= w => f[z] = g[z]
<1> DEFINE Bad == {z \in S : z <= x /\ z <= w /\ f[z] # g[z]}
<1> SUFFICES ASSUME Bad # {} PROVE FALSE
  OBVIOUS
<1>1. PICK z \in Bad : \A y \in Bad : z <= y
  <2>1. Bad \in SUBSET Nat
    OBVIOUS
  <2> HIDE DEF Bad
  <2> QED
    BY <2>1, LeastFacts
<1>2. z \in S /\ z <= x /\ z <= w /\ f[z] # g[z] /\ z \in Nat /\ x \in Nat /\ w \in Nat
  BY <1>1
<1>3. ASSUME NEW y \in Lower(S, z) PROVE f[y] = g[y]
  <2>1. y \in S /\ y < z /\ y \in Nat
    BY DEF Lower
  <2>2. y \notin Bad
    BY <1>1, <1>2, <2>1
  <2> QED
    BY <1>2, <2>1, <2>2
<1>4. Image(f, Lower(S, z)) = Image(g, Lower(S, z))
  BY <1>3 DEF Image
<1>5. f[z] = F[z][Image(f, Lower(S, z))] /\ g[z] = F[z][Image(g, Lower(S, z))]
  BY <1>2 DEF Course
<1> QED
  BY <1>2, <1>4, <1>5

LEMMA CourseExists ==
    ASSUME NEW S \in SUBSET Nat, NEW V, NEW F, Staying(S, V, F)
    PROVE  \E f \in [S -> V] : \A x \in S : Course(S, F, f, x)
<1> DEFINE Has(x) == \E g \in [S -> V \cup {{}}] : Course(S, F, g, x) /\ \A z \in S : z <= x => g[z] \in V
           g(x) == CHOOSE g \in [S -> V \cup {{}}] : Course(S, F, g, x) /\ \A z \in S : z <= x => g[z] \in V
           f == [x \in S |-> g(x)[x]]
           Bad == {x \in S : ~Has(x)}
<1>1. ASSUME NEW x \in S, Has(x) PROVE Course(S, F, g(x), x) /\ \A z \in S : z <= x => g(x)[z] \in V
  BY <1>1
<1> HIDE DEF g, Has
<1>2. ASSUME NEW x \in S, \A y \in Lower(S, x) : Has(y)
      PROVE  /\ Image(f, Lower(S, x)) \in SUBSET V
             /\ \A y \in Lower(S, x) : f[y] = F[y][Image(f, Lower(S, y))]
  <2>1. ASSUME NEW y \in Lower(S, x)
        PROVE f[y] \in V /\ f[y] = F[y][Image(f, Lower(S, y))]
    <3>1. y \in S /\ Has(y) /\ y <= y
      BY <1>2 DEF Lower
    <3>2. Course(S, F, g(y), y) /\ g(y)[y] \in V /\ f[y] = g(y)[y]
      BY <1>1, <3>1
    <3>3. f[y] = F[y][Image(g(y), Lower(S, y))]
      BY <3>1, <3>2 DEF Course
    <3>4. ASSUME NEW z \in Lower(S, y) PROVE g(y)[z] = f[z]
      <4>1. z \in S /\ z < y /\ z <= y /\ z <= z /\ z \in Lower(S, x)
        BY <3>1 DEF Lower
      <4>2. Has(z) /\ f[z] = g(z)[z]
        BY <1>2, <4>1
      <4>3. Course(S, F, g(z), z)
        BY <1>1, <4>1, <4>2
      <4>4. \A v \in S : v <= y /\ v <= z => g(y)[v] = g(z)[v]
        <5>1. Course(S, F, g(y), y) /\ y \in S /\ z \in S
          BY <3>1, <3>2, <4>1
        <5>2. PICK a, b : a = g(y) /\ b = g(z)
          OBVIOUS
        <5>3. Course(S, F, a, y) /\ Course(S, F, b, z)
          BY <4>3, <5>1, <5>2
        <5>4. \A v \in S : v <= y /\ v <= z => a[v] = b[v]
          BY <5>1, <5>3, CourseAgrees
        <5> QED
          BY <5>2, <5>4
      <4> HIDE DEF f
      <4> QED
        BY <4>1, <4>2, <4>4
    <3>5. Image(g(y), Lower(S, y)) = Image(f, Lower(S, y))
      <4> HIDE DEF f
      <4> QED
        BY <3>4 DEF Image
    <3> QED
      BY <3>2, <3>3, <3>5
  <2> HIDE DEF f
  <2> QED
    BY <2>1 DEF Image
<1>3. Bad = {}
  <2> SUFFICES ASSUME Bad # {} PROVE FALSE
    OBVIOUS
  <2>1. PICK x \in Bad : \A y \in Bad : x <= y
    <3>1. Bad \in SUBSET Nat
      OBVIOUS
    <3> HIDE DEF Bad
    <3> QED
      BY <3>1, LeastFacts
  <2>2. x \in S /\ ~Has(x) /\ x \in Nat
    BY <2>1
  <2>3. \A y \in Lower(S, x) : Has(y)
    <3> TAKE y \in Lower(S, x)
    <3>1. y \in S /\ y < x /\ y \in Nat
      BY DEF Lower
    <3> QED
      BY <2>1, <2>2, <3>1
  <2>4. PICK A : A = Image(f, Lower(S, x))
    OBVIOUS
  <2>5. A \in SUBSET V /\ \A y \in Lower(S, x) : f[y] = F[y][Image(f, Lower(S, y))]
    <3> HIDE DEF f
    <3> QED
      BY <1>2, <2>2, <2>3, <2>4
  <2> DEFINE h == [z \in S |-> IF z < x THEN f[z] ELSE IF z = x THEN F[x][A] ELSE {}]
  <2>6. F[x][A] \in V
    BY <2>2, <2>5 DEF Staying
  <2>7. \A z \in S : z < x => h[z] = f[z] /\ f[z] \in V
    <3> TAKE z \in S
    <3> HAVE z < x
    <3>1. z \in Lower(S, x)
      BY DEF Lower
    <3>2. f[z] \in V
      <4> HIDE DEF f
      <4> QED
        BY <2>4, <2>5, <3>1 DEF Image
    <3> HIDE DEF f
    <3> QED
      BY <3>2
  <2>8. h[x] = F[x][A] /\ h \in [S -> V \cup {{}}]
    <3> HIDE DEF f
    <3> QED
      BY <2>2, <2>6, <2>7
  <2> HIDE DEF h, f
  <2>9. ASSUME NEW z \in S, z <= x PROVE h[z] = F[z][Image(h, Lower(S, z))]
    <3>0. z \in Nat
      OBVIOUS
    <3>1. z \in Nat /\ (z < x \/ z = x)
      <4>1. \A m, n \in Nat : m <= n => m < n \/ m = n
        OBVIOUS
      <4> QED
        BY <2>2, <2>9, <3>0, <4>1, Zenon
    <3>2. \A y \in Lower(S, z) : h[y] = f[y]
      <4> TAKE y \in Lower(S, z)
      <4>1. y \in S /\ y < z /\ y \in Nat
        BY DEF Lower
      <4> QED
        BY <2>2, <2>7, <2>9, <3>1, <4>1
    <3>3. Image(h, Lower(S, z)) = Image(f, Lower(S, z))
      BY <3>2 DEF Image
    <3>4. CASE z = x
      BY <2>4, <2>8, <3>3, <3>4
    <3>5. CASE z < x
      <4>1. z \in Lower(S, x) /\ h[z] = f[z]
        BY <2>7, <3>5 DEF Lower
      <4> QED
        BY <2>5, <3>3, <4>1
    <3> QED
      BY <3>1, <3>4, <3>5
  <2>10. \A z \in S : z <= x => h[z] \in V
    <3> TAKE z \in S
    <3> HAVE z <= x
    <3>1. z \in Nat /\ (z < x \/ z = x)
      BY <2>2
    <3> QED
      BY <2>6, <2>7, <2>8, <3>1
  <2>11. Has(x)
    BY <2>8, <2>9, <2>10 DEF Has, Course
  <2> QED
    BY <2>2, <2>11
<1>4. \A x \in S : Has(x)
  BY <1>3
<1>5. f \in [S -> V]
  <2>1. \A x \in S : g(x)[x] \in V
    <3> TAKE x \in S
    <3>1. Has(x) /\ x <= x
      BY <1>4
    <3> QED
      BY <1>1, <3>1
  <2> QED
    BY <2>1
<1>6. ASSUME NEW x \in S PROVE f[x] = F[x][Image(f, Lower(S, x))]
  <2>1. Has(x) /\ x <= x
    BY <1>4
  <2>2. Course(S, F, g(x), x) /\ f[x] = g(x)[x]
    BY <1>1, <2>1
  <2>3. f[x] = F[x][Image(g(x), Lower(S, x))]
    BY <2>1, <2>2 DEF Course
  <2>4. ASSUME NEW z \in Lower(S, x) PROVE g(x)[z] = f[z]
    <3>1. z \in S /\ z < x /\ z <= x /\ z <= z
      BY DEF Lower
    <3>2. Course(S, F, g(z), z) /\ f[z] = g(z)[z]
      BY <1>1, <1>4, <3>1
    <3> HIDE DEF f
    <3> QED
      BY <2>2, <3>1, <3>2, CourseAgrees
  <2>5. Image(g(x), Lower(S, x)) = Image(f, Lower(S, x))
    <3> HIDE DEF f
    <3> QED
      BY <2>4 DEF Image
  <2> QED
    BY <2>3, <2>5
<1> HIDE DEF f
<1> QED
  BY <1>5, <1>6 DEF Course

(* Induction on a set: no operator is instantiated. *)
LEMMA AllNumbers == ASSUME NEW T \in SUBSET Nat, 0 \in T, \A n \in T : n + 1 \in T PROVE T = Nat
<1> DEFINE Bad == Nat \ T
<1> SUFFICES ASSUME Bad # {} PROVE FALSE
  OBVIOUS
<1>1. PICK z \in Bad : \A y \in Bad : z <= y
  <2>1. Bad \in SUBSET Nat
    OBVIOUS
  <2> HIDE DEF Bad
  <2> QED
    BY <2>1, LeastFacts
<1>2. z \in Nat /\ z \notin T /\ z # 0
  BY <1>1
<1>3. z - 1 \in Nat /\ z - 1 < z /\ (z - 1) + 1 = z
  BY <1>2
<1>4. z - 1 \in T
  BY <1>1, <1>2, <1>3
<1> QED
  BY <1>2, <1>3, <1>4

(* What is reached in one more step. *)
Extend(follows, before) == before \cup UNION {follows[d] : d \in before}

IsChain(follows, from, r) ==
    r[0] = from /\ \A n \in Nat : r[n + 1] = Extend(follows, r[n])

LEMMA ChainExists ==
    ASSUME NEW D, NEW follows \in [D -> SUBSET D], NEW from \in SUBSET D
    PROVE  \E r \in [Nat -> SUBSET D] : IsChain(follows, from, r)
<1> DEFINE V == SUBSET D
           F == [n \in Nat |-> [A \in SUBSET V |-> IF n = 0 THEN from ELSE Extend(follows, UNION A)]]
<1>1. ASSUME NEW b \in SUBSET D PROVE Extend(follows, b) \in SUBSET D
  BY DEF Extend
<1>2. \A n \in Nat : \A A \in SUBSET V : F[n][A] = IF n = 0 THEN from ELSE Extend(follows, UNION A)
  OBVIOUS
<1> HIDE DEF F
<1>3. Staying(Nat, V, F)
  <2> SUFFICES ASSUME NEW n \in Nat, NEW A \in SUBSET V PROVE F[n][A] \in V
    BY DEF Staying
  <2>1. UNION A \in SUBSET D
    OBVIOUS
  <2> QED
    BY <1>1, <1>2, <2>1
<1>4. PICK r \in [Nat -> V] : \A x \in Nat : Course(Nat, F, r, x)
  <2>1. Nat \in SUBSET Nat
    OBVIOUS
  <2> HIDE DEF V
  <2> QED
    BY <1>3, <2>1, CourseExists, Zenon
<1>5. \A x \in Nat : r[x] = IF x = 0 THEN from ELSE Extend(follows, UNION Image(r, Lower(Nat, x)))
  <2> TAKE x \in Nat
  <2>1. Image(r, Lower(Nat, x)) \in SUBSET V
    <3> HIDE DEF V
    <3> QED
      BY <1>4 DEF Image, Lower
  <2>2. r[x] = F[x][Image(r, Lower(Nat, x))]
    <3>1. Course(Nat, F, r, x) /\ x <= x
      BY <1>4
    <3> QED
      BY <3>1 DEF Course
  <2> HIDE DEF V
  <2> QED
    BY <1>2, <2>1, <2>2
<1>6. ASSUME NEW x \in Nat, NEW y \in Nat, y < x PROVE r[y] \subseteq r[x]
  <2>1. r[y] \in Image(r, Lower(Nat, x)) /\ x # 0
    BY <1>6 DEF Image, Lower
  <2>2. r[x] = Extend(follows, UNION Image(r, Lower(Nat, x)))
    BY <1>5, <2>1
  <2>3. r[y] \subseteq UNION Image(r, Lower(Nat, x))
    BY <2>1
  <2> QED
    BY <2>2, <2>3 DEF Extend
<1>7. ASSUME NEW n \in Nat PROVE r[n + 1] = Extend(follows, r[n])
  <2>1. n \in Lower(Nat, n + 1) /\ n + 1 \in Nat /\ n + 1 # 0
    BY DEF Lower
  <2>2. ASSUME NEW y \in Lower(Nat, n + 1) PROVE r[y] \subseteq r[n]
    <3>1. y \in Nat /\ (y < n \/ y = n)
      BY DEF Lower
    <3> QED
      BY <1>6, <3>1
  <2>3. UNION Image(r, Lower(Nat, n + 1)) = r[n]
    BY <2>1, <2>2 DEF Image
  <2> QED
    BY <1>5, <2>1, <2>3
<1>8. r[0] = from
  BY <1>5
<1> QED
  BY <1>4, <1>7, <1>8 DEF IsChain

LEMMA ChainFacts ==
    ASSUME NEW D, IsFiniteSet(D), NEW follows \in [D -> SUBSET D], NEW from \in SUBSET D,
           NEW r \in [Nat -> SUBSET D], IsChain(follows, from, r), NEW m, m = r[Cardinality(D)]
    PROVE  /\ from \subseteq m /\ m \subseteq D /\ \A d \in m : follows[d] \subseteq m
           /\ \A X \in SUBSET D : from \subseteq X /\ (\A d \in X : follows[d] \subseteq X) => m \subseteq X
<1>1. Cardinality(D) \in Nat
  BY FS_CardinalityType
<1>2. r[0] = from /\ \A n \in Nat : r[n + 1] = Extend(follows, r[n])
  BY DEF IsChain
<1>3. \A n \in Nat : r[n] \subseteq r[n + 1]
  BY <1>2 DEF Extend
<1>4. from \subseteq m
  <2> DEFINE T == {n \in Nat : from \subseteq r[n]}
  <2>1. 0 \in T /\ \A n \in T : n + 1 \in T
    BY <1>2, <1>3
  <2>2. T = Nat
    <3>1. T \in SUBSET Nat
      OBVIOUS
    <3> HIDE DEF T
    <3> QED
      BY <2>1, <3>1, AllNumbers
  <2> QED
    BY <1>1, <2>2
<1>5. ASSUME NEW X \in SUBSET D, from \subseteq X, \A d \in X : follows[d] \subseteq X PROVE m \subseteq X
  <2> DEFINE T == {n \in Nat : r[n] \subseteq X}
  <2>1. 0 \in T
    BY <1>2, <1>5
  <2>2. ASSUME NEW n \in T PROVE n + 1 \in T
    BY <1>2, <1>5 DEF Extend
  <2>3. T = Nat
    <3>1. T \in SUBSET Nat
      OBVIOUS
    <3> HIDE DEF T
    <3> QED
      BY <2>1, <2>2, <3>1, AllNumbers
  <2> QED
    BY <1>1, <2>3
<1>6. \A n \in Nat : IsFiniteSet(r[n]) /\ Cardinality(r[n]) \in Nat
  <2> TAKE n \in Nat
  <2>1. IsFiniteSet(r[n])
    BY FS_Subset
  <2> QED
    BY <2>1, FS_CardinalityType
<1>7. \A n \in Nat : r[n + 1] = r[n] \/ Cardinality(r[n]) >= n
  <2> DEFINE T == {n \in Nat : r[n + 1] = r[n] \/ Cardinality(r[n]) >= n}
  <2>1. 0 \in T
    BY <1>6
  <2>2. ASSUME NEW n \in T PROVE n + 1 \in T
    <3>1. n \in Nat /\ n + 1 \in Nat
      OBVIOUS
    <3>2. CASE r[n + 1] = r[n]
      <4>1. r[(n + 1) + 1] = Extend(follows, r[n + 1]) /\ r[n + 1] = Extend(follows, r[n])
        BY <1>2, <3>1
      <4> QED
        BY <3>1, <3>2, <4>1
    <3>3. CASE r[n + 1] # r[n]
      <4>1. Cardinality(r[n]) >= n
        BY <3>1, <3>3
      <4>2. /\ Cardinality(r[n]) <= Cardinality(r[n + 1])
            /\ Cardinality(r[n]) # Cardinality(r[n + 1])
        <5>1. r[n] \in SUBSET r[n + 1] /\ IsFiniteSet(r[n + 1])
          BY <1>3, <1>6, <3>1
        <5> QED
          BY <3>3, <5>1, FS_Subset
      <4>3. Cardinality(r[n]) \in Nat /\ Cardinality(r[n + 1]) \in Nat
        BY <1>6, <3>1
      <4>4. Cardinality(r[n + 1]) >= n + 1
        BY <3>1, <4>1, <4>2, <4>3
      <4> QED
        BY <3>1, <4>4
    <3> QED
      BY <3>2, <3>3
  <2>3. T = Nat
    <3>1. T \in SUBSET Nat
      OBVIOUS
    <3> HIDE DEF T
    <3> QED
      BY <2>1, <2>2, <3>1, AllNumbers
  <2> QED
    BY <2>3
<1>8. r[Cardinality(D) + 1] = m
  <2>1. CASE Cardinality(m) >= Cardinality(D)
    <3>1. m \in SUBSET D /\ Cardinality(m) \in Nat
      BY <1>1, <1>6
    <3>2. Cardinality(m) <= Cardinality(D)
      BY <3>1, FS_Subset
    <3>3. m = D
      BY <1>1, <2>1, <3>1, <3>2, FS_Subset
    <3>4. r[Cardinality(D) + 1] \subseteq D /\ m \subseteq r[Cardinality(D) + 1]
      BY <1>1, <1>3
    <3> QED
      BY <3>3, <3>4
  <2> QED
    BY <1>1, <1>7, <2>1
<1>9. \A d \in m : follows[d] \subseteq m
  BY <1>1, <1>2, <1>8 DEF Extend
<1>10. m \subseteq D
  BY <1>1
<1> QED
  BY <1>4, <1>5, <1>9, <1>10

LEMMA ReachIsChain ==
    ASSUME NEW follows \in [Decls -> SUBSET Decls], NEW from \in SUBSET Decls
    PROVE  \E r \in [Nat -> SUBSET Decls] :
               IsChain(follows, from, r) /\ Reach(follows, from) = r[Cardinality(Decls)]
<1> DEFINE Eq(r) == r = [n \in Nat |-> IF n = 0 THEN from ELSE r[n - 1] \cup UNION {follows[d] : d \in r[n - 1]}]
           reached == CHOOSE r : Eq(r)
<1>1. Reach(follows, from) = reached[Cardinality(Decls)]
  BY DEF Reach
<1>2. PICK r \in [Nat -> SUBSET Decls] : IsChain(follows, from, r)
  BY ChainExists
<1>3. Eq(r)
  <2> DEFINE e == [n \in Nat |-> IF n = 0 THEN from ELSE r[n - 1] \cup UNION {follows[d] : d \in r[n - 1]}]
  <2>1. ASSUME NEW n \in Nat PROVE e[n] = r[n]
    <3>1. CASE n = 0
      BY <1>2, <3>1 DEF IsChain
    <3>2. CASE n # 0
      <4>1. n - 1 \in Nat /\ (n - 1) + 1 = n
        BY <3>2
      <4>2. r[n] = Extend(follows, r[n - 1])
        BY <1>2, <4>1 DEF IsChain
      <4> QED
        BY <3>2, <4>2 DEF Extend
    <3> QED
      BY <3>1, <3>2
  <2>2. e \in [Nat -> SUBSET Decls]
    <3>1. DOMAIN e = Nat /\ e = [n \in Nat |-> e[n]]
      OBVIOUS
    <3> HIDE DEF e
    <3> QED
      BY <2>1, <3>1
  <2>3. e = r
    <3> HIDE DEF e
    <3> QED
      BY <1>2, <2>1, <2>2
  <2> QED
    BY <2>3
<1>4. Eq(reached)
  <2> HIDE DEF Eq
  <2> QED
    BY <1>3
<1> HIDE DEF reached
<1>5. reached \in [Nat -> SUBSET Decls]
  <2> DEFINE T == {n \in Nat : reached[n] \in SUBSET Decls}
  <2>1. \A n \in Nat : reached[n] = IF n = 0 THEN from ELSE reached[n - 1] \cup UNION {follows[d] : d \in reached[n - 1]}
    BY <1>4
  <2>2. 0 \in T
    BY <2>1
  <2>3. ASSUME NEW n \in T PROVE n + 1 \in T
    <3>1. n \in Nat /\ n + 1 \in Nat /\ n + 1 # 0 /\ (n + 1) - 1 = n
      OBVIOUS
    <3>2. reached[n + 1] = reached[n] \cup UNION {follows[d] : d \in reached[n]}
      BY <2>1, <3>1
    <3>3. reached[n] \in SUBSET Decls
      OBVIOUS
    <3>4. reached[n + 1] \in SUBSET Decls
      BY <3>2, <3>3
    <3> QED
      BY <3>1, <3>4
  <2>4. T = Nat
    <3>1. T \in SUBSET Nat
      OBVIOUS
    <3> HIDE DEF T
    <3> QED
      BY <2>2, <2>3, <3>1, AllNumbers
  <2>5. DOMAIN reached = Nat /\ reached = [n \in Nat |-> reached[n]]
    BY <1>4
  <2> QED
    BY <2>4, <2>5
<1>6. IsChain(follows, from, reached)
  <2>1. \A n \in Nat : reached[n] = IF n = 0 THEN from ELSE reached[n - 1] \cup UNION {follows[d] : d \in reached[n - 1]}
    BY <1>4
  <2>2. ASSUME NEW n \in Nat PROVE reached[n + 1] = Extend(follows, reached[n])
    <3>1. n + 1 \in Nat /\ n + 1 # 0 /\ (n + 1) - 1 = n
      OBVIOUS
    <3> QED
      BY <2>1, <3>1 DEF Extend
  <2> QED
    BY <2>1, <2>2 DEF IsChain
<1> HIDE DEF Eq
<1> QED
  BY <1>1, <1>5, <1>6

(* What Reach is: the least set that holds the start and all that follows. *)
LEMMA ReachFacts ==
    ASSUME IsFiniteSet(Decls), NEW follows \in [Decls -> SUBSET Decls], NEW from \in SUBSET Decls
    PROVE  /\ from \subseteq Reach(follows, from) /\ Reach(follows, from) \subseteq Decls
           /\ \A d \in Reach(follows, from) : follows[d] \subseteq Reach(follows, from)
           /\ \A X \in SUBSET Decls :
                  from \subseteq X /\ (\A d \in X : follows[d] \subseteq X) => Reach(follows, from) \subseteq X
<1>1. PICK r \in [Nat -> SUBSET Decls] : IsChain(follows, from, r) /\ Reach(follows, from) = r[Cardinality(Decls)]
  BY ReachIsChain
<1>2. PICK m : m = Reach(follows, from)
  OBVIOUS
<1>3. m = r[Cardinality(Decls)] /\ IsChain(follows, from, r)
  BY <1>1, <1>2
<1>4. from \subseteq m /\ m \subseteq Decls
  BY <1>3, ChainFacts
<1>5. \A d \in m : follows[d] \subseteq m
  BY <1>3, ChainFacts
<1>6. ASSUME NEW X \in SUBSET Decls, from \subseteq X, \A d \in X : follows[d] \subseteq X PROVE m \subseteq X
  BY <1>3, <1>6, ChainFacts
<1> QED
  BY <1>2, <1>4, <1>5, <1>6, Zenon

LEMMA FiniteImage ==
    ASSUME NEW f, NEW T, IsFiniteSet(T)
    PROVE  IsFiniteSet(Image(f, T))
<1> DEFINE g == [x \in T |-> f[x]]
<1>1. g \in Surjection(T, Image(f, T))
  BY DEF Surjection, Image
<1> HIDE DEF g
<1> QED
  BY <1>1, FS_Surjection

LEMMA FiniteRange ==
    ASSUME NEW f, IsFiniteSet(DOMAIN f)
    PROVE  IsFiniteSet(Range(f))
<1>1. Range(f) = Image(f, DOMAIN f)
  BY DEF Range, Image
<1> QED
  BY <1>1, FiniteImage

(* A name is found, and it is not taken. *)
LEMMA FreshFacts ==
    ASSUME NEW name \in Nat, NEW taken, IsFiniteSet(taken)
    PROVE  Fresh(name, taken) \in Names /\ Fresh(name, taken) \notin taken
<1>1. PICK n : n = Cardinality(taken)
  OBVIOUS
<1>2. n \in Nat
  BY <1>1, FS_CardinalityType
<1> DEFINE free == {k \in 0 .. n : <<name, k>> \notin taken}
<1>3. free # {}
  <2> SUFFICES ASSUME free = {} PROVE FALSE
    OBVIOUS
  <2> DEFINE f == [k \in 0 .. n |-> <<name, k>>]
  <2>1. f \in [0 .. n -> taken]
    OBVIOUS
  <2>2. IsFiniteSet(0 .. n) /\ Cardinality(0 .. n) = n + 1
    BY <1>2, FS_Interval
  <2>3. \A x, y \in 0 .. n : f[x] = f[y] => x = y
    OBVIOUS
  <2>4. Cardinality(taken) < Cardinality(0 .. n)
    BY <1>1, <1>2, <2>2
  <2> HIDE DEF f
  <2>5. \E x, y \in 0 .. n : x # y /\ f[x] = f[y]
    <3>1. PICK S : S = 0 .. n
      OBVIOUS
    <3>2. IsFiniteSet(S) /\ f \in [S -> taken] /\ Cardinality(taken) < Cardinality(S)
      BY <2>1, <2>2, <2>4, <3>1
    <3>3. \E x, y \in S : x # y /\ f[x] = f[y]
      BY <3>2, FS_PigeonHole
    <3> QED
      BY <3>1, <3>3
  <2> QED
    BY <2>3, <2>5
<1>4. PICK k \in free : \A j \in free : k <= j
  <2>1. free \in SUBSET Nat
    BY <1>2
  <2> HIDE DEF free
  <2> QED
    BY <1>3, <2>1, LeastFacts
<1>5. k \in 0 .. n /\ <<name, k>> \notin taken /\ \A j \in 0 .. k - 1 : <<name, j>> \in taken
  <2>1. k \in 0 .. n /\ <<name, k>> \notin taken
    BY <1>4
  <2>2. ASSUME NEW j \in 0 .. k - 1 PROVE <<name, j>> \in taken
    <3>1. j \in 0 .. n /\ ~(k <= j)
      BY <1>2, <2>1
    <3>2. j \notin free
      BY <1>4, <3>1
    <3> QED
      BY <3>1, <3>2
  <2> QED
    BY <2>1, <2>2
<1> HIDE DEF free
<1> DEFINE First(i) == <<name, i>> \notin taken /\ \A j \in 0 .. i - 1 : <<name, j>> \in taken
           c == CHOOSE i \in 0 .. n : First(i)
<1>6. First(k)
  BY <1>5
<1>7. Fresh(name, taken) = <<name, c>>
  BY <1>1 DEF Fresh
<1>8. c \in 0 .. n /\ First(c)
  <2> HIDE DEF First
  <2> QED
    BY <1>5, <1>6
<1> HIDE DEF c
<1>9. c \in Nat /\ <<name, c>> \notin taken
  BY <1>2, <1>8
<1> QED
  BY <1>7, <1>9 DEF Names

-----------------------------------------------------------------------------
(* The units and the declarations are finite in number. *)
LEMMA ProgramFacts ==
    ASSUME IsProgram(program)
    PROVE  /\ Units = 1 .. Len(program.stems) /\ Len(program.stems) \in Nat /\ Len(program.stems) # 0
           /\ IsFiniteSet(Units) /\ Units \subseteq Nat /\ Units # {}
           /\ \A u \in Units : Stem(u) \in Nat
           /\ program.main \in {0} \cup Units
           /\ IsFiniteSet(Decls) /\ Decls \subseteq Nat
           /\ \A d \in Decls :
                  /\ Decl(d).unit \in Units /\ Decl(d).name \in Nat /\ Decl(d).public \in BOOLEAN
                  /\ Decl(d).refs \subseteq Decls
                  /\ Decl(d).form \in {"function", "plain", "array", "record", "records"}
                  /\ \A e \in Decl(d).refs : Decl(e).public \/ Decl(e).unit = Decl(d).unit
                  /\ \A e \in Decls : /\ Decl(d).public /\ Decl(e).public
                                      /\ Decl(d).unit = Decl(e).unit /\ Decl(d).name = Decl(e).name
                                      => d = e
<1>1. /\ program.stems \in Seq(Nat) /\ program.stems # <<>> /\ program.main \in {0} \cup DOMAIN program.stems
      /\ program.decls \in Seq(Declaration)
  BY DEF IsProgram
<1>2. Units = 1 .. Len(program.stems) /\ Len(program.stems) \in Nat /\ Len(program.stems) # 0
      /\ \A u \in Units : Stem(u) \in Nat
  BY <1>1 DEF Units, Stem
<1>3. IsFiniteSet(Units) /\ Units \subseteq Nat /\ Units # {}
  <2>1. 1 \in 1 .. Len(program.stems)
    BY <1>2
  <2>2. IsFiniteSet(1 .. Len(program.stems))
    BY <1>2, FS_Interval
  <2> QED
    BY <1>2, <2>1, <2>2
<1>4. Decls = 1 .. Len(program.decls) /\ Len(program.decls) \in Nat
      /\ \A d \in Decls : Decl(d) \in Declaration
  BY <1>1 DEF Decls, Decl
<1>5. IsFiniteSet(Decls) /\ Decls \subseteq Nat
  BY <1>4, FS_Interval
<1>6. ASSUME NEW d \in Decls
      PROVE  /\ Decl(d).name \in Nat /\ Decl(d).public \in BOOLEAN
             /\ Decl(d).form \in {"function", "plain", "array", "record", "records"}
  BY <1>4 DEF Declaration
<1>7. ASSUME NEW d \in Decls
      PROVE  /\ Decl(d).unit \in Units /\ Decl(d).refs \subseteq Decls
             /\ \A e \in Decl(d).refs : Decl(e).public \/ Decl(e).unit = Decl(d).unit
             /\ \A e \in Decls : /\ Decl(d).public /\ Decl(e).public
                                 /\ Decl(d).unit = Decl(e).unit /\ Decl(d).name = Decl(e).name
                                 => d = e
  BY DEF IsProgram, Units, Decls, Decl
<1> QED
  BY <1>1, <1>2, <1>3, <1>5, <1>6, <1>7 DEF Units

LEMMA OfFacts ==
    ASSUME IsProgram(program), NEW u
    PROVE  /\ Of(u) \subseteq Decls /\ Of(u) \subseteq Nat /\ IsFiniteSet(Of(u))
           /\ Owned(u) \subseteq Of(u) /\ Publics(u) \subseteq Of(u) /\ Foreign(u) \subseteq Decls
           /\ \A d \in Of(u) : Decl(d).unit = u
           /\ \A d \in Decls : d \in Of(u) <=> Decl(d).unit = u
<1>1. Of(u) \subseteq Decls /\ (\A d \in Of(u) : Decl(d).unit = u)
      /\ \A d \in Decls : d \in Of(u) <=> Decl(d).unit = u
  BY DEF Of
<1>2. IsFiniteSet(Of(u)) /\ Of(u) \subseteq Nat
  BY <1>1, ProgramFacts, FS_Subset
<1>3. Foreign(u) \subseteq Decls
  BY <1>1, ProgramFacts DEF Foreign
<1> QED
  BY <1>1, <1>2, <1>3 DEF Owned, Publics

LEMMA FiniteAsInC ==
    ASSUME NEW ds, IsFiniteSet(ds) PROVE IsFiniteSet(AsInC(ds))
<1> DEFINE f == [d \in ds |-> <<Decl(d).name, 0>>]
<1>1. f \in Surjection(ds, AsInC(ds))
  BY DEF Surjection, AsInC
<1> HIDE DEF f
<1> QED
  BY <1>1, FS_Surjection

(* The names a static of u avoids, whatever they are. *)
Taken(u) == AsInC(Publics(u) \cup Foreign(u)) \cup Reserved(u)

(* A unit declares no name twice, and its statics avoid what is taken. *)
LEMMA CalledFacts ==
    ASSUME IsProgram(program), NEW u, IsFiniteSet(Taken(u))
    PROVE  /\ DOMAIN Called(u) = Of(u)
           /\ \A d \in Of(u) : Called(u)[d] \in Names
           /\ \A d \in Publics(u) : Called(u)[d] = <<Decl(d).name, 0>>
           /\ \A d \in Of(u) \ Publics(u) :
                  /\ Called(u)[d] \notin Taken(u)
                  /\ \A e \in Of(u) : e < d => Called(u)[d] # Called(u)[e]
<1> DEFINE Body(f, d) ==
               IF Decl(d).public THEN <<Decl(d).name, 0>>
               ELSE Fresh(Decl(d).name, Taken(u) \cup {f[e] : e \in {e \in Of(u) : e < d}})
           Eq(f) == f = [d \in Of(u) |-> Body(f, d)]
           called == CHOOSE f : Eq(f)
<1>1. Called(u) = called
  BY DEF Called, Taken
<1>2. Of(u) \in SUBSET Nat /\ IsFiniteSet(Of(u)) /\ Of(u) \subseteq Decls
  BY OfFacts
<1>3. \A d \in Of(u) : Decl(d).name \in Nat /\ Decl(d).public \in BOOLEAN
  BY <1>2, ProgramFacts
<1>4. ASSUME NEW f, NEW d \in Of(u)
      PROVE  IsFiniteSet(Taken(u) \cup Image(f, Lower(Of(u), d)))
  <2>1. IsFiniteSet(Lower(Of(u), d))
    BY <1>2, FS_Subset DEF Lower
  <2>2. IsFiniteSet(Image(f, Lower(Of(u), d)))
    BY <2>1, FiniteImage
  <2> QED
    BY <2>2, FS_Union
<1>5. \A f : \A d \in Of(u) : {f[e] : e \in {e \in Of(u) : e < d}} = Image(f, Lower(Of(u), d))
  BY DEF Image, Lower
<1> DEFINE F == [d \in Of(u) |-> [A \in SUBSET Names |->
                    IF Decl(d).public THEN <<Decl(d).name, 0>>
                    ELSE IF IsFiniteSet(Taken(u) \cup A) THEN Fresh(Decl(d).name, Taken(u) \cup A) ELSE <<0, 0>>]]
<1>6. ASSUME NEW d \in Of(u), NEW A \in SUBSET Names
      PROVE  F[d][A] = IF Decl(d).public THEN <<Decl(d).name, 0>>
                       ELSE IF IsFiniteSet(Taken(u) \cup A) THEN Fresh(Decl(d).name, Taken(u) \cup A) ELSE <<0, 0>>
  OBVIOUS
<1> HIDE DEF F
<1>7. Staying(Of(u), Names, F)
  <2> SUFFICES ASSUME NEW d \in Of(u), NEW A \in SUBSET Names PROVE F[d][A] \in Names
    BY DEF Staying
  <2>1. <<0, 0>> \in Names /\ <<Decl(d).name, 0>> \in Names
    BY <1>3 DEF Names
  <2>2. IsFiniteSet(Taken(u) \cup A) => Fresh(Decl(d).name, Taken(u) \cup A) \in Names
    BY <1>3, FreshFacts
  <2> QED
    BY <1>6, <2>1, <2>2
<1>8. PICK f \in [Of(u) -> Names] : \A x \in Of(u) : Course(Of(u), F, f, x)
  BY <1>2, <1>7, CourseExists, Zenon
<1>9. ASSUME NEW d \in Of(u) PROVE f[d] = Body(f, d)
  <2>1. Course(Of(u), F, f, d) /\ d <= d
    BY <1>2, <1>8
  <2>2. f[d] = F[d][Image(f, Lower(Of(u), d))]
    BY <2>1 DEF Course
  <2>3. Image(f, Lower(Of(u), d)) \in SUBSET Names
    BY <1>8 DEF Image, Lower
  <2>4. IsFiniteSet(Taken(u) \cup Image(f, Lower(Of(u), d)))
    BY <1>4
  <2>5. f[d] = IF Decl(d).public THEN <<Decl(d).name, 0>>
               ELSE Fresh(Decl(d).name, Taken(u) \cup Image(f, Lower(Of(u), d)))
    BY <1>6, <2>2, <2>3, <2>4
  <2> QED
    BY <1>5, <2>5
<1>10. Eq(f)
  <2> HIDE DEF Body
  <2> QED
    BY <1>8, <1>9
<1>11. Eq(called)
  <2> HIDE DEF Eq
  <2> QED
    BY <1>10
<1> HIDE DEF called
<1>12. DOMAIN called = Of(u) /\ \A d \in Of(u) : called[d] = Body(called, d)
  <2> HIDE DEF Body
  <2> QED
    BY <1>11
<1> HIDE DEF Eq
<1>13. ASSUME NEW d \in Of(u) \ Publics(u)
       PROVE  /\ called[d] \in Names /\ called[d] \notin Taken(u)
              /\ called[d] \notin Image(called, Lower(Of(u), d))
  <2>1. ~Decl(d).public
    BY DEF Publics
  <2>2. called[d] = Fresh(Decl(d).name, Taken(u) \cup Image(called, Lower(Of(u), d)))
    BY <1>5, <1>12, <2>1
  <2>3. IsFiniteSet(Taken(u) \cup Image(called, Lower(Of(u), d)))
    BY <1>4
  <2>4. PICK T : T = Taken(u) \cup Image(called, Lower(Of(u), d))
    OBVIOUS
  <2>5. Fresh(Decl(d).name, T) \in Names /\ Fresh(Decl(d).name, T) \notin T
    BY <1>3, <2>3, <2>4, FreshFacts
  <2> QED
    BY <2>2, <2>4, <2>5
<1>14. ASSUME NEW d \in Publics(u) PROVE called[d] = <<Decl(d).name, 0>> /\ called[d] \in Names
  <2>1. d \in Of(u) /\ Decl(d).public
    BY DEF Publics
  <2>2. called[d] = <<Decl(d).name, 0>> /\ Decl(d).name \in Nat
    BY <1>3, <1>12, <2>1
  <2> QED
    BY <2>2 DEF Names
<1>15. \A d \in Of(u) \ Publics(u) : \A e \in Of(u) : e < d => called[d] # called[e]
  <2> TAKE d \in Of(u) \ Publics(u)
  <2> TAKE e \in Of(u)
  <2> HAVE e < d
  <2>1. called[e] \in Image(called, Lower(Of(u), d))
    BY DEF Image, Lower
  <2> QED
    BY <1>13, <2>1
<1>16. \A d \in Of(u) : called[d] \in Names
  BY <1>13, <1>14
<1> QED
  BY <1>1, <1>12, <1>13, <1>14, <1>15, <1>16

(* What the search leaves, for the lemmas below. *)
Grouped == component \in [Units -> Units]

LEMMA MatesFacts ==
    ASSUME IsProgram(program), Grouped, NEW u \in Units
    PROVE  /\ u \in Mates(u) /\ Mates(u) \subseteq Units /\ IsFiniteSet(Mates(u)) /\ Mates(u) \subseteq Nat
           /\ \A v \in Mates(u) : /\ Mates(v) = Mates(u) /\ (Clustered(v) <=> Clustered(u))
                                  /\ (HasMain(v) <=> HasMain(u)) /\ ModuleName(v) = ModuleName(u)
           /\ \A v \in Units : v \notin Mates(u) => Mates(v) \cap Mates(u) = {}
           /\ ~Clustered(u) => Mates(u) = {u}
           /\ Min(Mates(u)) \in Mates(u) /\ \A v \in Mates(u) : Min(Mates(u)) <= v
<1>1. u \in Mates(u) /\ Mates(u) \subseteq Units
  BY DEF Mates
<1>2. IsFiniteSet(Mates(u)) /\ Mates(u) \subseteq Nat
  BY <1>1, ProgramFacts, FS_Subset
<1>3. \A v \in Mates(u) : Mates(v) = Mates(u)
  BY DEF Mates
<1>4. \A v \in Units : v \notin Mates(u) => Mates(v) \cap Mates(u) = {}
  BY DEF Mates
<1>5. ~Clustered(u) => Mates(u) = {u}
  BY <1>1 DEF Clustered
<1>6. Min(Mates(u)) \in Mates(u) /\ \A v \in Mates(u) : Min(Mates(u)) <= v
  BY <1>1, <1>2, LeastFacts
<1>7. ASSUME NEW v \in Mates(u)
      PROVE  /\ Clustered(v) <=> Clustered(u)
             /\ HasMain(v) <=> HasMain(u)
             /\ ModuleName(v) = ModuleName(u)
  <2>1. Mates(v) = Mates(u)
    BY <1>3
  <2>2. Clustered(v) <=> Clustered(u)
    BY <1>1, <2>1 DEF Clustered
  <2>3. HasMain(v) <=> HasMain(u)
    BY <2>1 DEF HasMain
  <2>4. ~Clustered(u) => v = u
    BY <1>5
  <2>5. ModuleName(v) = ModuleName(u)
    BY <2>1, <2>2, <2>3, <2>4 DEF ModuleName
  <2> QED
    BY <2>2, <2>3, <2>5
<1> QED
  BY <1>1, <1>2, <1>3, <1>4, <1>5, <1>6, <1>7

(* What is in the file of u's module. *)
LEMMA FileFacts ==
    ASSUME IsProgram(program), Grouped, NEW outs, NEW u \in Units, NEW m, m = File(outs, Mates(u))
    PROVE  /\ m.name = ModuleName(u) /\ m.main = HasMain(u)
           /\ m.requires = UNION {Requires(v) : v \in Mates(u)}
           /\ DOMAIN m.called = {e \in Decls : Decl(e).unit \in Mates(u)}
           /\ \A d \in DOMAIN m.called : m.called[d] = outs[Decl(d).unit].called[d]
           /\ DOMAIN m.includes = 1 .. Cardinality(Mates(u))
           /\ \A k \in DOMAIN m.includes : m.includes[k] = outs[Included(Mates(u))[k]].objects
           /\ DOMAIN m.init = {e \in Decls : Decl(e).unit \in Mates(u) /\ IsObject(e)}
           /\ \A d \in DOMAIN m.init : m.init[d] = outs[Decl(d).unit].init[d]
<1>1. ModuleName(Min(Mates(u))) = ModuleName(u)
  BY MatesFacts
<1>2. PICK n : n = ModuleName(Min(Mates(u)))
  OBVIOUS
<1>3. PICK main, requires, called, includes, init :
          /\ main = (program.main \in Mates(u))
          /\ requires = UNION {Requires(v) : v \in Mates(u)}
          /\ called = [d \in {e \in Decls : Decl(e).unit \in Mates(u)} |-> outs[Decl(d).unit].called[d]]
          /\ includes = [k \in 1 .. Cardinality(Mates(u)) |-> outs[Included(Mates(u))[k]].objects]
          /\ init = [d \in {e \in Decls : Decl(e).unit \in Mates(u) /\ IsObject(e)} |->
                         outs[Decl(d).unit].init[d]]
  OBVIOUS
<1>4. m = [name |-> n, main |-> main, requires |-> requires, called |-> called,
           includes |-> includes, init |-> init]
  BY <1>2, <1>3 DEF File
<1>5. /\ m.name = n /\ m.main = main /\ m.requires = requires /\ m.called = called
      /\ m.includes = includes /\ m.init = init
  BY <1>4
<1>6. /\ DOMAIN called = {e \in Decls : Decl(e).unit \in Mates(u)}
      /\ \A d \in DOMAIN called : called[d] = outs[Decl(d).unit].called[d]
  BY <1>3
<1>7. /\ DOMAIN includes = 1 .. Cardinality(Mates(u))
      /\ \A k \in DOMAIN includes : includes[k] = outs[Included(Mates(u))[k]].objects
  BY <1>3
<1>8. /\ DOMAIN init = {e \in Decls : Decl(e).unit \in Mates(u) /\ IsObject(e)}
      /\ \A d \in DOMAIN init : init[d] = outs[Decl(d).unit].init[d]
  BY <1>3
<1>9. m.name = ModuleName(u) /\ m.main = HasMain(u) /\ m.requires = UNION {Requires(v) : v \in Mates(u)}
  BY <1>1, <1>2, <1>3, <1>5 DEF HasMain
<1> QED
  BY <1>5, <1>6, <1>7, <1>8, <1>9

-----------------------------------------------------------------------------
(* The next fragment is one that is left, and one that is ready if any is. *)
LEMMA PlaceFacts ==
    ASSUME NEW left \in SUBSET Nat, left # {}, NEW placed
    PROVE  /\ Place(left, placed) \in left
           /\ (\E u \in left : After(u) \subseteq placed) => After(Place(left, placed)) \subseteq placed
<1> DEFINE ready == {u \in left : After(u) \subseteq placed}
<1>1. CASE ready = {}
  <2>1. Place(left, placed) = Min(left)
    BY <1>1 DEF Place
  <2> QED
    BY <1>1, <2>1, LeastFacts
<1>2. CASE ready # {}
  <2>1. Place(left, placed) = Min(ready)
    BY <1>2 DEF Place
  <2>2. ready \in SUBSET Nat
    OBVIOUS
  <2>3. Min(ready) \in ready
    <3> HIDE DEF ready
    <3> QED
      BY <1>2, <2>2, LeastFacts
  <2> QED
    BY <2>1, <2>3
<1> QED
  BY <1>1, <1>2

(* What u's objects reach of other fragments is included before u. *)
InOrder(us, inc) ==
    \A k \in 1 .. Cardinality(us) : \A v \in After(inc[k]) : \E j \in 1 .. Cardinality(us) : j < k /\ inc[j] = v

AfterWithin(us) == \A u \in us : After(u) \subseteq us

(* Every fragment is included once, and if no fragments reach each other in a *)
(* circle, after those it reaches.                                            *)
LEMMA IncludedFacts ==
    ASSUME NEW us \in SUBSET Nat, IsFiniteSet(us), NEW inc, inc = Included(us)
    PROVE  /\ DOMAIN inc = 1 .. Cardinality(us)
           /\ \A k \in 1 .. Cardinality(us) : inc[k] \in us
           /\ \A v \in us : \E k \in 1 .. Cardinality(us) : inc[k] = v
           /\ ~Circle(us) /\ AfterWithin(us) => InOrder(us, inc)
<1>1. PICK n : n = Cardinality(us)
  OBVIOUS
<1>2. n \in Nat /\ IsFiniteSet(1 .. n) /\ 1 .. n \in SUBSET Nat /\ Cardinality(1 .. n) = n
  <2>1. n \in Nat
    BY <1>1, FS_CardinalityType
  <2>2. IsFiniteSet(1 .. n) /\ Cardinality(1 .. n) = n
    BY <2>1, FS_Interval
  <2> QED
    BY <2>1, <2>2
<1> DEFINE Placed(f, k) == {f[j] : j \in 1 .. k - 1}
           Body(f, k) == Place(us \ Placed(f, k), Placed(f, k))
           Eq(f) == f = [k \in 1 .. n |-> Body(f, k)]
<1>3. inc = CHOOSE f : Eq(f)
  BY <1>1 DEF Included
<1>4. ASSUME NEW f, NEW k \in 1 .. n
      PROVE  /\ Placed(f, k) = Image(f, Lower(1 .. n, k))
             /\ us \ Placed(f, k) # {}
  <2>1. Lower(1 .. n, k) = 1 .. k - 1
    BY <1>2 DEF Lower
  <2>2. Placed(f, k) = Image(f, 1 .. k - 1)
    BY DEF Image
  <2>3. IsFiniteSet(1 .. k - 1) /\ Cardinality(1 .. k - 1) = k - 1
    <3>1. k \in Nat /\ k - 1 \in Nat
      BY <1>2
    <3> QED
      BY <3>1, FS_Interval
  <2>4. /\ IsFiniteSet(Image(f, 1 .. k - 1))
        /\ Cardinality(Image(f, 1 .. k - 1)) <= k - 1
    <3> DEFINE g == [x \in 1 .. k - 1 |-> f[x]]
    <3>1. g \in Surjection(1 .. k - 1, Image(f, 1 .. k - 1))
      BY DEF Surjection, Image
    <3> HIDE DEF g
    <3> QED
      BY <2>3, <3>1, FS_Surjection
  <2>5. PICK A : A = Image(f, 1 .. k - 1)
    OBVIOUS
  <2>6. us \ A # {}
    <3> SUFFICES ASSUME us \ A = {} PROVE FALSE
      OBVIOUS
    <3>1. us \in SUBSET A
      OBVIOUS
    <3>2. n <= Cardinality(A) /\ Cardinality(A) <= k - 1 /\ Cardinality(A) \in Nat
      BY <1>1, <2>4, <2>5, <3>1, FS_Subset, FS_CardinalityType
    <3> QED
      BY <1>2, <3>2
  <2> QED
    BY <2>1, <2>2, <2>5, <2>6
<1>5. ASSUME NEW f, NEW k \in 1 .. n PROVE Body(f, k) \in us /\ Body(f, k) \notin Placed(f, k)
  <2>1. us \ Placed(f, k) \in SUBSET Nat /\ us \ Placed(f, k) # {}
    BY <1>4
  <2> HIDE DEF Placed
  <2>2. Body(f, k) \in us \ Placed(f, k)
    BY <2>1, PlaceFacts
  <2> QED
    BY <2>2
<1> HIDE DEF Placed
<1> DEFINE F == [k \in 1 .. n |-> [A \in SUBSET us |->
                    IF us \ A # {} THEN Place(us \ A, A) ELSE CHOOSE v \in us : TRUE]]
<1>6. \A k \in 1 .. n : \A A \in SUBSET us :
          F[k][A] = IF us \ A # {} THEN Place(us \ A, A) ELSE CHOOSE v \in us : TRUE
  OBVIOUS
<1> HIDE DEF F
<1>7. Staying(1 .. n, us, F)
  <2> SUFFICES ASSUME NEW k \in 1 .. n, NEW A \in SUBSET us PROVE F[k][A] \in us
    BY DEF Staying
  <2>1. us # {}
    BY <1>4
  <2>2. us \ A # {} => Place(us \ A, A) \in us \ A
    <3>1. us \ A \in SUBSET Nat
      OBVIOUS
    <3> QED
      BY <3>1, PlaceFacts
  <2>3. (CHOOSE v \in us : TRUE) \in us
    BY <2>1
  <2> QED
    BY <1>6, <2>2, <2>3
<1>8. PICK f \in [1 .. n -> us] : \A x \in 1 .. n : Course(1 .. n, F, f, x)
  <2>1. PICK S : S = 1 .. n
    OBVIOUS
  <2>2. S \in SUBSET Nat /\ Staying(S, us, F)
    BY <1>2, <1>7, <2>1
  <2>3. \E f \in [S -> us] : \A x \in S : Course(S, F, f, x)
    BY <2>2, CourseExists, Zenon
  <2> QED
    BY <2>1, <2>3
<1>9. ASSUME NEW k \in 1 .. n PROVE f[k] = Body(f, k)
  <2>1. Course(1 .. n, F, f, k) /\ k <= k
    BY <1>2, <1>8
  <2>2. f[k] = F[k][Image(f, Lower(1 .. n, k))]
    BY <2>1 DEF Course
  <2>3. Placed(f, k) = Image(f, Lower(1 .. n, k)) /\ us \ Placed(f, k) # {}
    BY <1>4
  <2>4. Placed(f, k) \in SUBSET us
    <3>1. Image(f, Lower(1 .. n, k)) \in SUBSET us
      BY <1>8 DEF Image, Lower
    <3> QED
      BY <2>3, <3>1
  <2> QED
    BY <1>6, <2>2, <2>3, <2>4
<1>10. Eq(f)
  <2> HIDE DEF Body
  <2> QED
    BY <1>8, <1>9
<1>11. Eq(inc)
  <2> HIDE DEF Eq
  <2> QED
    BY <1>3, <1>10
<1>12. DOMAIN inc = 1 .. n /\ \A k \in 1 .. n : inc[k] = Body(inc, k)
  <2> HIDE DEF Body
  <2> QED
    BY <1>11
<1> HIDE DEF Eq
<1>13. \A k \in 1 .. n : inc[k] \in us /\ inc[k] \notin Placed(inc, k)
  <2> HIDE DEF Body
  <2> QED
    BY <1>5, <1>12
<1>14. \A j, k \in 1 .. n : j < k => inc[j] # inc[k]
  <2> TAKE j, k \in 1 .. n
  <2> HAVE j < k
  <2>1. j \in 1 .. k - 1
    BY <1>2
  <2>2. inc[j] \in Placed(inc, k)
    BY <2>1 DEF Placed
  <2> QED
    BY <1>13, <2>2
<1>15. \A v \in us : \E k \in 1 .. n : inc[k] = v
  <2> DEFINE g == [k \in 1 .. n |-> inc[k]]
  <2>1. \A j, k \in 1 .. n : inc[j] = inc[k] => j = k
    <3> TAKE j, k \in 1 .. n
    <3> HAVE inc[j] = inc[k]
    <3>1. ~(j < k) /\ ~(k < j)
      BY <1>14
    <3> QED
      BY <1>2, <3>1
  <2>2. g \in [1 .. n -> us]
    BY <1>13
  <2>3. g \in Injection(1 .. n, us)
    <3>1. \A j, k \in 1 .. n : g[j] = g[k] => j = k
      BY <2>1
    <3>2. DOMAIN g = 1 .. n
      OBVIOUS
    <3> HIDE DEF g
    <3> QED
      BY <2>2, <3>1, <3>2 DEF Injection, IsInjective
  <2>4. \A k \in 1 .. n : g[k] = inc[k]
    OBVIOUS
  <2> HIDE DEF g
  <2>5. g \in Surjection(1 .. n, us)
    BY <1>1, <1>2, <2>3, FS_Injection
  <2> QED
    BY <2>4, <2>5 DEF Surjection
<1>16. ASSUME ~Circle(us), \A u \in us : After(u) \subseteq us, NEW k \in 1 .. n, NEW v \in After(inc[k])
       PROVE  \E j \in 1 .. n : j < k /\ inc[j] = v
  <2>1. PICK A : A = Placed(inc, k)
    OBVIOUS
  <2>2. us \ A # {} /\ us \ A \in SUBSET Nat /\ inc[k] = Place(us \ A, A)
    BY <1>4, <1>12, <2>1
  <2>3. \E u \in us \ A : After(u) \subseteq A
    <3> SUFFICES ASSUME \A u \in us \ A : ~(After(u) \subseteq A) PROVE FALSE
      OBVIOUS
    <3>1. \A u \in us \ A : After(u) \cap (us \ A) # {}
      BY <1>16
    <3> QED
      BY <1>16, <2>2, <3>1 DEF Circle
  <2>4. After(inc[k]) \subseteq A
    BY <2>2, <2>3, PlaceFacts
  <2>5. PICK j \in 1 .. k - 1 : inc[j] = v
    BY <2>1, <2>4 DEF Placed
  <2> QED
    BY <1>2, <2>5
<1>17. ~Circle(us) /\ AfterWithin(us) => InOrder(us, inc)
  BY <1>1, <1>16 DEF AfterWithin, InOrder
<1> QED
  BY <1>1, <1>12, <1>13, <1>15, <1>17

-----------------------------------------------------------------------------
(* The inductive invariant. *)
Accepted    == ~SameStem /\ ~TakesRuntime /\ ~DefinedTwice
Translating == phase \in {"translate", "sort", "written"}
LinkGraph   == [u \in Units |-> Edges(u)]

(* The search is of what the units refer to. *)
SearchInv ==
    /\ phase = "components" \/ Translating => Accepted /\ edges = LinkGraph
    /\ Translating => AllVisited /\ ~NameTaken /\ ~EntryNeeded

StoredInv ==
    /\ todo \subseteq Units
    /\ \A u \in DOMAIN out : /\ IsFiniteSet(DOMAIN out[u].called) /\ Range(out[u].called) \subseteq Names
                             /\ Range(out[u].objects) = DOMAIN out[u].init
    /\ \A d \in DOMAIN read : read[d] \subseteq Decl(d).refs

(* The second pass takes the units in order. *)
TodoInv ==
    Translating =>
        /\ todo = {} <=> phase = "written"
        /\ ~again => todo # {} /\ \A u \in todo : Clustered(u)
        /\ again => \A u \in Units \ todo : \A v \in todo : u < v

(* The objects that are sorted are those of the unit whose turn it is. *)
SortInv ==
    phase = "sort" =>
        /\ deps = Dependencies(Job, again) /\ inits = {o \in Owned(Job) : Initialized(o)}
        /\ storage = [o \in Owned(Job) |-> Storage(o)]

(* f names the declarations of u. *)
NamesOf(u, f) ==
    /\ DOMAIN f = Of(u)
    /\ \A d \in Publics(u) : f[d] = <<Decl(d).name, 0>>
    /\ \A d \in Of(u) \ Publics(u) :
           f[d] \notin Taken(u) /\ \A e \in Of(u) : e < d => f[d] # f[e]

NamesInv ==
    Translating =>
        /\ DOMAIN out = Units
        /\ again => \A u \in Units \ todo : NamesOf(u, out[u].called)

Before(s, o, p) == \E i, j \in DOMAIN s : i < j /\ s[i] = o /\ s[j] = p

InCircle(f, o) == \E os \in SUBSET DOMAIN f : o \in os /\ \A p \in os : f[p] \cap os # {}

(* s lists objs once each, and no cyclic one is reached by another kind. *)
Sequenced(s, objs, f, cy) ==
    /\ s \in Seq(objs)
    /\ \A o \in objs : \E k \in DOMAIN s : s[k] = o
    /\ \A j, k \in DOMAIN s : s[j] = s[k] => j = k
    /\ \A o \in objs \ cy : \A d \in f[o] : d \notin cy /\ Before(s, d, o)

(* u's objects are sorted by what their initializers reach, f; cy are cyclic. *)
SortedBy(u, f, cy) ==
    /\ Sequenced(out[u].objects, Owned(u), f, cy) /\ DOMAIN out[u].init = Owned(u)
    /\ \A o \in Owned(u) :
           /\ out[u].init[o] = "inline" <=> Initialized(o) /\ o \notin cy /\ Storage(o) # "in place"
           /\ out[u].init[o] = "inline" => \A d \in f[o] : out[u].init[d] # "none"
           /\ out[u].init[o] = "none" /\ Clustered(u) => Decl(o).form = "array"

ObjectsInv ==
    Translating /\ again =>
        \A u \in Units \ todo : \E cy \in SUBSET Owned(u) : SortedBy(u, Dependencies(u, TRUE), cy)

(* What u's declaration d names is known, or d is not initialized in place. *)
Known(u, d) ==
    \/ read[d] = Decl(d).refs
    \/ /\ IsObject(d)
       /\ Storage(d) = "in place" \/ InCircle(Dependencies(u, FALSE), d)

ReadInv ==
    Translating =>
        /\ DOMAIN read = Decls
        /\ \A u \in Units : Clustered(u) /\ (again \/ u \notin todo) => \A d \in Of(u) : Known(u, d)

FileInv == phase = "written" => modules = {File(out, Mates(u)) : u \in Units}

LayoutInv ==
    /\ program \in Programs
    /\ ComponentsInv /\ OrderInv /\ TracedInv
    /\ StoredInv /\ SearchInv /\ TodoInv /\ SortInv /\ NamesInv /\ ObjectsInv /\ ReadInv /\ FileInv
    /\ again \in BOOLEAN /\ phase \in {"link", "components", "refused", "translate", "sort", "written"}

-----------------------------------------------------------------------------
LEMMA LaidOut ==
    ASSUME LayoutInv
    PROVE  /\ IsProgram(program)
           /\ phase = "components" \/ Translating => Nodes = Units /\ Grouped /\ edges = LinkGraph
<1>1. IsProgram(program)
  BY ProgramsAssumption DEF LayoutInv
<1>2. ASSUME phase = "components" \/ Translating PROVE Nodes = Units /\ Grouped /\ edges = LinkGraph
  <2>1. edges = LinkGraph
    BY <1>2 DEF LayoutInv, SearchInv
  <2>2. Nodes = Units
    BY <2>1 DEF Nodes, LinkGraph
  <2> QED
    BY <2>1, <2>2 DEF LayoutInv, ComponentsInv, ComponentsTypeOK, Grouped
<1> QED
  BY <1>1, <1>2

(* A module is called after its main unit, or after its first stem. *)
LEMMA ModuleNameIs ==
    ASSUME IsProgram(program), Grouped, NEW u \in Units
    PROVE  \/ \E w \in Mates(u) : ModuleName(u) = Stem(w)
           \/ Clustered(u) /\ ~HasMain(u) /\ \E w \in Mates(u) : ModuleName(u) = Stem(w) + 1
<1>1. u \in Mates(u) /\ Mates(u) \subseteq Units
  BY MatesFacts
<1>2. CASE ~Clustered(u)
  BY <1>1, <1>2 DEF ModuleName
<1>3. CASE Clustered(u) /\ HasMain(u)
  BY <1>1, <1>3 DEF ModuleName, HasMain
<1>4. CASE Clustered(u) /\ ~HasMain(u)
  <2> DEFINE stems == {Stem(v) : v \in Mates(u)}
  <2>1. stems \in SUBSET Nat /\ stems # {}
    BY <1>1, ProgramFacts
  <2>2. Min(stems) \in stems
    <3> HIDE DEF stems
    <3> QED
      BY <2>1, LeastFacts
  <2>3. ModuleName(u) = Min(stems) + 1
    BY <1>4 DEF ModuleName
  <2>4. PICK w \in Mates(u) : Min(stems) = Stem(w)
    BY <2>2
  <2> QED
    BY <1>4, <2>3, <2>4
<1> QED
  BY <1>2, <1>3, <1>4

(* Modules that are not one have two names. *)
LEMMA NamesDiffer ==
    ASSUME IsProgram(program), Grouped, ~SameStem, ~TakesRuntime, ~NameTaken, NEW u \in Units
    PROVE  /\ ModuleName(u) # RuntimeName
           /\ \A v \in Units : v \notin Mates(u) => ModuleName(v) # ModuleName(u)
<1>1. \A v \in Units : Mates(v) \subseteq Units /\ Stem(v) \in Nat
  BY MatesFacts, ProgramFacts
<1>2. ModuleName(u) # RuntimeName
  <2>1. CASE \E w \in Mates(u) : ModuleName(u) = Stem(w)
    BY <1>1, <2>1 DEF TakesRuntime
  <2>2. CASE Clustered(u) /\ ~HasMain(u)
    BY <2>2 DEF NameTaken
  <2> QED
    BY <2>1, <2>2, ModuleNameIs
<1>3. ASSUME NEW v \in Units, v \notin Mates(u), ModuleName(v) = ModuleName(u) PROVE FALSE
  <2>1. \A w \in Mates(u), x \in Mates(v) : w \in Units /\ x \in Units /\ w # x
    BY <1>1, <1>3, MatesFacts
  <2>2. \A w \in Mates(u), x \in Mates(v) : Stem(w) # Stem(x) /\ Stem(w) \in Nat /\ Stem(x) \in Nat
    BY <1>1, <2>1 DEF SameStem
  <2>3. CASE Clustered(u) /\ ~HasMain(u)
    <3>1. \A w \in Units : ModuleName(u) # Stem(w)
      BY <2>3 DEF NameTaken
    <3>2. PICK x \in Mates(v) : ModuleName(v) = Stem(x) + 1
      BY <1>1, <1>3, <3>1, ModuleNameIs
    <3>3. PICK w \in Mates(u) : ModuleName(u) = Stem(w) + 1
      BY <1>1, <3>1, ModuleNameIs
    <3>4. Stem(w) # Stem(x) /\ Stem(w) \in Nat /\ Stem(x) \in Nat
      BY <2>2
    <3>5. \A a, b \in Nat : a + 1 = b + 1 => a = b
      OBVIOUS
    <3>6. PICK a, b : a = Stem(w) /\ b = Stem(x)
      OBVIOUS
    <3>7. a + 1 = b + 1
      BY <1>3, <3>2, <3>3, <3>6
    <3> QED
      BY <3>4, <3>5, <3>6, <3>7
  <2>4. CASE Clustered(v) /\ ~HasMain(v)
    <3>1. \A w \in Units : ModuleName(v) # Stem(w)
      BY <2>4 DEF NameTaken
    <3>2. PICK x \in Mates(v) : ModuleName(v) = Stem(x) + 1
      BY <1>1, <3>1, ModuleNameIs
    <3>3. PICK w \in Mates(u) : ModuleName(u) = Stem(w) + 1
      BY <1>1, <1>3, <3>1, ModuleNameIs
    <3>4. Stem(w) # Stem(x) /\ Stem(w) \in Nat /\ Stem(x) \in Nat
      BY <2>2
    <3>5. \A a, b \in Nat : a + 1 = b + 1 => a = b
      OBVIOUS
    <3>6. PICK a, b : a = Stem(w) /\ b = Stem(x)
      OBVIOUS
    <3>7. a + 1 = b + 1
      BY <1>3, <3>2, <3>3, <3>6
    <3> QED
      BY <3>4, <3>5, <3>6, <3>7
  <2>5. CASE (\E w \in Mates(u) : ModuleName(u) = Stem(w)) /\ (\E x \in Mates(v) : ModuleName(v) = Stem(x))
    BY <1>3, <2>2, <2>5
  <2> QED
    BY <2>3, <2>4, <2>5, ModuleNameIs
<1> QED
  BY <1>2, <1>3

LEMMA EdgesFacts ==
    ASSUME IsProgram(program), NEW u
    PROVE  Edges(u) \subseteq Units
BY OfFacts, ProgramFacts DEF Edges

-----------------------------------------------------------------------------
(* A declaration is in the module of its unit, and in no other. *)
LEMMA HomeFacts ==
    ASSUME LayoutInv, phase = "written", NEW d \in Decls
    PROVE  /\ Decl(d).unit \in Units /\ Home(d) = File(out, Mates(Decl(d).unit)) /\ Home(d) \in modules
           /\ DOMAIN Home(d).called = {e \in Decls : Decl(e).unit \in Mates(Decl(d).unit)}
           /\ d \in DOMAIN Home(d).called
           /\ Name(d) = out[Decl(d).unit].called[d]
<1>1. PICK u : u = Decl(d).unit
  OBVIOUS
<1>2. IsProgram(program) /\ Grouped
  BY LaidOut DEF Translating
<1>3. u \in Units /\ u \in Mates(u)
  BY <1>1, <1>2, ProgramFacts, MatesFacts
<1>4. modules = {File(out, Mates(v)) : v \in Units}
  BY DEF LayoutInv, FileInv
<1>5. ASSUME NEW v \in Units
      PROVE  DOMAIN File(out, Mates(v)).called = {e \in Decls : Decl(e).unit \in Mates(v)}
  <2>1. PICK m : m = File(out, Mates(v))
    OBVIOUS
  <2>2. DOMAIN m.called = {e \in Decls : Decl(e).unit \in Mates(v)}
    BY <1>2, <2>1, FileFacts
  <2> QED
    BY <2>1, <2>2
<1>6. File(out, Mates(u)) \in modules /\ d \in DOMAIN File(out, Mates(u)).called
  BY <1>1, <1>3, <1>4, <1>5
<1>7. \A m \in modules : d \in DOMAIN m.called => m = File(out, Mates(u))
  <2> TAKE m \in modules
  <2> HAVE d \in DOMAIN m.called
  <2>1. PICK v \in Units : m = File(out, Mates(v))
    BY <1>4
  <2>2. u \in Mates(v)
    BY <1>1, <1>5, <2>1
  <2>3. Mates(u) = Mates(v)
    BY <1>2, <2>2, MatesFacts
  <2> QED
    BY <2>1, <2>3
<1>8. Home(d) = File(out, Mates(u))
  BY <1>6, <1>7 DEF Home
<1>9. Name(d) = out[u].called[d]
  <2>1. PICK m : m = File(out, Mates(u))
    OBVIOUS
  <2>2. \A e \in DOMAIN m.called : m.called[e] = out[Decl(e).unit].called[e]
    BY <1>2, <1>3, <2>1, FileFacts
  <2>3. Name(d) = m.called[d]
    BY <1>8, <2>1 DEF Name
  <2> QED
    BY <1>1, <1>6, <2>1, <2>2, <2>3
<1> QED
  BY <1>1, <1>3, <1>5, <1>6, <1>8, <1>9

(* What declarations of one module are called. *)
LEMMA OneNameEach ==
    ASSUME LayoutInv, phase = "written", NEW d \in Decls, NEW e \in Decls,
           Decl(e).unit \in Mates(Decl(d).unit), Name(d) = Name(e)
    PROVE  d = e
<1>1. PICK u, v : u = Decl(d).unit /\ v = Decl(e).unit
  OBVIOUS
<1>2. IsProgram(program) /\ Grouped /\ Accepted
  BY LaidOut DEF Translating, LayoutInv, SearchInv
<1>3. /\ u \in Units /\ v \in Units /\ v \in Mates(u) /\ u \in Mates(v) /\ d \in Of(u) /\ e \in Of(v)
      /\ u \in Nat /\ v \in Nat /\ d \in Nat /\ e \in Nat
  <2>1. u \in Units /\ v \in Units /\ v \in Mates(u) /\ d \in Of(u) /\ e \in Of(v)
    BY <1>1, <1>2, ProgramFacts, OfFacts
  <2>2. Mates(v) = Mates(u) /\ u \in Mates(u)
    BY <1>2, <2>1, MatesFacts
  <2> QED
    BY <1>2, <2>1, <2>2, ProgramFacts
<1>4. NamesOf(u, out[u].called) /\ NamesOf(v, out[v].called)
  <2>1. todo = {} /\ again
    BY DEF LayoutInv, TodoInv, Translating
  <2> QED
    BY <1>3, <2>1 DEF LayoutInv, NamesInv, Translating
<1>5. out[u].called[d] = out[v].called[e]
  BY <1>1, HomeFacts
<1>6. CASE Decl(d).public /\ Decl(e).public
  <2>1. <<Decl(d).name, 0>> = <<Decl(e).name, 0>>
    BY <1>3, <1>4, <1>5, <1>6 DEF NamesOf, Publics
  <2>2. Decl(d).name = Decl(e).name
    BY <2>1
  <2>3. u = v
    BY <1>1, <1>2, <1>6, <2>2 DEF Accepted, DefinedTwice
  <2> QED
    BY <1>1, <1>2, <1>6, <2>2, <2>3, ProgramFacts
<1>7. ASSUME NEW w \in Units, NEW x \in Units, x \in Mates(w), NEW s \in Of(w), NEW p \in Of(x),
             ~Decl(s).public, Decl(p).public, NamesOf(w, out[w].called), NamesOf(x, out[x].called),
             out[w].called[s] = out[x].called[p]
      PROVE  FALSE
  <2>1. out[w].called[s] = <<Decl(p).name, 0>> /\ p \in Publics(x)
    BY <1>7 DEF NamesOf, Publics
  <2>2. <<Decl(p).name, 0>> \in Taken(w)
    <3>1. CASE x = w
      BY <2>1, <3>1 DEF Taken, AsInC
    <3>2. CASE x # w
      <4>1. p \in UNION {Publics(y) : y \in Mates(w) \ {w}}
        BY <1>7, <2>1, <3>2
      <4> QED
        BY <4>1 DEF Taken, Reserved, AsInC
    <3> QED
      BY <3>1, <3>2
  <2>3. s \in Of(w) \ Publics(w)
    BY <1>7 DEF Publics
  <2> QED
    BY <1>7, <2>1, <2>2, <2>3 DEF NamesOf
<1>8. ASSUME NEW w \in Units, NEW x \in Units, x \in Mates(w), x < w, NEW s \in Of(w), NEW p \in Of(x),
             ~Decl(s).public, NamesOf(w, out[w].called), NamesOf(x, out[x].called),
             out[w].called[s] = out[x].called[p]
      PROVE  FALSE
  <2>1. p \in DOMAIN out[x].called
    BY <1>8 DEF NamesOf
  <2>2. out[x].called[p] \in Range(out[x].called)
    BY <2>1 DEF Range
  <2>3. x \in Earlier(w)
    BY <1>8 DEF Earlier
  <2>4. out[x].called[p] \in Taken(w)
    BY <2>2, <2>3 DEF Taken, Reserved, DeclaredBy
  <2>5. s \in Of(w) \ Publics(w)
    BY <1>8 DEF Publics
  <2> QED
    BY <1>8, <2>4, <2>5 DEF NamesOf
<1>9. CASE ~Decl(d).public /\ ~Decl(e).public
  <2>1. CASE u = v
    <3>1. d \in Of(u) \ Publics(u) /\ e \in Of(u) \ Publics(u)
      BY <1>3, <1>9, <2>1 DEF Publics
    <3>2. ~(d < e) /\ ~(e < d)
      BY <1>4, <1>5, <2>1, <3>1 DEF NamesOf
    <3> QED
      BY <1>3, <3>2
  <2>2. CASE u # v
    <3>1. u < v \/ v < u
      BY <1>3, <2>2
    <3> QED
      BY <1>3, <1>4, <1>5, <1>8, <1>9, <3>1
  <2> QED
    BY <2>1, <2>2
<1>10. CASE Decl(d).public # Decl(e).public
  <2>1. Decl(d).public \in BOOLEAN /\ Decl(e).public \in BOOLEAN
    BY <1>2, ProgramFacts
  <2> QED
    BY <1>3, <1>4, <1>5, <1>7, <1>10, <2>1
<1> QED
  BY <1>6, <1>9, <1>10, <1>2, ProgramFacts

-----------------------------------------------------------------------------
LEMMA WrittenFacts ==
    ASSUME LayoutInv, phase = "written"
    PROVE  /\ IsProgram(program) /\ Grouped /\ Accepted /\ Nodes = Units /\ edges = LinkGraph
           /\ ~NameTaken /\ ~EntryNeeded /\ todo = {} /\ again
           /\ modules = {File(out, Mates(u)) : u \in Units}
           /\ \A u \in Units : NamesOf(u, out[u].called)
           /\ \A u, v \in Units : component[u] = component[v] <=> Reaches(u, v) /\ Reaches(v, u)
<1>1. Translating
  BY DEF Translating
<1>2. IsProgram(program) /\ Grouped /\ Nodes = Units /\ edges = LinkGraph
  BY <1>1, LaidOut
<1>3. Accepted /\ ~NameTaken /\ ~EntryNeeded /\ AllVisited
  BY <1>1 DEF LayoutInv, SearchInv
<1>4. todo = {} /\ again
  BY <1>1 DEF LayoutInv, TodoInv
<1>5. \A u \in Units : NamesOf(u, out[u].called)
  BY <1>1, <1>4 DEF LayoutInv, NamesInv
<1>6. modules = {File(out, Mates(u)) : u \in Units}
  BY DEF LayoutInv, FileInv
<1>7. ComponentsExact
  BY InvExact DEF LayoutInv
<1>8. \A u, v \in Units : component[u] = component[v] <=> Reaches(u, v) /\ Reaches(v, u)
  BY <1>2, <1>3, <1>7 DEF ComponentsExact
<1> QED
  BY <1>2, <1>3, <1>4, <1>5, <1>6, <1>8

LEMMA ModulesAreLinked ==
    ASSUME LayoutInv, phase = "written"
    PROVE  ModulesLinked
<1>1. /\ IsProgram(program) /\ Grouped /\ ~SameStem /\ ~TakesRuntime /\ ~NameTaken /\ ~EntryNeeded
      /\ modules = {File(out, Mates(u)) : u \in Units}
  BY WrittenFacts DEF Accepted
<1>2. \A u, v \in Units : u # v =>
           (component[u] = component[v] <=> Reaches(u, v) /\ Reaches(v, u))
  BY WrittenFacts
<1>3. ASSUME NEW m \in modules, NEW n \in modules, m # n PROVE m.name # n.name
  <2>1. PICK u \in Units : m = File(out, Mates(u))
    BY <1>1
  <2>2. PICK v \in Units : n = File(out, Mates(v))
    BY <1>1
  <2>3. m.name = ModuleName(u) /\ n.name = ModuleName(v)
    BY <1>1, <2>1, <2>2, FileFacts
  <2>4. v \notin Mates(u)
    BY <1>1, <1>3, <2>1, <2>2, MatesFacts
  <2> QED
    BY <1>1, <2>3, <2>4, NamesDiffer
<1>4. ASSUME NEW m \in modules
      PROVE  /\ m.name # RuntimeName
             /\ m.requires \subseteq {n.name : n \in {k \in modules : ~k.main}} \ {m.name}
  <2>1. PICK u \in Units : m = File(out, Mates(u))
    BY <1>1
  <2>2. m.name = ModuleName(u) /\ m.requires = UNION {Requires(v) : v \in Mates(u)}
    BY <1>1, <2>1, FileFacts
  <2>3. ASSUME NEW x \in m.requires
        PROVE  x # m.name /\ \E n \in modules : ~n.main /\ x = n.name
    <3>1. PICK v \in Mates(u) : x \in Requires(v)
      BY <2>2, <2>3
    <3>2. PICK w \in Edges(v) \ Mates(v) : x = ModuleName(w)
      BY <3>1 DEF Requires
    <3>3. v \in Units /\ Mates(v) = Mates(u) /\ w \in Units
      BY <1>1, <3>1, <3>2, MatesFacts, EdgesFacts
    <3>4. ~HasMain(w)
      BY <1>1, <3>2, <3>3 DEF EntryNeeded
    <3>5. PICK n : n = File(out, Mates(w))
      OBVIOUS
    <3>6. n \in modules
      BY <1>1, <3>3, <3>5
    <3>7. n.name = ModuleName(w) /\ n.main = HasMain(w)
      BY <1>1, <3>3, <3>5, FileFacts
    <3>8. ~n.main
      BY <3>4, <3>7
    <3>9. x # m.name
      BY <1>1, <2>2, <3>2, <3>3, NamesDiffer
    <3> QED
      BY <3>2, <3>6, <3>7, <3>8, <3>9
  <2>4. m.name # RuntimeName
    BY <1>1, <2>2, NamesDiffer
  <2> QED
    BY <2>3, <2>4
<1> QED
  BY <1>2, <1>3, <1>4 DEF ModulesLinked

LEMMA NoNameTwice ==
    ASSUME LayoutInv, phase = "written", NEW m \in modules
    PROVE  IsInjective(m.called) /\ DOMAIN m.called \subseteq Decls
<1>1. IsProgram(program) /\ Grouped /\ modules = {File(out, Mates(u)) : u \in Units}
  BY WrittenFacts
<1>2. PICK u \in Units : m = File(out, Mates(u))
  BY <1>1
<1>3. DOMAIN m.called = {e \in Decls : Decl(e).unit \in Mates(u)}
  BY <1>1, <1>2, FileFacts
<1>4. \A d \in DOMAIN m.called : m.called[d] = out[Decl(d).unit].called[d]
  BY <1>1, <1>2, FileFacts
<1>5. ASSUME NEW d \in DOMAIN m.called, NEW e \in DOMAIN m.called, m.called[d] = m.called[e]
      PROVE  d = e
  <2>1. d \in Decls /\ e \in Decls /\ Decl(d).unit \in Mates(u) /\ Decl(e).unit \in Mates(u)
    BY <1>3
  <2>2. Mates(Decl(d).unit) = Mates(u)
    BY <1>1, <2>1, MatesFacts
  <2>3. Name(d) = m.called[d] /\ Name(e) = m.called[e]
    <3>1. Name(d) = out[Decl(d).unit].called[d] /\ Name(e) = out[Decl(e).unit].called[e]
      BY <2>1, HomeFacts
    <3> QED
      BY <1>4, <3>1
  <2> QED
    BY <1>5, <2>1, <2>2, <2>3, OneNameEach
<1>6. DOMAIN m.called \subseteq Decls
  BY <1>3
<1> QED
  BY <1>5, <1>6 DEF IsInjective

LEMMA PublicName ==
    ASSUME LayoutInv, phase = "written", NEW d \in Decls, Decl(d).public
    PROVE  Name(d) = <<Decl(d).name, 0>>
<1>1. PICK u : u = Decl(d).unit
  OBVIOUS
<1>2. u \in Units /\ d \in Publics(u)
  BY <1>1, WrittenFacts, ProgramFacts, OfFacts DEF Publics
<1>3. NamesOf(u, out[u].called)
  BY <1>2, WrittenFacts
<1>4. out[u].called[d] = <<Decl(d).name, 0>>
  BY <1>2, <1>3 DEF NamesOf
<1> QED
  BY <1>1, <1>4, HomeFacts

(* A name that no static of a mate has is found in the module if it is there, *)
(* and in the one required module that has it if it is not.                   *)
LEMMA UsesResolve ==
    ASSUME LayoutInv, phase = "written", NEW d \in Decls, NEW e \in Decl(d).refs
    PROVE  Resolves(d, e) \/ TakenByMate(d, e)
<1>1. PICK u, v, m : u = Decl(d).unit /\ v = Decl(e).unit /\ m = Home(d)
  OBVIOUS
<1>2. IsProgram(program) /\ Grouped /\ ~DefinedTwice /\ modules = {File(out, Mates(w)) : w \in Units}
  BY WrittenFacts DEF Accepted
<1>3. e \in Decls /\ u \in Units /\ v \in Units /\ u \in Mates(u) /\ (Decl(e).public \/ v = u)
  BY <1>1, <1>2, ProgramFacts, MatesFacts
<1>4. m \in modules /\ m = File(out, Mates(u)) /\ DOMAIN m.called = {x \in Decls : Decl(x).unit \in Mates(u)}
  BY <1>1, HomeFacts
<1> DEFINE own == {x \in DOMAIN m.called : Name(x) = Name(e)}
<1>5. Visible(m, Name(e)) = IF own # {} THEN own
                            ELSE {x \in Required(m) : Decl(x).public /\ Name(x) = Name(e)}
  BY DEF Visible
<1>6. CASE v \in Mates(u)
  <2>1. e \in own
    BY <1>1, <1>3, <1>4, <1>6
  <2>2. ASSUME NEW x \in own PROVE x = e
    <3>1. x \in Decls /\ Decl(x).unit \in Mates(u) /\ Name(x) = Name(e)
      BY <1>4
    <3>2. Mates(Decl(x).unit) = Mates(u)
      BY <1>2, <1>3, <3>1, MatesFacts
    <3>3. Decl(e).unit \in Mates(Decl(x).unit)
      BY <1>1, <1>6, <3>2
    <3> QED
      BY <1>3, <3>1, <3>3, OneNameEach
  <2>3. own = {e}
    BY <2>1, <2>2
  <2> HIDE DEF own
  <2> QED
    BY <1>1, <1>5, <2>3 DEF Resolves
<1>7. CASE v \notin Mates(u)
  <2>1. u # v /\ Decl(e).public /\ Name(e) = <<Decl(e).name, 0>>
    BY <1>3, <1>7, PublicName
  <2>2. e \in Foreign(u) /\ v \in Edges(u)
    <3>1. d \in Of(u)
      BY <1>1, <1>2, OfFacts
    <3>2. e \in UNION {Decl(x).refs : x \in Of(u)}
      BY <3>1
    <3> QED
      BY <1>1, <2>1, <3>2 DEF Foreign, Edges
  <2>3. ASSUME NEW x \in Decls, Decl(x).public, Name(x) = Name(e) PROVE x = e
    <3>1. <<Decl(x).name, 0>> = <<Decl(e).name, 0>>
      BY <2>1, <2>3, PublicName
    <3>2. Decl(x).name = Decl(e).name
      BY <3>1
    <3>3. Decl(x).unit = Decl(e).unit
      BY <1>2, <1>3, <2>1, <2>3, <3>2 DEF DefinedTwice
    <3> QED
      BY <1>2, <1>3, <2>1, <2>3, <3>2, <3>3, ProgramFacts
  <2>4. ASSUME NEW x \in own PROVE TakenByMate(d, e)
    <3>1. x \in Decls /\ x \in DOMAIN m.called /\ Decl(x).unit \in Mates(u) /\ Name(x) = Name(e)
      BY <1>4
    <3>2. Decl(x).unit # u
      <4> SUFFICES ASSUME Decl(x).unit = u PROVE FALSE
        OBVIOUS
      <4>1. x \in Of(u) /\ NamesOf(u, out[u].called) /\ Name(x) = out[u].called[x]
        BY <1>2, <1>3, <3>1, OfFacts, WrittenFacts, HomeFacts
      <4>2. CASE Decl(x).public
        BY <1>1, <2>1, <2>3, <3>1, <4>2
      <4>3. CASE ~Decl(x).public
        <5>1. x \in Of(u) \ Publics(u)
          BY <4>1, <4>3 DEF Publics
        <5>2. Name(x) \notin Taken(u)
          BY <4>1, <5>1 DEF NamesOf
        <5>3. <<Decl(e).name, 0>> \in Taken(u)
          BY <2>2 DEF Taken, AsInC
        <5> QED
          BY <2>1, <3>1, <5>2, <5>3
      <4> QED
        BY <4>2, <4>3
    <3>3. Home(e) # Home(d)
      <4>1. e \in DOMAIN Home(e).called
        BY <1>3, HomeFacts
      <4>2. e \notin DOMAIN m.called
        BY <1>1, <1>4, <1>7
      <4> QED
        BY <1>1, <4>1, <4>2
    <3> QED
      BY <1>1, <3>1, <3>2, <3>3 DEF TakenByMate
  <2>5. CASE own = {}
    <3>1. e \in Required(m)
      <4>1. PICK n : n = File(out, Mates(v))
        OBVIOUS
      <4>2. n \in modules /\ n.name = ModuleName(v) /\ DOMAIN n.called = {x \in Decls : Decl(x).unit \in Mates(v)}
        BY <1>2, <1>3, <4>1, FileFacts
      <4>3. e \in DOMAIN n.called
        <5>1. v \in Mates(v)
          BY <1>2, <1>3, MatesFacts
        <5> QED
          BY <1>1, <1>3, <4>2, <5>1
      <4>4. ModuleName(v) \in Requires(u)
        BY <1>7, <2>2 DEF Requires
      <4>5. m.requires = UNION {Requires(w) : w \in Mates(u)}
        BY <1>2, <1>3, <1>4, FileFacts
      <4>6. n.name \in m.requires
        BY <1>3, <4>2, <4>4, <4>5
      <4> QED
        BY <4>2, <4>3, <4>6 DEF Required
    <3>2. Required(m) \subseteq Decls
      BY NoNameTwice DEF Required
    <3>3. {x \in Required(m) : Decl(x).public /\ Name(x) = Name(e)} = {e}
      BY <2>1, <2>3, <3>1, <3>2
    <3> HIDE DEF own
    <3> QED
      BY <1>1, <1>5, <2>5, <3>3 DEF Resolves
  <2> HIDE DEF own
  <2> QED
    BY <2>4, <2>5
<1> QED
  BY <1>6, <1>7

LEMMA InvLinked == LayoutInv => Linked
BY ModulesAreLinked, NoNameTwice, UsesResolve DEF Linked

FunctionReads == [d \in Decls |-> IF IsObject(d) THEN {} ELSE Decl(d).refs]

(* What is referred to is reached, so what leads back is in the module. *)
LEMMA RefReached ==
    ASSUME LayoutInv, phase = "written", NEW d \in Decls, NEW e \in Decl(d).refs
    PROVE  e \in Decls /\ Reaches(Decl(d).unit, Decl(e).unit)
<1>1. PICK u, v : u = Decl(d).unit /\ v = Decl(e).unit
  OBVIOUS
<1>2. IsProgram(program) /\ Nodes = Units /\ edges = LinkGraph
  BY WrittenFacts
<1>3. e \in Decls /\ u \in Nodes /\ d \in Of(u)
  BY <1>1, <1>2, ProgramFacts, OfFacts
<1>4. CASE v = u
  BY <1>1, <1>3, <1>4, ReachesItself
<1>5. CASE v # u
  <2>1. e \in Foreign(u)
    BY <1>1, <1>3, <1>5 DEF Foreign
  <2>2. v \in Edges(u)
    BY <1>1, <2>1 DEF Edges
  <2>3. v \in edges[u]
    BY <1>2, <1>3, <2>2 DEF LinkGraph
  <2> QED
    BY <1>1, <1>3, <2>3, ReachesNext
<1> QED
  BY <1>4, <1>5

(* What functions read, of u's module, is in every set that is closed under *)
(* the functions of the module: what has left the module does not return.   *)
LEMMA Within ==
    ASSUME LayoutInv, phase = "written", NEW u \in Units, NEW R \in SUBSET Decls, NEW from \in SUBSET R,
           \A d \in from : Reaches(u, Decl(d).unit),
           \A d \in R : Decl(d).unit \in Mates(u) /\ ~IsObject(d) => Decl(d).refs \subseteq R
    PROVE  \A e \in Reach(FunctionReads, from) : Decl(e).unit \in Mates(u) => e \in R
<1>1. /\ IsProgram(program) /\ Nodes = Units /\ Grouped
      /\ \A v, w \in Units : component[v] = component[w] <=> Reaches(v, w) /\ Reaches(w, v)
  BY WrittenFacts
<1>2. IsFiniteSet(Decls) /\ \A d \in Decls : Decl(d).unit \in Units /\ Decl(d).refs \subseteq Decls
  BY <1>1, ProgramFacts
<1>3. \A v \in Units : v \in Mates(u) <=> Reaches(u, v) /\ Reaches(v, u)
  BY <1>1 DEF Mates
<1> DEFINE X == {d \in Decls : Reaches(u, Decl(d).unit) /\ (d \in R \/ ~Reaches(Decl(d).unit, u))}
<1>4. FunctionReads \in [Decls -> SUBSET Decls] /\ from \in SUBSET Decls
  BY <1>2 DEF FunctionReads
<1>5. from \subseteq X
  OBVIOUS
<1>6. ASSUME NEW d \in X PROVE FunctionReads[d] \subseteq X
  <2>1. CASE IsObject(d)
    BY <2>1 DEF FunctionReads
  <2>2. CASE ~IsObject(d)
    <3>1. FunctionReads[d] = Decl(d).refs
      BY <2>2 DEF FunctionReads
    <3>2. ASSUME NEW e \in Decl(d).refs PROVE e \in X
      <4>1. e \in Decls /\ Reaches(Decl(d).unit, Decl(e).unit)
        BY RefReached
      <4>2. Reaches(u, Decl(e).unit)
        BY <4>1, ReachesOn
      <4>3. CASE ~Reaches(Decl(d).unit, u)
        <5>1. ~Reaches(Decl(e).unit, u)
          BY <4>1, <4>3, ReachesOn
        <5> QED
          BY <4>1, <4>2, <5>1
      <4>4. CASE Reaches(Decl(d).unit, u)
        <5>1. d \in R /\ Decl(d).unit \in Mates(u)
          BY <1>2, <1>3, <4>4
        <5>2. e \in R
          BY <2>2, <5>1
        <5> QED
          BY <4>1, <4>2, <5>2
      <4> QED
        BY <4>3, <4>4
    <3> QED
      BY <3>1, <3>2
  <2> QED
    BY <2>1, <2>2
<1>7. X \in SUBSET Decls
  OBVIOUS
<1> HIDE DEF X
<1>8. PICK r : r = Reach(FunctionReads, from)
  OBVIOUS
<1>9. \A Y \in SUBSET Decls : from \subseteq Y /\ (\A d \in Y : FunctionReads[d] \subseteq Y) => r \subseteq Y
  BY <1>2, <1>4, <1>8, ReachFacts
<1>10. r \subseteq X
  BY <1>5, <1>6, <1>7, <1>9
<1>11. \A e \in X : Decl(e).unit \in Mates(u) => e \in R
  BY <1>2, <1>3 DEF X
<1> QED
  BY <1>8, <1>10, <1>11

-----------------------------------------------------------------------------
ReadsDecls == \A d \in Decls : read[d] \in SUBSET Decls

(* What a unit follows in its second translation. *)
LEMMA FollowsFacts ==
    ASSUME IsProgram(program), NEW u, ReadsDecls
    PROVE  /\ Follows(u, TRUE) \in [Decls -> SUBSET Decls]
           /\ Follows(u, FALSE) \in [Decls -> SUBSET Decls]
           /\ \A d \in Decls : Follows(u, FALSE)[d] \subseteq Follows(u, TRUE)[d]
           /\ \A d \in Decls : Decl(d).unit = u /\ ~IsObject(d) => Follows(u, TRUE)[d] = Decl(d).refs
           /\ \A d \in Decls : Decl(d).unit # u /\ Decl(d).unit \in Mates(u) => Follows(u, TRUE)[d] = read[d]
<1>1. \A d \in Decls : Decl(d).refs \in SUBSET Decls
  BY ProgramFacts
<1> QED
  BY <1>1 DEF Follows, ReadsDecls

(* What the initializer of u's object o reaches in the second pass. *)
Reached(u, o) == Reach(Follows(u, TRUE), Decl(o).refs)

LEMMA DependenciesFacts ==
    ASSUME IsProgram(program), NEW u, ReadsDecls, NEW o \in Owned(u)
    PROVE  /\ Reached(u, o) \subseteq Decls /\ Decl(o).refs \subseteq Reached(u, o)
           /\ \A d \in Reached(u, o) : Follows(u, TRUE)[d] \subseteq Reached(u, o)
           /\ Dependencies(u, TRUE)[o] = Reached(u, o) \cap Owned(u)
           /\ Dependencies(u, FALSE)[o] \subseteq Dependencies(u, TRUE)[o]
<1>0. PICK r : r = Reached(u, o)
  OBVIOUS
<1>1. IsFiniteSet(Decls) /\ o \in Decls /\ Decl(o).refs \in SUBSET Decls
  BY OfFacts, ProgramFacts
<1>2. Follows(u, TRUE) \in [Decls -> SUBSET Decls] /\ Follows(u, FALSE) \in [Decls -> SUBSET Decls]
      /\ \A d \in Decls : Follows(u, FALSE)[d] \subseteq Follows(u, TRUE)[d]
  BY FollowsFacts
<1>3. PICK f, g, from : f = Follows(u, TRUE) /\ g = Follows(u, FALSE) /\ from = Decl(o).refs
  OBVIOUS
<1>4. PICK q : q = Reach(g, from)
  OBVIOUS
<1>5. r \subseteq Decls /\ Decl(o).refs \subseteq r /\ \A d \in r : f[d] \subseteq r
  <2>1. r = Reach(f, from) /\ f \in [Decls -> SUBSET Decls] /\ from \in SUBSET Decls
    BY <1>0, <1>1, <1>2, <1>3 DEF Reached
  <2>2. from \subseteq r /\ r \subseteq Decls
    BY <1>1, <2>1, ReachFacts
  <2>3. \A d \in r : f[d] \subseteq r
    BY <1>1, <2>1, ReachFacts
  <2> QED
    BY <1>3, <2>2, <2>3
<1>6. q \subseteq r
  <2>1. \A X \in SUBSET Decls : from \subseteq X /\ (\A d \in X : g[d] \subseteq X) => q \subseteq X
    <3>1. g \in [Decls -> SUBSET Decls] /\ from \in SUBSET Decls
      BY <1>1, <1>2, <1>3
    <3> QED
      BY <1>1, <1>4, <3>1, ReachFacts
  <2>2. \A d \in r : g[d] \subseteq r
    BY <1>2, <1>3, <1>5
  <2> QED
    BY <1>3, <1>5, <2>1, <2>2
<1>7. Dependencies(u, TRUE)[o] = r \cap Owned(u) /\ Dependencies(u, FALSE)[o] = q \cap Owned(u)
  BY <1>0, <1>3, <1>4 DEF Dependencies, Reached
<1> QED
  BY <1>0, <1>3, <1>5, <1>6, <1>7

(* No set of a sequence's elements has an earlier one for each. *)
LEMMA SomeIsFirst ==
    ASSUME NEW S, NEW s \in Seq(S), \A j, k \in DOMAIN s : s[j] = s[k] => j = k,
           NEW os, \A o \in os : \E k \in DOMAIN s : s[k] = o,
           \A o \in os : \E p \in os : Before(s, p, o)
    PROVE  os = {}
<1> SUFFICES ASSUME os # {} PROVE FALSE
  OBVIOUS
<1> DEFINE places == {k \in DOMAIN s : s[k] \in os}
<1>1. DOMAIN s \in SUBSET Nat
  OBVIOUS
<1>2. places # {} /\ places \in SUBSET Nat
  BY <1>1
<1>3. PICK k \in places : \A j \in places : k <= j
  <2> HIDE DEF places
  <2> QED
    BY <1>2, LeastFacts
<1>4. k \in DOMAIN s /\ s[k] \in os
  BY <1>3
<1>5. PICK p \in os : Before(s, p, s[k])
  BY <1>4
<1>6. PICK i, j \in DOMAIN s : i < j /\ s[i] = p /\ s[j] = s[k]
  BY <1>5 DEF Before
<1>7. j = k
  BY <1>4, <1>6
<1>8. k <= i
  BY <1>3, <1>5, <1>6
<1> QED
  BY <1>1, <1>4, <1>6, <1>7, <1>8

LEMMA SecondPass ==
    ASSUME LayoutInv, phase = "written"
    PROVE  /\ ReadsDecls
           /\ \A u \in Units : \E cy \in SUBSET Owned(u) : SortedBy(u, Dependencies(u, TRUE), cy)
           /\ \A u \in Units : Clustered(u) => \A d \in Of(u) : Known(u, d)
<1>1. Translating /\ IsProgram(program) /\ again /\ todo = {}
  BY WrittenFacts DEF Translating
<1>2. ObjectsInv /\ ReadInv /\ StoredInv
  BY DEF LayoutInv
<1>3. ReadsDecls
  <2>1. \A d \in Decls : read[d] \subseteq Decl(d).refs /\ Decl(d).refs \subseteq Decls
    BY <1>1, <1>2, ProgramFacts DEF ReadInv, StoredInv
  <2> QED
    BY <2>1 DEF ReadsDecls
<1>4. \A u \in Units : \E cy \in SUBSET Owned(u) : SortedBy(u, Dependencies(u, TRUE), cy)
  BY <1>1, <1>2 DEF ObjectsInv
<1>5. \A u \in Units : Clustered(u) => \A d \in Of(u) : Known(u, d)
  BY <1>1, <1>2 DEF ReadInv
<1> QED
  BY <1>3, <1>4, <1>5

(* The dependencies of what an object depends on are its own. *)
LEMMA DependenciesClosed ==
    ASSUME LayoutInv, phase = "written", NEW u \in Units, NEW o \in Owned(u)
    PROVE  /\ Reached(u, o) \in SUBSET Decls /\ Decl(o).refs \subseteq Reached(u, o)
           /\ \A d \in Reached(u, o) :
                  Decl(d).unit \in Mates(u) /\ ~IsObject(d) => Decl(d).refs \subseteq Reached(u, o)
           /\ \A d \in Reached(u, o) :
                  Decl(d).unit \in Mates(u) /\ Decl(d).unit # u => read[d] \subseteq Reached(u, o)
           /\ Dependencies(u, TRUE)[o] = Reached(u, o) \cap Owned(u)
           /\ Dependencies(u, FALSE)[o] \subseteq Dependencies(u, TRUE)[o]
<1>0. PICK r : r = Reached(u, o)
  OBVIOUS
<1>1. IsProgram(program) /\ Grouped /\ ReadsDecls
  BY WrittenFacts, SecondPass
<1>2. /\ r \subseteq Decls /\ Decl(o).refs \subseteq r
      /\ Dependencies(u, TRUE)[o] = r \cap Owned(u)
      /\ Dependencies(u, FALSE)[o] \subseteq Dependencies(u, TRUE)[o]
  BY <1>0, <1>1, DependenciesFacts
<1>3. \A d \in r : Follows(u, TRUE)[d] \subseteq r
  BY <1>0, <1>1, DependenciesFacts
<1>4. ASSUME NEW d \in r, Decl(d).unit \in Mates(u), Decl(d).unit # u PROVE read[d] \subseteq r
  <2>1. Follows(u, TRUE)[d] = read[d]
    BY <1>1, <1>2, <1>4, FollowsFacts
  <2> QED
    BY <1>3, <2>1
<1>5. ASSUME NEW d \in r, Decl(d).unit \in Mates(u), ~IsObject(d) PROVE Decl(d).refs \subseteq r
  <2>1. CASE Decl(d).unit = u
    <3>1. Follows(u, TRUE)[d] = Decl(d).refs
      BY <1>1, <1>2, <1>5, <2>1, FollowsFacts
    <3> QED
      BY <1>3, <3>1
  <2>2. CASE Decl(d).unit # u
    <3>1. PICK v : v = Decl(d).unit
      OBVIOUS
    <3>2. v \in Units /\ d \in Of(v) /\ Clustered(v)
      <4>1. v \in Units /\ Mates(v) = Mates(u) /\ d \in Of(v)
        BY <1>1, <1>2, <1>5, <3>1, MatesFacts, OfFacts
      <4>2. u \in Mates(v)
        BY <1>1, <4>1, MatesFacts
      <4> QED
        BY <2>2, <3>1, <4>1, <4>2 DEF Clustered
    <3>3. read[d] = Decl(d).refs
      BY <1>5, <3>2, SecondPass DEF Known
    <3> QED
      BY <1>4, <1>5, <2>2, <3>3
  <2> QED
    BY <2>1, <2>2
<1> QED
  BY <1>0, <1>2, <1>4, <1>5

(* What is initialized in place depends on nothing that is not, or later. *)
LEMMA InlineFirst ==
    ASSUME LayoutInv, phase = "written", NEW u \in Units, NEW o \in Owned(u), out[u].init[o] = "inline",
           NEW e \in Dependencies(u, TRUE)[o]
    PROVE  Before(out[u].objects, e, o) /\ out[u].init[e] # "none"
<1>1. PICK f : f = Dependencies(u, TRUE)
  OBVIOUS
<1>2. PICK cy \in SUBSET Owned(u) : SortedBy(u, f, cy)
  BY <1>1, SecondPass
<1>3. \A p \in Owned(u) \ cy : \A d \in f[p] : d \notin cy /\ Before(out[u].objects, d, p)
  BY <1>2 DEF SortedBy, Sequenced
<1>4. \A p \in Owned(u) :
          /\ out[u].init[p] = "inline" <=> Initialized(p) /\ p \notin cy /\ Storage(p) # "in place"
          /\ out[u].init[p] = "inline" => \A d \in f[p] : out[u].init[d] # "none"
  BY <1>2 DEF SortedBy, Sequenced
<1> QED
  BY <1>1, <1>3, <1>4

(* No objects of a unit that are initialized in place reach each other. *)
LEMMA NoInlineCircle ==
    ASSUME LayoutInv, phase = "written", NEW u \in Units, NEW os \in SUBSET Owned(u),
           \A o \in os : out[u].init[o] = "inline" /\ Dependencies(u, TRUE)[o] \cap os # {}
    PROVE  os = {}
<1>1. PICK s : s = out[u].objects
  OBVIOUS
<1>2. PICK cy \in SUBSET Owned(u) : SortedBy(u, Dependencies(u, TRUE), cy)
  BY SecondPass
<1>3. /\ s \in Seq(Owned(u)) /\ \A j, k \in DOMAIN s : s[j] = s[k] => j = k
      /\ \A o \in Owned(u) : \E k \in DOMAIN s : s[k] = o
  BY <1>1, <1>2 DEF SortedBy, Sequenced
<1>4. \A o \in os : \E p \in os : Before(s, p, o)
  <2> TAKE o \in os
  <2>1. PICK p \in Dependencies(u, TRUE)[o] : p \in os
    OBVIOUS
  <2>2. Before(out[u].objects, p, o)
    BY <2>1, InlineFirst
  <2> QED
    BY <1>1, <2>1, <2>2
<1>5. \A o \in os : \E k \in DOMAIN s : s[k] = o
  BY <1>3
<1> QED
  BY <1>3, <1>4, <1>5, SomeIsFirst

(* What is initialized in place is known to the second pass. *)
LEMMA InlineReads ==
    ASSUME LayoutInv, phase = "written", NEW u \in Units, Clustered(u), NEW o \in Owned(u),
           out[u].init[o] = "inline"
    PROVE  read[o] = Decl(o).refs
<1>1. IsProgram(program) /\ o \in Of(u)
  BY WrittenFacts, OfFacts
<1>2. PICK cy \in SUBSET Owned(u) : SortedBy(u, Dependencies(u, TRUE), cy)
  BY SecondPass
<1>3. o \notin cy /\ Storage(o) # "in place"
  BY <1>2 DEF SortedBy, Sequenced
<1>4. \A p \in Owned(u) \ cy : \A d \in Dependencies(u, TRUE)[p] : d \notin cy /\ Before(out[u].objects, d, p)
  BY <1>2 DEF SortedBy, Sequenced
<1>5. ~InCircle(Dependencies(u, FALSE), o)
  <2> SUFFICES ASSUME InCircle(Dependencies(u, FALSE), o) PROVE FALSE
    OBVIOUS
  <2>1. DOMAIN Dependencies(u, FALSE) = Owned(u)
    BY DEF Dependencies
  <2>2. PICK os \in SUBSET Owned(u) : o \in os /\ \A p \in os : Dependencies(u, FALSE)[p] \cap os # {}
    BY <2>1 DEF InCircle
  <2>3. \A p \in os \ cy : \E d \in os \ cy : Before(out[u].objects, d, p)
    <3> TAKE p \in os \ cy
    <3>1. PICK d \in Dependencies(u, FALSE)[p] : d \in os
      BY <2>2
    <3>2. p \in Owned(u)
      OBVIOUS
    <3>3. d \in Dependencies(u, TRUE)[p]
      BY <3>1, <3>2, DependenciesClosed
    <3> QED
      BY <1>4, <3>1, <3>3
  <2>4. PICK s : s = out[u].objects
    OBVIOUS
  <2>5. /\ s \in Seq(Owned(u)) /\ \A j, k \in DOMAIN s : s[j] = s[k] => j = k
        /\ \A p \in Owned(u) : \E k \in DOMAIN s : s[k] = p
    BY <1>2, <2>4 DEF SortedBy, Sequenced
  <2>6. PICK A : A = os \ cy
    OBVIOUS
  <2>7. \A p \in A : \E k \in DOMAIN s : s[k] = p
    BY <2>5, <2>6
  <2>8. \A p \in A : \E d \in A : Before(s, d, p)
    BY <2>3, <2>4, <2>6
  <2>9. A = {}
    BY <2>5, <2>7, <2>8, SomeIsFirst
  <2> QED
    BY <1>3, <2>2, <2>6, <2>9
<1> QED
  BY <1>1, <1>3, <1>5, SecondPass DEF Known

-----------------------------------------------------------------------------
(* The objects of a module. *)
LEMMA ModuleObjects ==
    ASSUME LayoutInv, phase = "written", NEW m \in modules, NEW o \in DOMAIN m.init
    PROVE  /\ o \in Decls /\ IsObject(o) /\ Decl(o).unit \in Units /\ o \in Owned(Decl(o).unit)
           /\ m = Home(o) /\ m = File(out, Mates(Decl(o).unit))
           /\ m.init[o] = out[Decl(o).unit].init[o]
           /\ DOMAIN m.init = {e \in Decls : Decl(e).unit \in Mates(Decl(o).unit) /\ IsObject(e)}
<1>1. IsProgram(program) /\ Grouped /\ modules = {File(out, Mates(w)) : w \in Units}
  BY WrittenFacts
<1>2. PICK w \in Units : m = File(out, Mates(w))
  BY <1>1
<1>3. DOMAIN m.init = {e \in Decls : Decl(e).unit \in Mates(w) /\ IsObject(e)}
  BY <1>1, <1>2, FileFacts
<1>4. PICK u : u = Decl(o).unit
  OBVIOUS
<1>5. o \in Decls /\ IsObject(o) /\ u \in Mates(w) /\ u \in Units
  BY <1>1, <1>3, <1>4, ProgramFacts
<1>6. Mates(u) = Mates(w)
  BY <1>1, <1>5, MatesFacts
<1>7. Home(o) = File(out, Mates(u))
  BY <1>4, <1>5, HomeFacts
<1>8. m.init[o] = out[u].init[o]
  BY <1>1, <1>2, <1>4, FileFacts
<1>9. o \in Owned(u)
  BY <1>1, <1>4, <1>5, OfFacts DEF Owned
<1> QED
  BY <1>2, <1>3, <1>4, <1>5, <1>6, <1>7, <1>8, <1>9

(* What the initializer of o reads is in every set that holds what o names  *)
(* and is closed under the functions of o's module, u's.                    *)
LEMMA ReadWithin ==
    ASSUME LayoutInv, phase = "written", NEW m \in modules, NEW o \in DOMAIN m.init,
           NEW u \in Mates(Decl(o).unit), NEW R \in SUBSET Decls, Decl(o).refs \subseteq R,
           \A d \in R : Decl(d).unit \in Mates(u) /\ ~IsObject(d) => Decl(d).refs \subseteq R
    PROVE  \A e \in ReadAtInit(o) : e \in R /\ e \in DOMAIN m.init
<1>1. /\ IsProgram(program) /\ Grouped /\ Nodes = Units
      /\ \A v, w \in Units : component[v] = component[w] <=> Reaches(v, w) /\ Reaches(w, v)
  BY WrittenFacts
<1>2. PICK v : v = Decl(o).unit
  OBVIOUS
<1>3. /\ o \in Decls /\ v \in Units /\ m = Home(o)
      /\ DOMAIN m.init = {e \in Decls : Decl(e).unit \in Mates(v) /\ IsObject(e)}
  BY <1>2, ModuleObjects
<1>4. u \in Units /\ Mates(u) = Mates(v)
  BY <1>1, <1>2, <1>3, MatesFacts
<1>5. Reaches(u, v)
  <2>1. component[u] = component[v]
    BY <1>2 DEF Mates
  <2> QED
    BY <1>1, <1>3, <1>4, <2>1
<1>6. PICK from : from = Decl(o).refs
  OBVIOUS
<1>7. from \in SUBSET R
  BY <1>6
<1>8. \A d \in from : Reaches(u, Decl(d).unit)
  BY <1>2, <1>3, <1>5, <1>6, RefReached, ReachesOn
<1>9. \A e \in Reach(FunctionReads, from) : Decl(e).unit \in Mates(u) => e \in R
  BY <1>4, <1>7, <1>8, Within
<1>10. ReadAtInit(o) = Reach(FunctionReads, from) \cap DOMAIN m.init
  BY <1>3, <1>6 DEF ReadAtInit, FunctionReads
<1> QED
  BY <1>3, <1>4, <1>9, <1>10

LEMMA IncludesFacts ==
    ASSUME LayoutInv, phase = "written", NEW m \in modules, NEW o \in DOMAIN m.init
    PROVE  /\ DOMAIN m.includes = 1 .. Cardinality(Mates(Decl(o).unit))
           /\ \A k \in DOMAIN m.includes : m.includes[k] = out[Included(Mates(Decl(o).unit))[k]].objects
<1>1. PICK u : u = Decl(o).unit
  OBVIOUS
<1>2. IsProgram(program) /\ Grouped /\ u \in Units /\ m = File(out, Mates(u))
  BY <1>1, WrittenFacts, ModuleObjects
<1>3. DOMAIN m.includes = 1 .. Cardinality(Mates(u))
  BY <1>2, FileFacts
<1>4. \A k \in DOMAIN m.includes : m.includes[k] = out[Included(Mates(u))[k]].objects
  BY <1>2, FileFacts
<1> QED
  BY <1>1, <1>3, <1>4

(* An object of the same fragment that is read has an initializer, and is before. *)
LEMMA SameFragment ==
    ASSUME LayoutInv, phase = "written", NEW m \in modules, NEW o \in DOMAIN m.init, m.init[o] = "inline",
           NEW e \in ReadAtInit(o), Decl(e).unit = Decl(o).unit
    PROVE  m.init[e] # "none" /\ ComesBefore(m, e, o)
<1>1. PICK u : u = Decl(o).unit
  OBVIOUS
<1>2. IsProgram(program) /\ Grouped
  BY WrittenFacts
<1>3. /\ u \in Units /\ u \in Mates(u) /\ o \in Owned(u) /\ m = File(out, Mates(u)) /\ m.init[o] = out[u].init[o]
  BY <1>1, <1>2, ModuleObjects, MatesFacts
<1>4. e \in Reached(u, o) /\ e \in DOMAIN m.init
  <2>1. /\ Reached(u, o) \in SUBSET Decls /\ Decl(o).refs \subseteq Reached(u, o)
        /\ \A d \in Reached(u, o) :
               Decl(d).unit \in Mates(u) /\ ~IsObject(d) => Decl(d).refs \subseteq Reached(u, o)
    BY <1>3, DependenciesClosed
  <2> QED
    BY <1>1, <1>3, <2>1, ReadWithin
<1>5. e \in Owned(u) /\ m.init[e] = out[u].init[e]
  BY <1>1, <1>4, ModuleObjects
<1>6. e \in Dependencies(u, TRUE)[o]
  BY <1>3, <1>4, <1>5, DependenciesClosed
<1>7. Before(out[u].objects, e, o) /\ out[u].init[e] # "none"
  BY <1>3, <1>6, InlineFirst
<1>8. PICK k, l \in DOMAIN out[u].objects : k < l /\ out[u].objects[k] = e /\ out[u].objects[l] = o
  BY <1>7 DEF Before
<1>9. PICK i \in DOMAIN m.includes : m.includes[i] = out[u].objects
  <2>1. PICK inc : inc = Included(Mates(u))
    OBVIOUS
  <2>2. Mates(u) \in SUBSET Nat /\ IsFiniteSet(Mates(u))
    BY <1>2, <1>3, MatesFacts
  <2>3. \E i \in 1 .. Cardinality(Mates(u)) : inc[i] = u
    BY <1>3, <2>1, <2>2, IncludedFacts
  <2>4. PICK i \in 1 .. Cardinality(Mates(u)) : inc[i] = u
    BY <2>3
  <2>5. i \in DOMAIN m.includes
    BY <1>1, <1>3, <2>4, IncludesFacts
  <2>6. m.includes[i] = out[Included(Mates(u))[i]].objects
    BY <1>1, <1>3, <2>5, IncludesFacts
  <2> QED
    BY <2>1, <2>4, <2>5, <2>6
<1>10. ComesBefore(m, e, o)
  BY <1>8, <1>9 DEF ComesBefore
<1> QED
  BY <1>5, <1>7, <1>10

UnitsWithin(R) == {Decl(d).unit : d \in {x \in R : IsObject(x)}}

(* The fragments of the objects an initializer reads are among those to come first. *)
LEMMA AfterFacts ==
    ASSUME IsProgram(program), ReadsDecls, NEW u \in Units
    PROVE  /\ After(u) \subseteq Mates(u)
           /\ \E R \in SUBSET Decls :
                  /\ After(u) = (UnitsWithin(R) \cap Mates(u)) \ {u}
                  /\ \A d \in Of(u) : IsObject(d) => read[d] \subseteq R
                  /\ \A d \in R : Decl(d).unit \in Mates(u) /\ ~IsObject(d) => read[d] \subseteq R
<1> DEFINE own     == UNION {read[d] : d \in {x \in Of(u) : IsObject(x)}}
           follows == [d \in Decls |-> IF IsObject(d) \/ Decl(d).unit \notin Mates(u) THEN {} ELSE read[d]]
<1>1. PICK R : R = Reach(follows, own)
  OBVIOUS
<1>2. After(u) = (UnitsWithin(R) \cap Mates(u)) \ {u}
  BY <1>1 DEF After, UnitsWithin
<1>3. follows \in [Decls -> SUBSET Decls] /\ own \in SUBSET Decls /\ IsFiniteSet(Decls)
  BY OfFacts, ProgramFacts DEF ReadsDecls
<1>4. PICK f, from : f = follows /\ from = own
  OBVIOUS
<1>5. R = Reach(f, from) /\ f \in [Decls -> SUBSET Decls] /\ from \in SUBSET Decls
  BY <1>1, <1>3, <1>4
<1>6. from \subseteq R /\ R \subseteq Decls
  BY <1>3, <1>5, ReachFacts
<1>7. \A d \in R : f[d] \subseteq R
  BY <1>3, <1>5, ReachFacts
<1>8. \A d \in R : Decl(d).unit \in Mates(u) /\ ~IsObject(d) => read[d] \subseteq R
  BY <1>4, <1>6, <1>7
<1>9. \A d \in Of(u) : IsObject(d) => read[d] \subseteq R
  BY <1>4, <1>6
<1> QED
  BY <1>2, <1>6, <1>8, <1>9

(* So has one of another fragment, unless it is an array or they have no order. *)
LEMMA OtherFragment ==
    ASSUME LayoutInv, phase = "written", NEW m \in modules, NEW o \in DOMAIN m.init, m.init[o] = "inline",
           NEW e \in ReadAtInit(o), Decl(e).unit # Decl(o).unit
    PROVE  /\ m.init[e] # "none" \/ BareArray(o, e)
           /\ ComesBefore(m, e, o) \/ Unordered(o, e)
<1>1. PICK u, v, us : u = Decl(o).unit /\ v = Decl(e).unit /\ us = Mates(u)
  OBVIOUS
<1>2. IsProgram(program) /\ Grouped /\ ReadsDecls
  BY WrittenFacts, SecondPass
<1>3. /\ u \in Units /\ u \in us /\ o \in Of(u) /\ o \in Owned(u) /\ m = File(out, Mates(u))
      /\ m = Home(o) /\ m.init[o] = out[u].init[o] /\ IsObject(o)
      /\ DOMAIN m.init = {x \in Decls : Decl(x).unit \in us /\ IsObject(x)}
  BY <1>1, <1>2, ModuleObjects, MatesFacts, OfFacts
<1>4. e \in DOMAIN m.init /\ e \in Decls /\ IsObject(e) /\ v \in us /\ v # u
  BY <1>1, <1>3 DEF ReadAtInit
<1>5. v \in Units /\ Mates(v) = us /\ Clustered(u) /\ Clustered(v)
  BY <1>1, <1>2, <1>3, <1>4, MatesFacts DEF Clustered
<1>6. e \in Owned(v) /\ m.init[e] = out[v].init[e] /\ m = Home(e)
  BY <1>1, <1>4, ModuleObjects
<1>7. m.init[e] # "none" \/ BareArray(o, e)
  <2>1. PICK cy \in SUBSET Owned(v) : SortedBy(v, Dependencies(v, TRUE), cy)
    BY <1>5, SecondPass
  <2>2. out[v].init[e] = "none" => Decl(e).form = "array"
    BY <1>5, <1>6, <2>1 DEF SortedBy, Sequenced
  <2> QED
    BY <1>1, <1>4, <1>6, <2>2 DEF BareArray
<1>8. v \in After(u)
  <2>1. PICK R \in SUBSET Decls :
            /\ After(u) = (UnitsWithin(R) \cap Mates(u)) \ {u}
            /\ \A d \in Of(u) : IsObject(d) => read[d] \subseteq R
            /\ \A d \in R : Decl(d).unit \in Mates(u) /\ ~IsObject(d) => read[d] \subseteq R
    BY <1>2, <1>3, AfterFacts
  <2>2. read[o] = Decl(o).refs
    BY <1>3, <1>5, InlineReads
  <2>3. Decl(o).refs \subseteq R
    BY <1>3, <2>1, <2>2
  <2>4. \A d \in R : Decl(d).unit \in Mates(u) /\ ~IsObject(d) => Decl(d).refs \subseteq R
    <3> TAKE d \in R
    <3> HAVE Decl(d).unit \in Mates(u) /\ ~IsObject(d)
    <3>1. PICK w : w = Decl(d).unit
      OBVIOUS
    <3>2. w \in Units /\ d \in Of(w) /\ Clustered(w)
      BY <1>2, <1>3, <1>5, <3>1, MatesFacts, OfFacts
    <3>3. read[d] = Decl(d).refs
      BY <1>2, <3>2, SecondPass DEF Known
    <3> QED
      BY <2>1, <3>3
  <2>5. e \in R
    BY <1>1, <1>3, <2>3, <2>4, ReadWithin
  <2>6. v \in UnitsWithin(R)
    BY <1>1, <1>4, <2>5 DEF UnitsWithin
  <2> QED
    BY <1>1, <1>4, <2>1, <2>6
<1>9. ASSUME ~Circle(us) PROVE ComesBefore(m, e, o)
  <2>1. PICK inc, n : inc = Included(us) /\ n = Cardinality(us)
    OBVIOUS
  <2>2. us \in SUBSET Nat /\ IsFiniteSet(us)
    BY <1>1, <1>2, <1>3, MatesFacts
  <2>3. \A w \in us : After(w) \subseteq us
    <3> TAKE w \in us
    <3>1. w \in Units /\ Mates(w) = us
      BY <1>1, <1>2, <1>3, MatesFacts
    <3> QED
      BY <1>2, <3>1, AfterFacts
  <2>4. \A w \in us : \E k \in 1 .. n : inc[k] = w
    BY <2>1, <2>2, IncludedFacts
  <2>5. PICK j \in 1 .. n : inc[j] = u
    BY <1>3, <2>4
  <2>6. \A k \in 1 .. n : \A w \in After(inc[k]) : \E i \in 1 .. n : i < k /\ inc[i] = w
    <3>1. AfterWithin(us)
      BY <2>3 DEF AfterWithin
    <3>2. InOrder(us, inc)
      BY <1>9, <2>1, <2>2, <3>1, IncludedFacts
    <3> QED
      BY <2>1, <3>2 DEF InOrder
  <2>7. PICK i \in 1 .. n : i < j /\ inc[i] = v
    BY <1>8, <2>5, <2>6
  <2>8. i \in DOMAIN m.includes /\ j \in DOMAIN m.includes
    <3>1. DOMAIN m.includes = 1 .. Cardinality(Mates(u))
      BY <1>1, IncludesFacts
    <3> QED
      BY <1>1, <2>1, <3>1
  <2>9. m.includes[i] = out[v].objects /\ m.includes[j] = out[u].objects
    <3>1. \A k \in DOMAIN m.includes : m.includes[k] = out[Included(Mates(u))[k]].objects
      BY <1>1, IncludesFacts
    <3> QED
      BY <1>1, <2>1, <2>5, <2>7, <2>8, <3>1
  <2>10. /\ \E k \in DOMAIN out[v].objects : out[v].objects[k] = e
         /\ \E k \in DOMAIN out[u].objects : out[u].objects[k] = o
    <3>1. ASSUME NEW w \in Units, NEW x \in Owned(w)
          PROVE  \E k \in DOMAIN out[w].objects : out[w].objects[k] = x
      <4>1. PICK cy \in SUBSET Owned(w) : SortedBy(w, Dependencies(w, TRUE), cy)
        BY SecondPass
      <4> QED
        BY <4>1 DEF SortedBy, Sequenced
    <3> QED
      BY <1>3, <1>5, <1>6, <3>1
  <2> QED
    BY <2>7, <2>8, <2>9, <2>10 DEF ComesBefore
<1> QED
  BY <1>1, <1>4, <1>7, <1>9 DEF Unordered

-----------------------------------------------------------------------------
(* A set of objects each of which reads another of the set when it is       *)
(* initialized.                                                             *)
ReadCircle(os) == os # {} /\ \A o \in os : ReadAtInit(o) \cap os # {}

(* A circle has one that holds no smaller circle. *)
LEMMA SmallestCircle ==
    ASSUME NEW S, IsFiniteSet(S), \E os \in SUBSET S : ReadCircle(os)
    PROVE  \E os \in SUBSET S : ReadCircle(os) /\ \A ps \in SUBSET os : ReadCircle(ps) => ps = os
<1> DEFINE sizes == {Cardinality(os) : os \in {ps \in SUBSET S : ReadCircle(ps)}}
<1>1. \A os \in SUBSET S : IsFiniteSet(os) /\ Cardinality(os) \in Nat
  BY FS_Subset, FS_CardinalityType
<1>2. sizes \in SUBSET Nat /\ sizes # {}
  BY <1>1
<1>3. PICK n \in sizes : \A k \in sizes : n <= k
  <2> HIDE DEF sizes
  <2> QED
    BY <1>2, LeastFacts
<1>4. PICK os \in SUBSET S : ReadCircle(os) /\ n = Cardinality(os)
  BY <1>3
<1>5. ASSUME NEW ps \in SUBSET os, ReadCircle(ps), ps # os PROVE FALSE
  <2>1. Cardinality(ps) < Cardinality(os)
    <3>1. IsFiniteSet(os) /\ Cardinality(os) \in Nat /\ Cardinality(ps) \in Nat
      BY <1>1
    <3>2. Cardinality(ps) <= Cardinality(os) /\ Cardinality(ps) # Cardinality(os)
      BY <1>5, <3>1, FS_Subset
    <3> QED
      BY <3>1, <3>2
  <2>2. n <= Cardinality(ps)
    BY <1>3, <1>5
  <2> QED
    BY <1>1, <1>4, <2>1, <2>2
<1> QED
  BY <1>4, <1>5

(* The objects of one fragment in a smallest circle depend on each other, as  *)
(* the second pass knows, which follows the initializers of other fragments.  *)
LEMMA NoReadCircle ==
    ASSUME LayoutInv, phase = "written", NEW m \in modules, NEW os \in SUBSET Inline(m)
    PROVE  ~ReadCircle(os)
<1> SUFFICES ASSUME \E ps \in SUBSET Inline(m) : ReadCircle(ps) PROVE FALSE
  OBVIOUS
<1>1. IsProgram(program) /\ Grouped /\ \A o \in Inline(m) : o \in DOMAIN m.init /\ m.init[o] = "inline"
  BY WrittenFacts DEF Inline
<1>2. IsFiniteSet(Inline(m))
  <2>1. Inline(m) \in SUBSET Decls
    BY <1>1, ModuleObjects
  <2> QED
    BY <1>1, <2>1, ProgramFacts, FS_Subset
<1>3. PICK ps \in SUBSET Inline(m) : ReadCircle(ps) /\ \A qs \in SUBSET ps : ReadCircle(qs) => qs = ps
  BY <1>2, SmallestCircle
<1>4. PICK o \in ps : TRUE
  BY <1>3 DEF ReadCircle
<1>5. PICK u : u = Decl(o).unit
  OBVIOUS
<1>6. /\ u \in Units /\ u \in Mates(u) /\ o \in Owned(u)
      /\ DOMAIN m.init = {x \in Decls : Decl(x).unit \in Mates(u) /\ IsObject(x)}
  BY <1>1, <1>3, <1>4, <1>5, ModuleObjects, MatesFacts
<1>7. ASSUME NEW p \in ps \cap Owned(u)
      PROVE  out[u].init[p] = "inline" /\ Dependencies(u, TRUE)[p] \cap (ps \cap Owned(u)) # {}
  <2>1. Decl(p).unit = u
    BY <1>1, <1>7, OfFacts
  <2>2. p \in DOMAIN m.init /\ out[u].init[p] = "inline"
    BY <1>1, <1>3, <1>7, <2>1, ModuleObjects
  <2>3. PICK r : r = Reached(u, p)
    OBVIOUS
  <2>4. /\ r \in SUBSET Decls /\ Decl(p).refs \subseteq r /\ Dependencies(u, TRUE)[p] = r \cap Owned(u)
        /\ \A d \in r : Decl(d).unit \in Mates(u) /\ ~IsObject(d) => Decl(d).refs \subseteq r
        /\ \A d \in r : Decl(d).unit \in Mates(u) /\ Decl(d).unit # u => read[d] \subseteq r
    BY <1>6, <2>3, DependenciesClosed
  <2>5. r \cap ps # {}
    <3>1. PICK e \in ReadAtInit(p) : e \in ps
      BY <1>3, <1>7 DEF ReadCircle
    <3>2. e \in r
      BY <1>6, <2>1, <2>2, <2>4, ReadWithin
    <3> QED
      BY <3>1, <3>2
  <2>6. r \cap ps \cap Owned(u) # {}
    <3> SUFFICES ASSUME r \cap ps \cap Owned(u) = {} PROVE FALSE
      OBVIOUS
    <3>1. ASSUME NEW q \in r \cap ps PROVE ReadAtInit(q) \cap (r \cap ps) # {}
      <4>1. PICK v : v = Decl(q).unit
        OBVIOUS
      <4>2. q \in DOMAIN m.init /\ m.init[q] = "inline"
        BY <1>1, <1>3
      <4>3. /\ q \in Decls /\ IsObject(q) /\ v \in Units /\ q \in Owned(v) /\ v \in Mates(u)
            /\ out[v].init[q] = "inline"
        BY <1>6, <4>1, <4>2, ModuleObjects
      <4>4. v # u
        BY <3>1, <4>3
      <4>5. Mates(v) = Mates(u) /\ Clustered(v)
        BY <1>1, <1>6, <4>3, <4>4, MatesFacts DEF Clustered
      <4>6. read[q] = Decl(q).refs
        BY <4>3, <4>5, InlineReads
      <4>7. Decl(q).refs \subseteq r
        BY <2>4, <4>1, <4>3, <4>4, <4>6
      <4>8. u \in Mates(Decl(q).unit)
        BY <1>6, <4>1, <4>5
      <4>9. \A e \in ReadAtInit(q) : e \in r
        BY <2>4, <4>2, <4>7, <4>8, ReadWithin
      <4>10. PICK e \in ReadAtInit(q) : e \in ps
        BY <1>3, <3>1 DEF ReadCircle
      <4> QED
        BY <4>9, <4>10
    <3>2. ReadCircle(r \cap ps)
      BY <2>5, <3>1 DEF ReadCircle
    <3>3. r \cap ps = ps
      BY <1>3, <3>2
    <3> QED
      BY <1>7, <3>3
  <2> QED
    BY <2>2, <2>4, <2>6
<1>8. ps \cap Owned(u) = {}
  <2>1. PICK qs : qs = ps \cap Owned(u)
    OBVIOUS
  <2>2. qs \in SUBSET Owned(u) /\ \A p \in qs : out[u].init[p] = "inline" /\ Dependencies(u, TRUE)[p] \cap qs # {}
    BY <1>7, <2>1
  <2>3. qs = {}
    BY <1>6, <2>2, NoInlineCircle
  <2> QED
    BY <2>1, <2>3
<1> QED
  BY <1>4, <1>6, <1>8

LEMMA InvLoads == LayoutInv => Loads
<1> SUFFICES ASSUME LayoutInv, phase = "written", NEW m \in modules
             PROVE  /\ \A o \in Inline(m) : \A e \in ReadAtInit(o) :
                           /\ m.init[e] # "none" \/ BareArray(o, e)
                           /\ ComesBefore(m, e, o) \/ Unordered(o, e)
                    /\ \A os \in SUBSET Inline(m) : os # {} => \E o \in os : ReadAtInit(o) \cap os = {}
  BY DEF Loads
<1>1. ASSUME NEW o \in Inline(m), NEW e \in ReadAtInit(o)
      PROVE  /\ m.init[e] # "none" \/ BareArray(o, e)
             /\ ComesBefore(m, e, o) \/ Unordered(o, e)
  <2>1. o \in DOMAIN m.init /\ m.init[o] = "inline"
    BY DEF Inline
  <2> QED
    BY <2>1, SameFragment, OtherFragment
<1>2. \A os \in SUBSET Inline(m) : os # {} => \E o \in os : ReadAtInit(o) \cap os = {}
  BY NoReadCircle DEF ReadCircle
<1> QED
  BY <1>1, <1>2

LEMMA InvTypeOK == LayoutInv => TypeOK
<1> SUFFICES ASSUME LayoutInv PROVE TypeOK
  OBVIOUS
<1>1. IsProgram(program)
  BY LaidOut
<1>2. ComponentsTypeOK /\ OrderTypeOK
  BY DEF LayoutInv, ComponentsInv, OrderInv
<1>3. StoredInv
  BY DEF LayoutInv
<1>4. again \in BOOLEAN /\ phase \in {"link", "components", "refused", "translate", "sort", "written"}
  BY DEF LayoutInv
<1> QED
  BY <1>1, <1>2, <1>3, <1>4 DEF TypeOK, StoredInv

-----------------------------------------------------------------------------
(* What a step leaves alone. *)
LEMMA SameProgram ==
    ASSUME program' = program
    PROVE  /\ Units' = Units /\ Decls' = Decls
           /\ \A u : Stem(u)' = Stem(u) /\ Of(u)' = Of(u) /\ Owned(u)' = Owned(u)
           /\ \A u : Publics(u)' = Publics(u) /\ Foreign(u)' = Foreign(u) /\ Edges(u)' = Edges(u)
           /\ \A d : Decl(d)' = Decl(d) /\ (IsObject(d)' <=> IsObject(d))
           /\ \A d : (Initialized(d)' <=> Initialized(d)) /\ Storage(d)' = Storage(d)
           /\ \A ds : AsInC(ds)' = AsInC(ds)
           /\ LinkGraph' = LinkGraph /\ (Accepted' <=> Accepted)
<1>1. Units' = Units /\ Decls' = Decls /\ \A d : Decl(d)' = Decl(d)
  BY DEF Units, Decls, Decl
<1>2. \A d : IsObject(d)' <=> IsObject(d)
  BY <1>1 DEF IsObject
<1>3. \A u : Stem(u)' = Stem(u) /\ Of(u)' = Of(u)
  BY <1>1 DEF Stem, Of
<1>4. \A u : Owned(u)' = Owned(u) /\ Publics(u)' = Publics(u) /\ Foreign(u)' = Foreign(u)
  BY <1>1, <1>2, <1>3 DEF Owned, Publics, Foreign
<1>5. \A u : Edges(u)' = Edges(u)
  BY <1>1, <1>4 DEF Edges
<1>6. \A d : (Initialized(d)' <=> Initialized(d)) /\ Storage(d)' = Storage(d)
  BY <1>1 DEF Initialized, Storage, OwnsStorage
<1>7. \A ds : AsInC(ds)' = AsInC(ds)
  BY <1>1 DEF AsInC
<1>8. LinkGraph' = LinkGraph
  BY <1>1, <1>5 DEF LinkGraph
<1>9. Accepted' <=> Accepted
  BY <1>1, <1>3 DEF Accepted, SameStem, TakesRuntime, DefinedTwice
<1> QED
  BY <1>1, <1>2, <1>3, <1>4, <1>5, <1>6, <1>7, <1>8, <1>9

LEMMA SameModules ==
    ASSUME program' = program, component' = component
    PROVE  /\ \A u : Mates(u)' = Mates(u) /\ (Clustered(u)' <=> Clustered(u)) /\ (HasMain(u)' <=> HasMain(u))
           /\ \A u : ModuleName(u)' = ModuleName(u) /\ Requires(u)' = Requires(u) /\ Earlier(u)' = Earlier(u)
           /\ (NameTaken' <=> NameTaken) /\ (EntryNeeded' <=> EntryNeeded)
           /\ \A u : Dependencies(u, FALSE)' = Dependencies(u, FALSE)
<1>1. /\ Units' = Units /\ Decls' = Decls
      /\ \A u : Stem(u)' = Stem(u) /\ Owned(u)' = Owned(u) /\ Edges(u)' = Edges(u)
      /\ \A d : Decl(d)' = Decl(d) /\ (IsObject(d)' <=> IsObject(d))
  BY SameProgram
<1>2. \A u : Mates(u)' = Mates(u)
  BY <1>1 DEF Mates
<1>3. \A u : (Clustered(u)' <=> Clustered(u)) /\ (HasMain(u)' <=> HasMain(u)) /\ Earlier(u)' = Earlier(u)
  BY <1>2 DEF Clustered, HasMain, Earlier
<1>4. \A u : ModuleName(u)' = ModuleName(u)
  BY <1>1, <1>2, <1>3 DEF ModuleName
<1>5. \A u : Requires(u)' = Requires(u)
  BY <1>1, <1>2, <1>4 DEF Requires
<1>6. NameTaken' <=> NameTaken
  BY <1>1, <1>3, <1>4 DEF NameTaken
<1>7. EntryNeeded' <=> EntryNeeded
  BY <1>1, <1>2, <1>3 DEF EntryNeeded
<1>8. ASSUME NEW u PROVE Dependencies(u, FALSE)' = Dependencies(u, FALSE)
  <2>1. Follows(u, FALSE)' = Follows(u, FALSE)
    BY <1>1, <1>2 DEF Follows
  <2>2. PICK f : f = Follows(u, FALSE)
    OBVIOUS
  <2>3. \A o : Reach(f, Decl(o).refs)' = Reach(f, Decl(o).refs)
    BY <1>1 DEF Reach
  <2> QED
    BY <1>1, <2>1, <2>2, <2>3 DEF Dependencies
<1> QED
  BY <1>2, <1>3, <1>4, <1>5, <1>6, <1>7, <1>8

LEMMA SameReads ==
    ASSUME program' = program, component' = component, read' = read
    PROVE  /\ \A u, second : Dependencies(u, second)' = Dependencies(u, second)
           /\ \A u : After(u)' = After(u)
           /\ \A us : Included(us)' = Included(us)
<1>1. /\ Decls' = Decls
      /\ \A u : Owned(u)' = Owned(u) /\ Of(u)' = Of(u) /\ Mates(u)' = Mates(u)
      /\ \A d : Decl(d)' = Decl(d) /\ (IsObject(d)' <=> IsObject(d))
  BY SameProgram, SameModules
<1>2. \A f, from : Reach(f, from)' = Reach(f, from)
  BY <1>1 DEF Reach
<1>3. ASSUME NEW u, NEW second PROVE Dependencies(u, second)' = Dependencies(u, second)
  <2>1. Follows(u, second)' = Follows(u, second)
    BY <1>1 DEF Follows
  <2>2. PICK f : f = Follows(u, second)
    OBVIOUS
  <2> QED
    BY <1>1, <1>2, <2>1, <2>2 DEF Dependencies
<1>4. ASSUME NEW u PROVE After(u)' = After(u)
  <2>1. PICK f, own, R : /\ f = [d \in Decls |-> IF IsObject(d) \/ Decl(d).unit \notin Mates(u) THEN {} ELSE read[d]]
                         /\ own = UNION {read[d] : d \in {e \in Of(u) : IsObject(e)}}
                         /\ R = Reach(f, own)
    OBVIOUS
  <2>2. f = [d \in Decls |-> IF IsObject(d) \/ Decl(d).unit \notin Mates(u) THEN {} ELSE read[d]]'
    BY <1>1, <2>1
  <2>3. own = (UNION {read[d] : d \in {e \in Of(u) : IsObject(e)}})'
    BY <1>1, <2>1
  <2>4. R = Reach(f, own)'
    BY <1>2, <2>1
  <2>5. After(u) = ({Decl(d).unit : d \in {e \in R : IsObject(e)}} \cap Mates(u)) \ {u}
    BY <2>1 DEF After
  <2>6. After(u)' = (({Decl(d).unit : d \in {e \in R : IsObject(e)}} \cap Mates(u)) \ {u})'
    BY <2>2, <2>3, <2>4 DEF After
  <2> QED
    BY <1>1, <2>5, <2>6
<1>5. \A left, placed : Place(left, placed)' = Place(left, placed)
  BY <1>4 DEF Place
<1>6. ASSUME NEW us PROVE Included(us)' = Included(us)
  <2> DEFINE G(f) == f = [k \in 1 .. Cardinality(us) |->
                             Place(us \ {f[j] : j \in 1 .. k - 1}, {f[j] : j \in 1 .. k - 1})]
             H(f) == f = [k \in 1 .. Cardinality(us) |->
                             Place(us \ {f[j] : j \in 1 .. k - 1}, {f[j] : j \in 1 .. k - 1})']
  <2>1. \A f : G(f) <=> H(f)
    BY <1>5
  <2>2. Included(us) = CHOOSE f : G(f)
    BY DEF Included
  <2>3. Included(us)' = CHOOSE f : H(f)
    BY DEF Included
  <2> HIDE DEF G, H
  <2>4. (CHOOSE f : G(f)) = (CHOOSE f : H(f))
    BY <2>1
  <2> QED
    BY <2>2, <2>3, <2>4
<1> QED
  BY <1>3, <1>4, <1>6

LEMMA SameFiles ==
    ASSUME program' = program, component' = component, read' = read
    PROVE  \A outs, us : File(outs, us)' = File(outs, us)
<1>1. /\ Decls' = Decls /\ \A d : Decl(d)' = Decl(d) /\ (IsObject(d)' <=> IsObject(d))
      /\ \A u : ModuleName(u)' = ModuleName(u) /\ Requires(u)' = Requires(u)
      /\ \A us : Included(us)' = Included(us)
  BY SameProgram, SameModules, SameReads
<1> QED
  BY <1>1 DEF File

LEMMA SameNames ==
    ASSUME program' = program, component' = component, NEW u, \A v \in Earlier(u) : out'[v] = out[v]
    PROVE  Taken(u)' = Taken(u) /\ \A f : NamesOf(u, f)' <=> NamesOf(u, f)
<1>1. /\ Of(u)' = Of(u) /\ \A v : Publics(v)' = Publics(v) /\ Foreign(v)' = Foreign(v)
      /\ \A ds : AsInC(ds)' = AsInC(ds) /\ \A d : Decl(d)' = Decl(d)
      /\ \A v : Mates(v)' = Mates(v) /\ Earlier(v)' = Earlier(v)
  BY SameProgram, SameModules
<1>2. DeclaredBy(Earlier(u))' = DeclaredBy(Earlier(u))
  BY <1>1 DEF DeclaredBy
<1>3. Reserved(u)' = Reserved(u)
  BY <1>1, <1>2 DEF Reserved
<1>4. Taken(u)' = Taken(u)
  BY <1>1, <1>3 DEF Taken
<1> QED
  BY <1>1, <1>4 DEF NamesOf

LEMMA SameSorted ==
    ASSUME program' = program, component' = component, NEW u, out'[u] = out[u]
    PROVE  \A f, cy : SortedBy(u, f, cy)' <=> SortedBy(u, f, cy)
<1>1. /\ Owned(u)' = Owned(u) /\ \A d : Decl(d)' = Decl(d) /\ Storage(d)' = Storage(d)
      /\ \A d : Initialized(d)' <=> Initialized(d)
      /\ Clustered(u)' <=> Clustered(u)
  BY SameProgram, SameModules
<1>2. PICK n, os : n = out[u] /\ n = out'[u] /\ os = Owned(u) /\ os = Owned(u)'
  BY <1>1
<1> DEFINE Prints(f, cy) ==
               /\ Sequenced(n.objects, os, f, cy) /\ DOMAIN n.init = os
               /\ \A o \in os :
                      /\ n.init[o] = "inline" <=> Initialized(o) /\ o \notin cy /\ Storage(o) # "in place"
                      /\ n.init[o] = "inline" => \A d \in f[o] : n.init[d] # "none"
                      /\ n.init[o] = "none" /\ Clustered(u) => Decl(o).form = "array"
<1>3. \A f, cy : SortedBy(u, f, cy) <=> Prints(f, cy)
  BY <1>2 DEF SortedBy
<1>4. \A f, cy : SortedBy(u, f, cy)' <=> Prints(f, cy)
  BY <1>1, <1>2 DEF SortedBy
<1> QED
  BY <1>3, <1>4

LEMMA SameJob ==
    ASSUME again' = again, todo' = todo, component' = component
    PROVE  Job' = Job
<1> DEFINE First(u) == u \in todo /\ \A v \in todo \ {u} : Precedes(u, v)
<1>1. \A u, v : Precedes(u, v)' <=> Precedes(u, v)
  BY DEF Precedes
<1>2. \A u : First(u) <=> First(u)'
  BY <1>1
<1>3. Job = CHOOSE u : First(u)
  BY DEF Job
<1>4. Job' = CHOOSE u : First(u)'
  BY DEF Job
<1> HIDE DEF First
<1> QED
  BY <1>2, <1>3, <1>4

LEMMA StaysLaidOut ==
    ASSUME LayoutInv, UNCHANGED <<program, again, todo, out, read, component>>, Translating' => Translating
    PROVE  StoredInv' /\ NamesInv' /\ ObjectsInv' /\ ReadInv'
<1>1. /\ program' = program /\ again' = again /\ todo' = todo /\ out' = out /\ read' = read
      /\ component' = component
  OBVIOUS
<1>2. /\ Units' = Units /\ Decls' = Decls
      /\ \A u : Owned(u)' = Owned(u) /\ Of(u)' = Of(u) /\ (Clustered(u)' <=> Clustered(u))
      /\ \A d : Decl(d)' = Decl(d) /\ (IsObject(d)' <=> IsObject(d)) /\ Storage(d)' = Storage(d)
      /\ \A u, second : Dependencies(u, second)' = Dependencies(u, second)
  BY <1>1, SameProgram, SameModules, SameReads
<1>3. StoredInv /\ NamesInv /\ ObjectsInv /\ ReadInv
  BY DEF LayoutInv
<1>4. StoredInv'
  BY <1>1, <1>2, <1>3 DEF StoredInv
<1>5. NamesInv'
  <2>1. \A u, f : NamesOf(u, f)' <=> NamesOf(u, f)
    BY <1>1, SameNames
  <2> QED
    BY <1>1, <1>2, <1>3, <2>1 DEF NamesInv
<1>6. ObjectsInv'
  <2>1. \A u, f, cy : SortedBy(u, f, cy)' <=> SortedBy(u, f, cy)
    BY <1>1, SameSorted
  <2> SUFFICES ASSUME Translating', again', NEW u \in Units' \ todo'
               PROVE  (\E cy \in SUBSET Owned(u) : SortedBy(u, Dependencies(u, TRUE), cy))'
    BY DEF ObjectsInv
  <2>2. PICK f : f = Dependencies(u, TRUE) /\ f = Dependencies(u, TRUE)'
    BY <1>2
  <2>3. Translating /\ again /\ u \in Units \ todo
    BY <1>1, <1>2
  <2>4. PICK cy \in SUBSET Owned(u) : SortedBy(u, Dependencies(u, TRUE), cy)
    BY <1>3, <2>3 DEF ObjectsInv
  <2>5. SortedBy(u, f, cy)'
    BY <2>1, <2>2, <2>4
  <2> QED
    BY <1>2, <2>2, <2>5
<1>7. ReadInv'
  <2>1. \A u, d : Known(u, d)' <=> Known(u, d)
    <3> SUFFICES ASSUME NEW u, NEW d PROVE Known(u, d)' <=> Known(u, d)
      OBVIOUS
    <3>1. PICK f : f = Dependencies(u, FALSE) /\ f = Dependencies(u, FALSE)'
      BY <1>2
    <3> QED
      BY <1>1, <1>2, <3>1 DEF Known
  <2> QED
    BY <1>1, <1>2, <1>3, <2>1 DEF ReadInv
<1> QED
  BY <1>4, <1>5, <1>6, <1>7

LEMMA StutterStays == ASSUME LayoutInv, UNCHANGED vars PROVE LayoutInv'
<1>1. /\ program' = program /\ again' = again /\ todo' = todo /\ out' = out /\ read' = read
      /\ modules' = modules /\ phase' = phase /\ UNCHANGED componentVars /\ UNCHANGED orderVars
  BY DEF vars
<1>2. component' = component /\ edges' = edges
  BY <1>1 DEF componentVars
<1>3. ComponentsInv' /\ OrderInv' /\ TracedInv'
  BY <1>1, ComponentsStutter, InvInductive, TracedInductive DEF LayoutInv
<1>4. Translating' <=> Translating
  BY <1>1 DEF Translating
<1>5. StoredInv' /\ NamesInv' /\ ObjectsInv' /\ ReadInv'
  BY <1>1, <1>2, <1>4, StaysLaidOut
<1>6. SearchInv'
  <2>1. AllVisited' <=> AllVisited
    BY <1>1, <1>2 DEF AllVisited, componentVars, Nodes
  <2>2. /\ LinkGraph' = LinkGraph /\ (Accepted' <=> Accepted)
        /\ (NameTaken' <=> NameTaken) /\ (EntryNeeded' <=> EntryNeeded)
    BY <1>1, <1>2, SameProgram, SameModules
  <2> QED
    BY <1>1, <1>2, <1>4, <2>1, <2>2 DEF LayoutInv, SearchInv
<1>7. TodoInv'
  <2>1. Units' = Units /\ \A u : Clustered(u)' <=> Clustered(u)
    BY <1>1, <1>2, SameProgram, SameModules
  <2>2. TodoInv
    BY DEF LayoutInv
  <2> QED
    BY <1>1, <1>4, <2>1, <2>2 DEF TodoInv
<1>8. SortInv'
  <2>1. Job' = Job
    BY <1>1, <1>2, SameJob
  <2>2. deps' = deps /\ inits' = inits /\ storage' = storage
    BY <1>1 DEF orderVars
  <2>3. /\ \A u : Owned(u)' = Owned(u) /\ \A d : (Initialized(d)' <=> Initialized(d)) /\ Storage(d)' = Storage(d)
        /\ \A u, second : Dependencies(u, second)' = Dependencies(u, second)
    BY <1>1, <1>2, SameProgram, SameReads
  <2>4. SortInv
    BY DEF LayoutInv
  <2> QED
    BY <1>1, <2>1, <2>2, <2>3, <2>4 DEF SortInv
<1>9. FileInv'
  <2>1. \A outs, us : File(outs, us)' = File(outs, us)
    BY <1>1, <1>2, SameFiles
  <2>2. Units' = Units /\ \A u : Mates(u)' = Mates(u)
    BY <1>1, <1>2, SameProgram, SameModules
  <2>3. FileInv
    BY DEF LayoutInv
  <2> QED
    BY <1>1, <2>1, <2>2, <2>3 DEF FileInv
<1> QED
  BY <1>1, <1>3, <1>5, <1>6, <1>7, <1>8, <1>9 DEF LayoutInv

(* The search and the sorting begin as their own specifications say. *)
LEMMA ComponentsStart == ComponentsInit => ComponentsInv
BY InvStarts DEF ComponentsInit

LEMMA ComponentsStartNext == ASSUME NEW e, IsGraph(e), Searches(e) PROVE ComponentsInv'
<1>1. ComponentsInit' => ComponentsInv'
  BY ComponentsStart, PTL
<1>2. NoneVisited(e)'
  BY DEF Searches, NoneVisited
<1>3. e \in Seq(SUBSET Nat)
  BY DEF IsGraph
<1>4. ComponentsInit'
  BY <1>2, <1>3 DEF ComponentsInit
<1> QED
  BY <1>1, <1>4

LEMMA TracedStart == stack = <<>> /\ order = <<>> /\ cyclic = {} => TracedInv
BY TracedInitially

LEMMA SortingStarts ==
    ASSUME NEW d, NEW i, NEW s, IsInput(d, i, s), Sorts(d, i, s)
    PROVE  OrderInv' /\ TracedInv'
<1>1. OrderInit' => OrderInv'
  BY InvInitially, PTL
<1>2. (stack = <<>> /\ order = <<>> /\ cyclic = {})' => TracedInv'
  BY TracedStart, PTL
<1>3. Sorting(d, i, s)'
  BY DEF Sorts, Sorting
<1>4. /\ DOMAIN d \in SUBSET Nat /\ d \in [DOMAIN d -> SUBSET DOMAIN d]
      /\ i \in SUBSET DOMAIN d /\ s \in [DOMAIN d -> {"none", "kept", "in place"}]
  BY DEF IsInput
<1>5. OrderInit'
  BY <1>3, <1>4 DEF OrderInit
<1>6. (stack = <<>> /\ order = <<>> /\ cyclic = {})'
  BY DEF Sorts
<1> QED
  BY <1>1, <1>2, <1>5, <1>6

LEMMA InvAtFirst == Init => LayoutInv
<1> SUFFICES ASSUME Init PROVE LayoutInv
  OBVIOUS
<1>1. /\ program \in Programs /\ NoneVisited(<<>>)
      /\ again = FALSE /\ todo = {} /\ out = <<>> /\ read = <<>> /\ modules = {} /\ phase = "link"
      /\ deps = <<>> /\ inits = {} /\ storage = <<>> /\ visit = <<>> /\ stack = <<>>
      /\ order = <<>> /\ cyclic = {} /\ work = {} /\ pass = "done"
  BY DEF Init
<1>2. ComponentsInv
  <2>1. IsGraph(<<>>)
    BY DEF IsGraph
  <2> QED
    BY <1>1, <2>1, InvStarts
<1>3. TracedInv
  BY <1>1, TracedInitially
<1>4. OrderInv
  <2>1. Objects = {} /\ DOMAIN stack = {} /\ DOMAIN order = {}
    BY <1>1 DEF Objects
  <2>2. OrderTypeOK
    <3>1. IsInput(deps, inits, storage)
      BY <1>1 DEF IsInput
    <3>2. visit \in [Objects -> {"unvisited", "on stack", "done"}]
      BY <1>1, <2>1
    <3>3. stack \in Seq([node : Objects, left : SUBSET Objects]) /\ order \in Seq(Objects)
      BY <1>1
    <3> QED
      BY <1>1, <3>1, <3>2, <3>3 DEF OrderTypeOK
  <2>3. WalkInv
    BY <2>1 DEF WalkInv, PathInv, LookedInv, LeftInv
  <2>4. SpreadInv
    BY <1>1, <2>1 DEF SpreadInv
  <2> QED
    BY <2>2, <2>3, <2>4 DEF OrderInv
<1>5. StoredInv
  BY <1>1 DEF StoredInv
<1>6. ~Translating /\ phase # "sort" /\ phase # "written" /\ phase # "components"
  BY <1>1 DEF Translating
<1> QED
  BY <1>1, <1>2, <1>3, <1>4, <1>5, <1>6
  DEF LayoutInv, SearchInv, TodoInv, SortInv, NamesInv, ObjectsInv, ReadInv, FileInv

-----------------------------------------------------------------------------
LEMMA LinkKeeps == ASSUME LayoutInv, Link PROVE LayoutInv'
<1>1. /\ phase = "link" /\ UNCHANGED <<program, again, todo, out, read, modules>> /\ UNCHANGED orderVars
      /\ IF SameStem \/ TakesRuntime \/ DefinedTwice
         THEN phase' = "refused" /\ UNCHANGED componentVars
         ELSE phase' = "components" /\ Searches([u \in Units |-> Edges(u)])
  BY DEF Link
<1>2. OrderInv' /\ TracedInv'
  BY <1>1, InvInductive, TracedInductive DEF LayoutInv
<1>3. IsProgram(program)
  BY LaidOut
<1>4. IsGraph(LinkGraph)
  <2>1. Units = 1 .. Len(program.stems) /\ Len(program.stems) \in Nat /\ Units \subseteq Nat
    BY <1>3, ProgramFacts
  <2>2. \A u \in Units : Edges(u) \subseteq Units
    BY <1>3, EdgesFacts
  <2>3. LinkGraph \in Seq(SUBSET Nat) /\ DOMAIN LinkGraph = Units
    BY <2>1, <2>2 DEF LinkGraph
  <2>4. \A u \in Units : LinkGraph[u] \subseteq Units
    BY <2>2 DEF LinkGraph
  <2> QED
    BY <2>3, <2>4 DEF IsGraph
<1>5. ComponentsInv' /\ (phase' = "components" => edges' = LinkGraph)
  <2>1. CASE phase' = "refused" /\ UNCHANGED componentVars
    BY <2>1, ComponentsStutter DEF LayoutInv
  <2>2. CASE phase' = "components" /\ Searches(LinkGraph)
    BY <1>4, <2>2, ComponentsStartNext DEF Searches
  <2> QED
    BY <1>1, <2>1, <2>2 DEF LinkGraph
<1>6. phase' \in {"refused", "components"} /\ (phase' = "components" => Accepted)
  BY <1>1 DEF Accepted
<1>7. ~Translating' /\ phase' # "sort" /\ phase' # "written"
  BY <1>6 DEF Translating
<1>8. LinkGraph' = LinkGraph /\ (Accepted' <=> Accepted) /\ Units' = Units /\ \A d : Decl(d)' = Decl(d)
  BY <1>1, SameProgram
<1>9. StoredInv'
  <2>1. StoredInv
    BY DEF LayoutInv
  <2> QED
    BY <1>1, <1>8, <2>1 DEF StoredInv
<1>10. SearchInv'
  BY <1>5, <1>6, <1>7, <1>8 DEF SearchInv
<1>11. program' \in Programs /\ again' \in BOOLEAN
  BY <1>1 DEF LayoutInv
<1> QED
  BY <1>2, <1>5, <1>6, <1>7, <1>9, <1>10, <1>11
  DEF LayoutInv, TodoInv, SortInv, NamesInv, ObjectsInv, ReadInv, FileInv

LEMMA SearchKeeps == ASSUME LayoutInv, Search PROVE LayoutInv'
<1>1. /\ phase = "components" /\ phase' = phase /\ ComponentsNext
      /\ UNCHANGED <<program, again, todo, out, read, modules>> /\ UNCHANGED orderVars
  BY DEF Search
<1>2. OrderInv' /\ TracedInv' /\ ComponentsInv'
  BY <1>1, InvInductive, TracedInductive, ComponentsStepKeeps DEF LayoutInv
<1>3. edges' = edges
  BY <1>1 DEF ComponentsNext, VisitRoot, VisitNext, FindHeld, FindClosed, Return, Visits
<1>4. ~Translating' /\ phase' # "sort" /\ phase' # "written"
  BY <1>1 DEF Translating
<1>5. LinkGraph' = LinkGraph /\ (Accepted' <=> Accepted) /\ Units' = Units /\ \A d : Decl(d)' = Decl(d)
  BY <1>1, SameProgram
<1>6. StoredInv'
  <2>1. StoredInv
    BY DEF LayoutInv
  <2> QED
    BY <1>1, <1>5, <2>1 DEF StoredInv
<1>7. SearchInv'
  <2>1. Accepted /\ edges = LinkGraph
    BY <1>1 DEF LayoutInv, SearchInv
  <2> QED
    BY <1>3, <1>4, <1>5, <2>1 DEF SearchInv
<1>8. program' \in Programs /\ again' \in BOOLEAN
  BY <1>1 DEF LayoutInv
<1> QED
  BY <1>1, <1>2, <1>4, <1>6, <1>7, <1>8
  DEF LayoutInv, TodoInv, SortInv, NamesInv, ObjectsInv, ReadInv, FileInv

LEMMA ClusterKeeps == ASSUME LayoutInv, Cluster PROVE LayoutInv'
<1>1. /\ phase = "components" /\ AllVisited
      /\ phase' = IF NameTaken \/ EntryNeeded THEN "refused" ELSE "translate"
      /\ (again' = \A u \in Units : ~Clustered(u))
      /\ todo' = IF again' THEN Units ELSE {u \in Units : Clustered(u)}
      /\ out' = [u \in Units |-> NoOutput]
      /\ read' = [d \in Decls |-> {}]
      /\ program' = program /\ modules' = modules /\ UNCHANGED componentVars /\ UNCHANGED orderVars
  BY DEF Cluster
<1>2. component' = component /\ edges' = edges
  BY <1>1 DEF componentVars
<1>3. IsProgram(program) /\ Accepted /\ edges = LinkGraph /\ Grouped
  BY <1>1, LaidOut DEF LayoutInv, SearchInv
<1>4. OrderInv' /\ TracedInv' /\ ComponentsInv'
  BY <1>1, InvInductive, TracedInductive, ComponentsStutter DEF LayoutInv
<1>5. again' \in BOOLEAN /\ phase' \in {"refused", "translate"}
  BY <1>1
<1>6. phase' = "translate" => ~NameTaken /\ ~EntryNeeded
  BY <1>1
<1>7. /\ Units' = Units /\ Decls' = Decls /\ LinkGraph' = LinkGraph /\ (Accepted' <=> Accepted)
      /\ \A d : Decl(d)' = Decl(d)
      /\ (NameTaken' <=> NameTaken) /\ (EntryNeeded' <=> EntryNeeded)
      /\ \A u : Clustered(u)' <=> Clustered(u)
  BY <1>1, <1>2, SameProgram, SameModules
<1>8. StoredInv'
  <2>1. todo' \subseteq Units
    BY <1>1
  <2>2. NoOutput.called = <<>> /\ NoOutput.objects = <<>> /\ NoOutput.init = <<>>
    BY DEF NoOutput
  <2>3. DOMAIN NoOutput.called = {} /\ DOMAIN NoOutput.objects = {} /\ DOMAIN NoOutput.init = {}
    BY <2>2
  <2>4. /\ IsFiniteSet(DOMAIN NoOutput.called) /\ Range(NoOutput.called) \subseteq Names
        /\ Range(NoOutput.objects) = DOMAIN NoOutput.init
    BY <2>3, FS_EmptySet DEF Range
  <2>5. DOMAIN out' = Units /\ \A u \in Units : out'[u] = NoOutput
    BY <1>1
  <2>6. DOMAIN read' = Decls /\ \A d \in Decls : read'[d] = {}
    BY <1>1
  <2> HIDE DEF NoOutput
  <2> QED
    BY <1>7, <2>1, <2>4, <2>5, <2>6 DEF StoredInv, Names
<1>9. SearchInv'
  <2>1. AllVisited'
    BY <1>1, <1>2 DEF AllVisited, componentVars, Nodes
  <2> QED
    BY <1>2, <1>3, <1>5, <1>6, <1>7, <2>1 DEF SearchInv, Translating
<1>10. TodoInv'
  <2> SUFFICES ASSUME Translating' PROVE TodoInv'
    BY DEF TodoInv
  <2>1. phase' # "written"
    BY <1>5
  <2>2. Units # {}
    BY <1>3, ProgramFacts
  <2>3. todo' # {} /\ (~again' => \A u \in todo' : Clustered(u)) /\ (again' => todo' = Units)
    BY <1>1, <2>2
  <2> QED
    BY <1>7, <2>1, <2>3 DEF TodoInv
<1>11. again' => Units' \ todo' = {}
  BY <1>1, <1>7
<1>12. NamesInv' /\ ObjectsInv'
  <2>1. DOMAIN out' = Units'
    BY <1>1, <1>7
  <2> QED
    BY <1>11, <2>1 DEF NamesInv, ObjectsInv
<1>13. ReadInv'
  <2>1. DOMAIN read' = Decls'
    BY <1>1, <1>7
  <2>2. \A u \in Units : ~(Clustered(u) /\ (again' \/ u \notin todo'))
    BY <1>1
  <2> QED
    BY <1>7, <2>1, <2>2 DEF ReadInv
<1>14. SortInv' /\ FileInv'
  BY <1>5 DEF SortInv, FileInv
<1>15. program' \in Programs
  BY <1>1 DEF LayoutInv
<1> QED
  BY <1>4, <1>5, <1>8, <1>9, <1>10, <1>12, <1>13, <1>14, <1>15 DEF LayoutInv

-----------------------------------------------------------------------------
(* Objects that are not initialized reach nothing. *)
LEMMA NothingReached ==
    ASSUME IsProgram(program), NEW f \in [Decls -> SUBSET Decls] PROVE Reach(f, {}) = {}
<1>1. IsFiniteSet(Decls) /\ {} \in SUBSET Decls
  BY ProgramFacts
<1>2. PICK from, r : from = {} /\ r = Reach(f, from)
  OBVIOUS
<1>3. from \in SUBSET Decls
  BY <1>2
<1>4. \A X \in SUBSET Decls : from \subseteq X /\ (\A d \in X : f[d] \subseteq X) => r \subseteq X
  BY <1>1, <1>2, <1>3, ReachFacts
<1>5. r \subseteq {}
  BY <1>2, <1>4
<1> QED
  BY <1>2, <1>5

LEMMA InputOfUnit ==
    ASSUME IsProgram(program), ReadsDecls, NEW u, NEW second
    PROVE  /\ DOMAIN Dependencies(u, second) = Owned(u)
           /\ IsInput(Dependencies(u, second), {o \in Owned(u) : Initialized(o)},
                      [o \in Owned(u) |-> Storage(o)])
<1>1. /\ Owned(u) \subseteq Decls /\ Owned(u) \subseteq Nat
      /\ \A d \in Decls : Decl(d).refs \in SUBSET Decls
  BY OfFacts, ProgramFacts
<1>2. PICK f : f = Follows(u, second)
  OBVIOUS
<1>3. f \in [Decls -> SUBSET Decls]
  BY <1>1, <1>2 DEF Follows, ReadsDecls
<1>4. PICK d : d = Dependencies(u, second)
  OBVIOUS
<1>5. d = [o \in Owned(u) |-> Reach(f, Decl(o).refs) \cap Owned(u)]
  BY <1>2, <1>4 DEF Dependencies
<1>6. DOMAIN d = Owned(u) /\ d \in [Owned(u) -> SUBSET Owned(u)]
  BY <1>5
<1>7. ASSUME NEW o \in Owned(u), ~Initialized(o) PROVE d[o] = {}
  <2>1. Decl(o).refs = {}
    BY <1>7 DEF Initialized
  <2>2. d[o] = Reach(f, {}) \cap Owned(u)
    BY <1>5, <2>1
  <2> QED
    BY <1>3, <2>2, NothingReached
<1>8. [o \in Owned(u) |-> Storage(o)] \in [Owned(u) -> {"none", "kept", "in place"}]
  BY DEF Storage
<1>9. IsInput(d, {o \in Owned(u) : Initialized(o)}, [o \in Owned(u) |-> Storage(o)])
  BY <1>1, <1>6, <1>7, <1>8 DEF IsInput
<1> QED
  BY <1>4, <1>6, <1>9

LEMMA ReadIsTyped ==
    ASSUME LayoutInv, Translating
    PROVE  ReadsDecls /\ IsProgram(program) /\ Grouped
<1>1. IsProgram(program) /\ Grouped
  BY LaidOut
<1>2. DOMAIN read = Decls /\ \A d \in DOMAIN read : read[d] \subseteq Decl(d).refs
  BY DEF LayoutInv, ReadInv, StoredInv
<1>3. \A d \in Decls : Decl(d).refs \subseteq Decls
  BY <1>1, ProgramFacts
<1> QED
  BY <1>1, <1>2, <1>3 DEF ReadsDecls

(* What a step keeps that only goes on sorting. *)
LEMMA LayoutStays ==
    ASSUME LayoutInv, UNCHANGED <<program, again, todo, out, read, modules, componentVars>>,
           Translating, phase' \in {"translate", "sort"}, phase # "written",
           OrderInv', TracedInv', SortInv'
    PROVE  LayoutInv'
<1>1. /\ program' = program /\ again' = again /\ todo' = todo /\ out' = out /\ read' = read
      /\ modules' = modules /\ UNCHANGED componentVars
  OBVIOUS
<1>2. component' = component /\ edges' = edges
  BY <1>1 DEF componentVars
<1>3. ComponentsInv'
  BY <1>1, ComponentsStutter DEF LayoutInv
<1>4. StoredInv' /\ NamesInv' /\ ObjectsInv' /\ ReadInv'
  BY <1>1, <1>2, StaysLaidOut
<1>5. SearchInv'
  <2>1. AllVisited' <=> AllVisited
    BY <1>1, <1>2 DEF AllVisited, componentVars, Nodes
  <2>2. /\ LinkGraph' = LinkGraph /\ (Accepted' <=> Accepted)
        /\ (NameTaken' <=> NameTaken) /\ (EntryNeeded' <=> EntryNeeded)
    BY <1>1, <1>2, SameProgram, SameModules
  <2>3. SearchInv
    BY DEF LayoutInv
  <2> QED
    BY <1>1, <1>2, <2>1, <2>2, <2>3 DEF SearchInv
<1>6. TodoInv'
  <2>1. Units' = Units /\ \A u : Clustered(u)' <=> Clustered(u)
    BY <1>1, <1>2, SameProgram, SameModules
  <2>2. TodoInv
    BY DEF LayoutInv
  <2> QED
    BY <1>1, <2>1, <2>2 DEF TodoInv
<1>7. FileInv'
  BY DEF FileInv
<1>8. program' \in Programs /\ again' \in BOOLEAN
  BY <1>1 DEF LayoutInv
<1> QED
  BY <1>3, <1>4, <1>5, <1>6, <1>7, <1>8 DEF LayoutInv

LEMMA TranslateKeeps == ASSUME LayoutInv, Translate PROVE LayoutInv'
<1>1. /\ phase = "translate" /\ phase' = "sort"
      /\ UNCHANGED <<program, again, todo, out, read, modules, componentVars>>
  BY DEF Translate
<1>2. PICK u, d, i, s : /\ u = Job /\ d = Dependencies(u, again)
                        /\ i = {o \in Owned(u) : Initialized(o)} /\ s = [o \in Owned(u) |-> Storage(o)]
  OBVIOUS
<1>3. Sorts(d, i, s)
  BY <1>2 DEF Translate
<1>4. Translating
  BY <1>1 DEF Translating
<1>5. IsInput(d, i, s)
  BY <1>2, <1>4, ReadIsTyped, InputOfUnit
<1>6. OrderInv' /\ TracedInv'
  BY <1>3, <1>5, SortingStarts
<1>7. SortInv'
  <2>1. program' = program /\ component' = component /\ read' = read /\ again' = again /\ todo' = todo
    BY <1>1 DEF componentVars
  <2>2. Job' = u
    BY <1>2, <2>1, SameJob
  <2>3. /\ Owned(u)' = Owned(u) /\ \A o : (Initialized(o)' <=> Initialized(o)) /\ Storage(o)' = Storage(o)
    BY <2>1, SameProgram
  <2>4. Dependencies(u, again)' = d
    <3>1. \A v, second : Dependencies(v, second)' = Dependencies(v, second)
      BY <2>1, SameReads
    <3> QED
      BY <1>2, <2>1, <3>1
  <2>5. deps' = d /\ inits' = i /\ storage' = s
    BY <1>3 DEF Sorts
  <2> QED
    BY <1>2, <2>2, <2>3, <2>4, <2>5 DEF SortInv
<1> QED
  BY <1>1, <1>4, <1>6, <1>7, LayoutStays

LEMMA SortKeeps == ASSUME LayoutInv, Sort PROVE LayoutInv'
<1>1. /\ phase = "sort" /\ phase' = "sort" /\ OrderNext
      /\ UNCHANGED <<program, again, todo, out, read, modules, componentVars>>
  BY DEF Sort
<1>2. OrderInv' /\ TracedInv'
  BY <1>1, InvInductive, TracedInductive DEF LayoutInv
<1>3. deps' = deps /\ inits' = inits /\ storage' = storage
  BY <1>1 DEF OrderNext, Enter, Descend, Close, Skip, Spread, Leave, EndWalk, EndSpread
<1>4. SortInv'
  <2>1. program' = program /\ component' = component /\ read' = read /\ again' = again /\ todo' = todo
    BY <1>1 DEF componentVars
  <2>2. Job' = Job
    BY <2>1, SameJob
  <2>3. /\ \A u : Owned(u)' = Owned(u)
        /\ \A o : (Initialized(o)' <=> Initialized(o)) /\ Storage(o)' = Storage(o)
        /\ \A u, second : Dependencies(u, second)' = Dependencies(u, second)
    BY <2>1, SameProgram, SameReads
  <2>4. SortInv
    BY DEF LayoutInv
  <2> QED
    BY <1>1, <1>3, <2>1, <2>2, <2>3, <2>4 DEF SortInv
<1> QED
  BY <1>1, <1>2, <1>4, LayoutStays DEF Translating

LEMMA JobFacts ==
    ASSUME LayoutInv, Translating, todo # {}
    PROVE  Job \in todo /\ Job \in Units /\ \A v \in todo \ {Job} : Precedes(Job, v)
<1>1. todo \subseteq Units /\ Units \subseteq Nat /\ Grouped /\ again \in BOOLEAN
  BY LaidOut, ProgramFacts DEF LayoutInv, StoredInv
<1>2. \E u \in todo : \A v \in todo \ {u} : Precedes(u, v)
  <2>1. CASE again
    <3>1. PICK u \in todo : \A v \in todo : u <= v
      BY <1>1, LeastFacts
    <3>2. \A v \in todo \ {u} : u < v
      BY <1>1, <3>1
    <3> QED
      BY <2>1, <3>2 DEF Precedes
  <2>2. CASE ~again
    <3> DEFINE numbers == {component[v] : v \in todo}
    <3>1. numbers \in SUBSET Nat /\ numbers # {}
      BY <1>1 DEF Grouped
    <3>2. PICK c \in numbers : \A k \in numbers : c <= k
      <4> HIDE DEF numbers
      <4> QED
        BY <3>1, LeastFacts
    <3> DEFINE group == {v \in todo : component[v] = c}
    <3>3. group \in SUBSET Nat /\ group # {}
      BY <1>1, <3>2
    <3>4. PICK u \in group : \A v \in group : u <= v
      <4> HIDE DEF group
      <4> QED
        BY <3>3, LeastFacts
    <3>5. ASSUME NEW v \in todo \ {u} PROVE Precedes(u, v)
      <4>1. component[u] = c /\ component[v] \in numbers /\ c <= component[v]
        BY <3>2, <3>4, <3>5
      <4>2. c \in Nat /\ component[v] \in Nat /\ u \in Nat /\ v \in Nat /\ u # v
        BY <1>1, <3>1, <3>4, <3>5, <4>1
      <4>3. CASE component[v] = c
        <5>1. u <= v
          BY <3>4, <3>5, <4>3
        <5>2. u < v
          BY <4>2, <5>1
        <5> QED
          BY <4>1, <4>3, <5>2 DEF Precedes
      <4>4. CASE component[v] # c
        <5>1. c < component[v]
          BY <4>1, <4>2, <4>4
        <5> QED
          BY <2>2, <4>1, <5>1 DEF Precedes
      <4> QED
        BY <4>3, <4>4
    <3> QED
      BY <3>4, <3>5
  <2> QED
    BY <1>1, <2>1, <2>2
<1> DEFINE First(u) == \A v \in todo \ {u} : Precedes(u, v)
<1>3. Job = CHOOSE u \in todo : First(u)
  BY DEF Job
<1>4. \E u \in todo : First(u)
  BY <1>2
<1>5. Job \in todo /\ First(Job)
  <2> HIDE DEF First
  <2> QED
    BY <1>3, <1>4
<1> QED
  BY <1>1, <1>5

-----------------------------------------------------------------------------
(* What a unit's translation makes of it once its objects are sorted. *)
LEMMA OutputFacts ==
    ASSUME NEW u, NEW n, n = Output(u)
    PROVE  /\ n.called = Called(u) /\ n.objects = order
           /\ DOMAIN n.init = Owned(u) /\ \A o \in Owned(u) : n.init[o] = Printed(u, o)
<1>1. PICK c, i : c = Called(u) /\ i = [o \in Owned(u) |-> Printed(u, o)]
  OBVIOUS
<1>2. n = [called |-> c, objects |-> order, init |-> i]
  BY <1>1 DEF Output
<1>3. n.called = c /\ n.objects = order /\ n.init = i
  BY <1>2
<1> QED
  BY <1>1, <1>3

LEMMA PrintedFacts ==
    ASSUME LayoutInv, phase = "sort", pass = "done", NEW u, u = Job, NEW o \in Owned(u)
    PROVE  /\ Printed(u, o) = "inline" <=> Initialized(o) /\ o \notin cyclic /\ Storage(o) # "in place"
           /\ Printed(u, o) = "inline" => \A d \in deps[o] : Printed(u, d) # "none"
           /\ Printed(u, o) = "none" /\ Clustered(u) => Decl(o).form = "array"
<1>1. inits = {p \in Owned(u) : Initialized(p)} /\ storage = [p \in Owned(u) |-> Storage(p)]
  BY DEF LayoutInv, SortInv
<1>2. Objects = Owned(u)
  <2>1. deps = Dependencies(u, again)
    BY DEF LayoutInv, SortInv
  <2> QED
    BY <2>1 DEF Objects, Dependencies
<1>3. (o \in inits <=> Initialized(o)) /\ storage[o] = Storage(o)
  BY <1>1
<1>4. Initializer(o) \in {"none", "default", "inline"}
  BY DEF Initializer
<1>5. Initializer(o) = "inline" <=> Initialized(o) /\ o \notin cyclic /\ Storage(o) # "in place"
  BY <1>3 DEF Initializer
<1>6. \A p : Printed(u, p) = "inline" <=> Initializer(p) = "inline"
  BY DEF Printed
<1>7. \A p : Initializer(p) # "none" => Printed(u, p) # "none"
  BY DEF Printed
<1>8. Initializer(o) = "inline" => \A d \in deps[o] : Initializer(d) # "none"
  BY <1>2, InvOrders DEF LayoutInv, DependenciesFirst
<1>9. Printed(u, o) = "none" /\ Clustered(u) => Decl(o).form = "array"
  BY DEF Printed
<1> QED
  BY <1>5, <1>6, <1>7, <1>8, <1>9

(* What Emit does, with the unit, its output and the pass it belongs to. *)
Emits(u, n) ==
    /\ u \in todo /\ u \in Units /\ (\A v \in todo \ {u} : Precedes(u, v)) /\ u = Job /\ n = Output(u)
    /\ DOMAIN out' = DOMAIN out /\ out'[u] = n /\ \A v \in DOMAIN out \ {u} : out'[v] = out[v]

LEMMA EmitFacts ==
    ASSUME LayoutInv, Emit
    PROVE  /\ \E u, n : Emits(u, n)
           /\ Translating /\ IsProgram(program) /\ Grouped /\ ReadsDecls
           /\ DOMAIN out = Units /\ DOMAIN read = Decls
<1>1. phase = "sort" /\ pass = "done" /\ out' = [out EXCEPT ![Job] = Output(Job)]
  BY DEF Emit
<1>2. Translating
  BY <1>1 DEF Translating
<1>3. IsProgram(program) /\ Grouped /\ ReadsDecls
  BY <1>2, ReadIsTyped
<1>4. DOMAIN out = Units /\ DOMAIN read = Decls /\ todo # {}
  BY <1>1, <1>2 DEF LayoutInv, NamesInv, ReadInv, TodoInv
<1>5. Job \in todo /\ Job \in Units /\ \A v \in todo \ {Job} : Precedes(Job, v)
  BY <1>2, <1>4, JobFacts
<1>6. PICK u, n : u = Job /\ n = Output(u)
  OBVIOUS
<1>7. out' = [out EXCEPT ![u] = n]
  BY <1>1, <1>6
<1>8. Emits(u, n)
  BY <1>4, <1>5, <1>6, <1>7 DEF Emits
<1> QED
  BY <1>2, <1>3, <1>4, <1>8

LEMMA EmitReads ==
    ASSUME LayoutInv, Emit, NEW u, NEW n, Emits(u, n)
    PROVE  /\ again => read' = read
           /\ DOMAIN read' = Decls
           /\ ~again => \A d \in Decls : read'[d] = IF Decl(d).unit = u THEN ReadBy(n, d) ELSE read[d]
<1>1. read' = IF again THEN read
              ELSE [d \in Decls |-> IF Decl(d).unit = Job THEN ReadBy(out'[Job], d) ELSE read[d]]
  BY DEF Emit
<1>2. u = Job /\ out'[u] = n
  BY DEF Emits
<1>3. DOMAIN read = Decls
  BY EmitFacts
<1>4. read' = IF again THEN read
              ELSE [d \in Decls |-> IF Decl(d).unit = u THEN ReadBy(n, d) ELSE read[d]]
  BY <1>1, <1>2
<1> QED
  BY <1>3, <1>4

(* What the other units' output is does not change. *)
LEMMA EmitFrame ==
    ASSUME Emit
    PROVE  /\ program' = program /\ component' = component /\ edges' = edges
           /\ UNCHANGED componentVars /\ UNCHANGED orderVars
           /\ phase = "sort" /\ pass = "done" /\ phase' \in {"written", "translate"}
           /\ phase' = "written" <=> todo' = {}
           /\ again' = (again \/ todo = {Job})
           /\ todo' = IF ~again /\ todo = {Job} THEN Units ELSE todo \ {Job}
           /\ modules' = IF todo' = {} THEN {File(out', Mates(u)) : u \in Units} ELSE modules
<1>1. UNCHANGED componentVars /\ UNCHANGED orderVars /\ program' = program
  BY DEF Emit
<1> QED
  BY <1>1 DEF Emit, componentVars

LEMMA TakenIsFinite ==
    ASSUME LayoutInv, Translating, NEW u \in Units
    PROVE  IsFiniteSet(Taken(u))
<1>1. IsProgram(program) /\ Grouped /\ IsFiniteSet(Decls) /\ DOMAIN out = Units
  BY LaidOut, ProgramFacts DEF LayoutInv, NamesInv
<1>2. /\ IsFiniteSet(Publics(u) \cup Foreign(u))
      /\ IsFiniteSet(UNION {Publics(v) : v \in Mates(u) \ {u}})
  <2>1. Publics(u) \cup Foreign(u) \in SUBSET Decls
    BY <1>1, OfFacts
  <2>2. UNION {Publics(v) : v \in Mates(u) \ {u}} \in SUBSET Decls
    BY <1>1, OfFacts
  <2> QED
    BY <1>1, <2>1, <2>2, FS_Subset
<1>3. IsFiniteSet(DeclaredBy(Earlier(u)))
  <2>1. Earlier(u) \subseteq Mates(u) /\ IsFiniteSet(Mates(u)) /\ Mates(u) \subseteq Units
    BY <1>1, MatesFacts DEF Earlier
  <2>2. IsFiniteSet(Earlier(u))
    BY <2>1, FS_Subset
  <2> DEFINE f == [v \in Earlier(u) |-> Range(out[v].called)]
  <2>3. DeclaredBy(Earlier(u)) = UNION Image(f, Earlier(u))
    BY DEF DeclaredBy, Image
  <2>4. ASSUME NEW v \in Earlier(u) PROVE IsFiniteSet(f[v])
    <3>1. IsFiniteSet(DOMAIN out[v].called)
      BY <1>1, <2>1 DEF LayoutInv, StoredInv
    <3>2. IsFiniteSet(Range(out[v].called))
      BY <3>1, FiniteRange
    <3> QED
      BY <3>2
  <2> HIDE DEF f
  <2>5. \A T \in Image(f, Earlier(u)) : IsFiniteSet(T)
    BY <2>4 DEF Image
  <2>6. IsFiniteSet(Image(f, Earlier(u)))
    BY <2>2, FiniteImage
  <2> QED
    BY <2>3, <2>5, <2>6, FS_UNION
<1>4. IsFiniteSet(AsInC(Publics(u) \cup Foreign(u)))
  BY <1>2, FiniteAsInC
<1>5. IsFiniteSet(AsInC(UNION {Publics(v) : v \in Mates(u) \ {u}}))
  BY <1>2, FiniteAsInC
<1>6. IsFiniteSet(Reserved(u))
  BY <1>3, <1>5, FS_Union DEF Reserved
<1> QED
  BY <1>4, <1>6, FS_Union DEF Taken

LEMMA EmitTodo == ASSUME LayoutInv, Emit, NEW u, NEW n, Emits(u, n) PROVE TodoInv' /\ todo' \subseteq Units
<1>1. /\ Translating /\ IsProgram(program) /\ Units # {} /\ Units \subseteq Nat
  BY EmitFacts, ProgramFacts
<1>2. /\ todo \subseteq Units /\ (~again => todo # {} /\ \A v \in todo : Clustered(v))
      /\ (again => \A v \in Units \ todo : \A w \in todo : v < w) /\ again \in BOOLEAN
  BY <1>1 DEF LayoutInv, TodoInv, StoredInv
<1>3. /\ phase' = "written" <=> todo' = {}
      /\ again' = (again \/ todo = {u})
      /\ todo' = IF ~again /\ todo = {u} THEN Units ELSE todo \ {u}
      /\ Units' = Units /\ \A v : Clustered(v)' <=> Clustered(v)
  BY EmitFrame, SameProgram, SameModules DEF Emits
<1>4. u \in todo /\ u \in Units /\ \A v \in todo \ {u} : Precedes(u, v)
  BY DEF Emits
<1>5. ~again' => todo' # {} /\ \A v \in todo' : Clustered(v)
  BY <1>2, <1>3, <1>4
<1>6. again' => \A v \in Units \ todo' : \A w \in todo' : v < w
  <2>1. CASE again
    <3>1. todo' = todo \ {u}
      BY <1>3, <2>1
    <3>2. \A w \in todo \ {u} : u < w
      BY <1>4, <2>1 DEF Precedes
    <3> QED
      BY <1>2, <2>1, <3>1, <3>2
  <2>2. CASE ~again /\ todo = {u}
    BY <1>3, <2>2
  <2>3. CASE ~again /\ todo # {u}
    BY <1>3, <2>3
  <2> QED
    BY <2>1, <2>2, <2>3
<1> QED
  BY <1>2, <1>3, <1>5, <1>6 DEF TodoInv

LEMMA EmitStored == ASSUME LayoutInv, Emit, NEW u, NEW n, Emits(u, n) PROVE StoredInv'
<1>1. /\ Translating /\ IsProgram(program) /\ DOMAIN out = Units /\ DOMAIN read = Decls
      /\ u \in Units /\ u = Job /\ n = Output(u) /\ DOMAIN out' = Units /\ out'[u] = n
      /\ \A v \in Units \ {u} : out'[v] = out[v]
  BY EmitFacts DEF Emits
<1>2. /\ n.called = Called(u) /\ n.objects = order /\ DOMAIN n.init = Owned(u)
  BY <1>1, OutputFacts
<1>3. IsFiniteSet(DOMAIN n.called) /\ Range(n.called) \subseteq Names
  <2>1. IsFiniteSet(Taken(u)) /\ IsFiniteSet(Of(u))
    BY <1>1, TakenIsFinite, OfFacts
  <2>2. PICK c : c = Called(u)
    OBVIOUS
  <2>3. DOMAIN Called(u) = Of(u)
    BY <1>1, <2>1, CalledFacts
  <2>4. \A d \in Of(u) : Called(u)[d] \in Names
    BY <1>1, <2>1, CalledFacts
  <2> QED
    BY <1>2, <2>1, <2>2, <2>3, <2>4 DEF Range
<1>4. Range(n.objects) = DOMAIN n.init
  <2>1. Objects = Owned(u)
    <3>1. deps = Dependencies(u, again)
      BY <1>1, EmitFrame DEF LayoutInv, SortInv
    <3> QED
      BY <3>1 DEF Objects, Dependencies
  <2>2. pass = "done" /\ OrderInv /\ TracedInv
    BY EmitFrame DEF LayoutInv
  <2>3. order \in Seq(Objects) /\ \A o \in Objects : \E k \in DOMAIN order : order[k] = o
    BY <2>2, OrderFacts
  <2>4. PICK S, s : S = Objects /\ s = order
    OBVIOUS
  <2>5. s \in Seq(S) /\ \A o \in S : \E k \in DOMAIN s : s[k] = o
    BY <2>3, <2>4
  <2>6. Range(s) = S
    BY <2>5 DEF Range
  <2> QED
    BY <1>2, <2>1, <2>4, <2>6
<1>5. \A d \in Decls : read'[d] \subseteq Decl(d).refs
  <2>1. \A d \in Decls : ReadBy(n, d) \subseteq Decl(d).refs /\ read[d] \subseteq Decl(d).refs
    BY <1>1 DEF LayoutInv, StoredInv, ReadBy
  <2>2. /\ again => read' = read
        /\ ~again => \A d \in Decls : read'[d] = IF Decl(d).unit = u THEN ReadBy(n, d) ELSE read[d]
    BY EmitReads
  <2> QED
    BY <2>1, <2>2
<1>6. DOMAIN read' = Decls
  BY EmitReads
<1>7. Units' = Units /\ Decls' = Decls /\ \A d : Decl(d)' = Decl(d)
  BY EmitFrame, SameProgram
<1>8. \A v \in Units : /\ IsFiniteSet(DOMAIN out'[v].called) /\ Range(out'[v].called) \subseteq Names
                       /\ Range(out'[v].objects) = DOMAIN out'[v].init
  BY <1>1, <1>3, <1>4 DEF LayoutInv, StoredInv
<1>9. todo' \subseteq Units
  BY EmitTodo
<1> QED
  BY <1>1, <1>5, <1>6, <1>7, <1>8, <1>9 DEF StoredInv, Names

(* The names of the unit join those of the units before it. *)
LEMMA EmitNames == ASSUME LayoutInv, Emit, NEW u, NEW n, Emits(u, n) PROVE NamesInv'
<1>1. /\ Translating /\ IsProgram(program) /\ Grouped /\ DOMAIN out = Units /\ Units \subseteq Nat
      /\ u \in Units /\ u \in todo /\ DOMAIN out' = Units /\ out'[u] = n /\ n = Output(u)
      /\ \A v \in Units \ {u} : out'[v] = out[v]
  BY EmitFacts, ProgramFacts DEF Emits
<1>2. Units' = Units /\ program' = program /\ component' = component
  BY EmitFrame, SameProgram
<1>3. ASSUME again', NEW w \in Units \ todo' PROVE NamesOf(w, out[w].called)'
  <2>1. again /\ todo' = todo \ {u}
    BY <1>1, <1>3, EmitFrame DEF Emits
  <2>2. Earlier(w) \subseteq Units /\ \A v \in Earlier(w) : v < w
    BY DEF Earlier, Mates
  <2>3. CASE w # u
    <3>1. w \in Units \ todo
      BY <1>3, <2>1, <2>3
    <3>2. w < u
      BY <1>1, <2>1, <3>1 DEF LayoutInv, TodoInv
    <3>3. \A v \in Earlier(w) : v # u
      BY <1>1, <2>2, <3>1, <3>2
    <3>4. \A v \in Earlier(w) : out'[v] = out[v]
      BY <1>1, <2>2, <3>3
    <3>5. \A f : NamesOf(w, f)' <=> NamesOf(w, f)
      BY <1>2, <3>4, SameNames
    <3>6. PICK f : f = out[w].called /\ f = out'[w].called
      BY <1>1, <2>3
    <3>7. NamesOf(w, f)
      BY <1>1, <2>1, <3>1, <3>6 DEF LayoutInv, NamesInv
    <3> QED
      BY <3>5, <3>6, <3>7
  <2>4. CASE w = u
    <3>1. \A v \in Earlier(u) : out'[v] = out[v]
      BY <1>1, <2>2, <2>4
    <3>2. \A f : NamesOf(u, f)' <=> NamesOf(u, f)
      BY <1>2, <3>1, SameNames
    <3>3. PICK f : f = Called(u)
      OBVIOUS
    <3>4. NamesOf(u, Called(u))
      <4>1. IsFiniteSet(Taken(u))
        BY <1>1, TakenIsFinite
      <4>2. DOMAIN Called(u) = Of(u)
        BY <1>1, <4>1, CalledFacts
      <4>3. \A d \in Publics(u) : Called(u)[d] = <<Decl(d).name, 0>>
        BY <1>1, <4>1, CalledFacts
      <4>4. \A d \in Of(u) \ Publics(u) :
                /\ Called(u)[d] \notin Taken(u)
                /\ \A e \in Of(u) : e < d => Called(u)[d] # Called(u)[e]
        BY <1>1, <4>1, CalledFacts
      <4> QED
        BY <4>2, <4>3, <4>4 DEF NamesOf
    <3>5. NamesOf(u, f)'
      BY <3>2, <3>3, <3>4
    <3>6. out'[w].called = f
      BY <1>1, <2>4, <3>3, OutputFacts
    <3> QED
      BY <2>4, <3>5, <3>6
  <2> QED
    BY <2>3, <2>4
<1> QED
  BY <1>1, <1>2, <1>3 DEF NamesInv

(* The objects of the unit are sorted by what the second pass knows. *)
LEMMA EmitObjects == ASSUME LayoutInv, Emit, NEW u, NEW n, Emits(u, n) PROVE ObjectsInv'
<1>1. /\ Translating /\ DOMAIN out = Units /\ u \in Units /\ u \in todo /\ u = Job /\ out'[u] = n /\ n = Output(u)
      /\ \A v \in Units \ {u} : out'[v] = out[v]
  BY EmitFacts DEF Emits
<1>2. Units' = Units /\ program' = program /\ component' = component /\ phase = "sort" /\ pass = "done"
  BY EmitFrame, SameProgram
<1>3. SUFFICES ASSUME again', NEW w \in Units \ todo'
               PROVE  (\E cy \in SUBSET Owned(w) : SortedBy(w, Dependencies(w, TRUE), cy))'
  BY <1>2 DEF ObjectsInv
<1>4. again /\ todo' = todo \ {u} /\ read' = read
  BY <1>1, <1>3, EmitFrame, EmitReads DEF Emits
<1>5. Owned(w)' = Owned(w) /\ \A v, second : Dependencies(v, second)' = Dependencies(v, second)
  BY <1>2, <1>4, SameProgram, SameReads
<1>6. PICK f : f = Dependencies(w, TRUE) /\ f = Dependencies(w, TRUE)'
  BY <1>5
<1>7. CASE w # u
  <2>1. w \in Units \ todo /\ out'[w] = out[w]
    BY <1>1, <1>3, <1>4, <1>7
  <2>2. PICK cy \in SUBSET Owned(w) : SortedBy(w, Dependencies(w, TRUE), cy)
    BY <1>1, <1>4, <2>1 DEF LayoutInv, ObjectsInv
  <2>3. SortedBy(w, f, cy)'
    BY <1>2, <1>6, <2>1, <2>2, SameSorted
  <2> QED
    BY <1>5, <1>6, <2>3
<1>8. CASE w = u
  <2>1. deps = f
    BY <1>1, <1>2, <1>4, <1>6, <1>8 DEF LayoutInv, SortInv
  <2>2. Objects = Owned(u) /\ Owned(u)' = Owned(u)
    BY <1>5, <1>6, <1>8, <2>1 DEF Objects, Dependencies
  <2>3. /\ n.objects = order /\ DOMAIN n.init = Owned(u)
        /\ \A o \in Owned(u) : n.init[o] = Printed(u, o)
    BY <1>1, OutputFacts
  <2>4. PICK s, os, cy : s = order /\ os = Owned(u) /\ cy = cyclic
    OBVIOUS
  <2>5. cy \subseteq os
    BY <2>2, <2>4 DEF LayoutInv, OrderInv, OrderTypeOK
  <2>6. Sequenced(s, os, f, cy)
    <3>1. OrderInv /\ TracedInv
      BY DEF LayoutInv
    <3>2. order \in Seq(Objects)
      BY <1>2, <3>1, OrderFacts
    <3>3. \A o \in Objects : \E k \in DOMAIN order : order[k] = o
      BY <1>2, <3>1, OrderFacts
    <3>4. \A j, k \in DOMAIN order : order[j] = order[k] => j = k
      BY <1>2, <3>1, OrderFacts
    <3>5. \A o \in Objects \ cyclic : \A d \in deps[o] : d \notin cyclic /\ IsBefore(d, o)
      BY <1>2, <3>1, OrderFacts
    <3>6. \A d, o : IsBefore(d, o) <=> Before(order, d, o)
      BY DEF IsBefore, Before
    <3>7. \A o \in os \ cy : \A d \in f[o] : d \notin cy /\ Before(s, d, o)
      BY <2>1, <2>2, <2>4, <3>5, <3>6
    <3>8. s \in Seq(os) /\ (\A o \in os : \E k \in DOMAIN s : s[k] = o)
          /\ \A j, k \in DOMAIN s : s[j] = s[k] => j = k
      BY <2>2, <2>4, <3>2, <3>3, <3>4
    <3> QED
      BY <3>7, <3>8 DEF Sequenced
  <2>7. \A o \in os :
            /\ n.init[o] = "inline" <=> Initialized(o) /\ o \notin cy /\ Storage(o) # "in place"
            /\ n.init[o] = "inline" => \A d \in f[o] : n.init[d] # "none"
            /\ n.init[o] = "none" /\ Clustered(u) => Decl(o).form = "array"
    <3> TAKE o \in os
    <3>1. Printed(u, o) = "inline" <=> Initialized(o) /\ o \notin cyclic /\ Storage(o) # "in place"
      BY <1>1, <1>2, <2>4, PrintedFacts
    <3>2. Printed(u, o) = "inline" => \A d \in deps[o] : Printed(u, d) # "none"
      BY <1>1, <1>2, <2>4, PrintedFacts
    <3>3. Printed(u, o) = "none" /\ Clustered(u) => Decl(o).form = "array"
      BY <1>1, <1>2, <2>4, PrintedFacts
    <3>4. deps[o] \subseteq os
      BY <2>2, <2>4, ObjectsAreNumbers DEF LayoutInv, OrderInv
    <3> QED
      BY <2>1, <2>3, <2>4, <3>1, <3>2, <3>3, <3>4
  <2>8. /\ Owned(u)' = os /\ \A o : (Initialized(o)' <=> Initialized(o)) /\ Storage(o)' = Storage(o)
        /\ \A o : Decl(o)' = Decl(o)
        /\ (Clustered(u)' <=> Clustered(u))
    BY <1>2, <2>2, <2>4, SameProgram, SameModules
  <2>9. SortedBy(u, f, cy)'
    <3>1. out'[u].objects = s /\ DOMAIN out'[u].init = os /\ out'[u] = n
      BY <1>1, <2>3, <2>4
    <3> QED
      BY <2>6, <2>7, <2>8, <3>1 DEF SortedBy
  <2> QED
    BY <1>6, <1>8, <2>4, <2>5, <2>8, <2>9
<1> QED
  BY <1>7, <1>8

(* After the first pass every cluster's reads are known. *)
LEMMA EmitRead == ASSUME LayoutInv, Emit, NEW u, NEW n, Emits(u, n) PROVE ReadInv'
<1>1. /\ Translating /\ IsProgram(program) /\ DOMAIN read = Decls
      /\ u \in Units /\ u \in todo /\ u = Job /\ n = Output(u)
  BY EmitFacts DEF Emits
<1>2. /\ Units' = Units /\ Decls' = Decls /\ program' = program /\ component' = component
      /\ phase = "sort" /\ pass = "done"
      /\ \A v : Of(v)' = Of(v) /\ (Clustered(v)' <=> Clustered(v))
      /\ \A d : Decl(d)' = Decl(d) /\ (IsObject(d)' <=> IsObject(d)) /\ Storage(d)' = Storage(d)
      /\ \A v : Dependencies(v, FALSE)' = Dependencies(v, FALSE)
  BY EmitFrame, SameProgram, SameModules
<1>3. /\ DOMAIN read' = Decls /\ (again => read' = read)
      /\ ~again => \A d \in Decls : read'[d] = IF Decl(d).unit = u THEN ReadBy(n, d) ELSE read[d]
  BY EmitReads
<1>4. ASSUME NEW v, NEW d, read'[d] = read[d], Known(v, d) PROVE Known(v, d)'
  <2>1. PICK f : f = Dependencies(v, FALSE) /\ f = Dependencies(v, FALSE)'
    BY <1>2
  <2> QED
    BY <1>2, <1>4, <2>1 DEF Known
<1>5. ASSUME NEW v \in Units, Clustered(v), again' \/ v \notin todo', NEW d \in Of(v) PROVE Known(v, d)'
  <2>1. d \in Decls /\ Decl(d).unit = v
    BY <1>1, OfFacts
  <2>2. CASE again
    <3>1. Known(v, d)
      BY <1>1, <1>5, <2>2 DEF LayoutInv, ReadInv
    <3> QED
      BY <1>3, <1>4, <2>2, <3>1
  <2>3. CASE ~again /\ v # u
    <3>1. v \notin todo
      BY <1>1, <1>5, <2>3, EmitFrame
    <3>2. Known(v, d)
      BY <1>1, <1>5, <3>1 DEF LayoutInv, ReadInv
    <3>3. read'[d] = read[d]
      BY <1>3, <2>1, <2>3
    <3> QED
      BY <1>4, <3>2, <3>3
  <2>4. CASE ~again /\ v = u
    <3>1. read'[d] = IF IsObject(d) /\ n.init[d] # "inline" THEN {} ELSE Decl(d).refs
      BY <1>3, <2>1, <2>4 DEF ReadBy
    <3>2. CASE ~(IsObject(d) /\ n.init[d] # "inline")
      <4>1. read'[d] = Decl(d)'.refs
        BY <1>2, <3>1, <3>2
      <4> QED
        BY <4>1 DEF Known
    <3>3. CASE IsObject(d) /\ n.init[d] # "inline"
      <4>1. d \in Owned(u) /\ n.init[d] = Printed(u, d)
        BY <1>1, <1>5, <2>4, <3>3, OutputFacts DEF Owned
      <4>2. ~Initialized(d) \/ d \in cyclic \/ Storage(d) = "in place"
        BY <1>1, <1>2, <3>3, <4>1, PrintedFacts
      <4>3. CASE ~Initialized(d)
        <5>1. read'[d] = Decl(d)'.refs
          BY <1>2, <3>1, <3>3, <4>3 DEF Initialized
        <5> QED
          BY <5>1 DEF Known
      <4>4. CASE Storage(d) = "in place"
        BY <1>2, <3>3, <4>4 DEF Known
      <4>5. CASE d \in cyclic
        <5>1. PICK f : f = Dependencies(u, FALSE) /\ f = Dependencies(u, FALSE)'
          BY <1>2
        <5>2. deps = f
          <6>1. deps = Dependencies(u, again)
            BY <1>1, <1>2 DEF LayoutInv, SortInv
          <6>2. again = FALSE
            BY <2>4 DEF LayoutInv
          <6> QED
            BY <5>1, <6>1, <6>2
        <5>3. Circles(d)
          BY <1>2, <4>5, OrderFacts DEF LayoutInv
        <5>4. InCircle(f, d)
          BY <5>2, <5>3 DEF Circles, InCircle, Objects
        <5> QED
          BY <1>2, <2>4, <3>3, <5>1, <5>4 DEF Known
      <4> QED
        BY <4>2, <4>3, <4>4, <4>5
    <3> QED
      BY <3>2, <3>3
  <2> QED
    BY <2>2, <2>3, <2>4
<1> QED
  BY <1>2, <1>3, <1>5 DEF ReadInv

LEMMA EmitFile == ASSUME LayoutInv, Emit, NEW u, NEW n, Emits(u, n) PROVE FileInv'
<1>1. SUFFICES ASSUME phase' = "written" PROVE FileInv'
  BY DEF FileInv
<1>2. /\ todo' = {} /\ modules' = {File(out', Mates(v)) : v \in Units}
      /\ program' = program /\ component' = component
  BY <1>1, EmitFrame
<1>3. Units # {}
  BY EmitFacts, ProgramFacts
<1>4. again
  <2>1. ~(~again /\ todo = {Job})
    BY <1>2, <1>3, EmitFrame
  <2>2. todo = {Job}
    BY <1>2, <2>1, EmitFrame DEF Emits
  <2> QED
    BY <2>1, <2>2
<1>5. read' = read
  BY <1>4, EmitReads
<1>6. PICK outs : outs = out'
  OBVIOUS
<1>7. \A us : File(outs, us)' = File(outs, us)
  BY <1>2, <1>5, SameFiles
<1>8. Units' = Units /\ \A v : Mates(v)' = Mates(v)
  BY <1>2, SameProgram, SameModules
<1> QED
  BY <1>2, <1>6, <1>7, <1>8 DEF FileInv

LEMMA EmitKeeps == ASSUME LayoutInv, Emit PROVE LayoutInv'
<1>1. PICK u, n : Emits(u, n)
  BY EmitFacts
<1>2. StoredInv' /\ TodoInv' /\ NamesInv' /\ ObjectsInv' /\ ReadInv' /\ FileInv'
  BY <1>1, EmitStored, EmitTodo, EmitNames, EmitObjects, EmitRead, EmitFile
<1>3. /\ program' = program /\ component' = component /\ edges' = edges
      /\ UNCHANGED componentVars /\ UNCHANGED orderVars
      /\ phase = "sort" /\ phase' \in {"written", "translate"}
      /\ again' = (again \/ todo = {Job})
  BY EmitFrame
<1>4. ComponentsInv' /\ OrderInv' /\ TracedInv'
  BY <1>3, ComponentsStutter, InvInductive, TracedInductive DEF LayoutInv
<1>5. SearchInv'
  <2>1. AllVisited' <=> AllVisited
    BY <1>3 DEF AllVisited, componentVars, Nodes
  <2>2. /\ LinkGraph' = LinkGraph /\ (Accepted' <=> Accepted)
        /\ (NameTaken' <=> NameTaken) /\ (EntryNeeded' <=> EntryNeeded)
    BY <1>3, SameProgram, SameModules
  <2>3. Translating /\ SearchInv
    BY <1>3 DEF LayoutInv, Translating
  <2> QED
    BY <1>3, <2>1, <2>2, <2>3 DEF SearchInv
<1>6. SortInv'
  BY <1>3 DEF SortInv
<1>7. program' \in Programs /\ again' \in BOOLEAN
  BY <1>3 DEF LayoutInv
<1> QED
  BY <1>2, <1>3, <1>4, <1>5, <1>6, <1>7 DEF LayoutInv

-----------------------------------------------------------------------------
LEMMA LayoutInductive == LayoutInv /\ [Next]_vars => LayoutInv'
<1> SUFFICES ASSUME LayoutInv, [Next]_vars PROVE LayoutInv'
  OBVIOUS
<1>1. CASE Link
  BY <1>1, LinkKeeps
<1>2. CASE Search
  BY <1>2, SearchKeeps
<1>3. CASE Cluster
  BY <1>3, ClusterKeeps
<1>4. CASE Translate
  BY <1>4, TranslateKeeps
<1>5. CASE Sort
  BY <1>5, SortKeeps
<1>6. CASE Emit
  BY <1>6, EmitKeeps
<1>7. CASE UNCHANGED vars
  BY <1>7, StutterStays
<1> QED
  BY <1>1, <1>2, <1>3, <1>4, <1>5, <1>6, <1>7 DEF Next

LEMMA InvSorts == LayoutInv => DependenciesFirst
BY InvOrders DEF LayoutInv

-----------------------------------------------------------------------------
(* The invariant holds, for every program. *)
THEOREM LayoutInvariant == Spec => []LayoutInv
BY InvAtFirst, LayoutInductive, PTL DEF Spec

(* For every program the state keeps its types, the search and the sorting  *)
(* theirs; every printed object has an initializer recorded, and no more is *)
(* found to be read than the source refers to.                              *)
THEOREM LayoutTypeCorrect == Spec => []TypeOK
BY LayoutInvariant, InvTypeOK, PTL

(* For every program that is not refused: the modules are the circles of    *)
(* units and have names of their own, their fragments declare no name       *)
(* twice, none requires the one with main, and every use finds what C binds *)
(* it to unless a static of another fragment has its name (link_units).     *)
THEOREM ProgramLinks == Spec => []Linked
BY LayoutInvariant, InvLinked, PTL

(* For every program that is not refused: what an initializer reads, in its *)
(* own fragment or through those of its module, has an initializer and      *)
(* comes first, and none runs in a circle; but for arrays of other          *)
(* fragments and fragments that have no order (include_order).              *)
THEOREM ProgramLoads == Spec => []Loads
BY LayoutInvariant, InvLoads, PTL

(* Each translation of each unit sorts the objects so that what is          *)
(* initialized in place follows what it reaches (order_value_declarations). *)
THEOREM FragmentsOrdered == Spec => []DependenciesFirst
BY LayoutInvariant, InvSorts, PTL
=============================================================================
