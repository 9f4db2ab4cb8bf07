---------------------------- MODULE DataInduction ----------------------------
(***************************************************************************)
(* Induction over the natural numbers and over finite sets, stated for     *)
(* sets, and what it gives for functions that recur along a sequence and   *)
(* for sums over finite sets.                                              *)
(***************************************************************************)
EXTENDS Integers, Sequences, SequencesExt, SequenceTheorems, WellFoundedInduction,
        FiniteSetTheorems, TLAPS

LEMMA LeastNatural ==
  ASSUME NEW S, S \subseteq Nat, S # {}
  PROVE  \E n \in S : \A m \in S : ~(m < n)
<1>1. \E n \in S : \A m \in S : <<m, n>> \notin OpToRel(<, Nat)
  BY NatLessThanWellFounded, WFMin
<1>2. \A m, n \in Nat : <<m, n>> \in OpToRel(<, Nat) <=> m < n
  BY DEF OpToRel
<1>. QED
  BY <1>1, <1>2

LEMMA SetInduction ==
  ASSUME NEW S, 0 \in S, \A n \in Nat : n \in S => n + 1 \in S
  PROVE  Nat \subseteq S
<1>1. SUFFICES ASSUME Nat \ S # {} PROVE FALSE
  OBVIOUS
<1>2. PICK n \in Nat \ S : \A m \in Nat \ S : ~(m < n)
  BY <1>1, LeastNatural
<1>3. n # 0 /\ n - 1 \in Nat /\ n - 1 < n
  BY <1>2
<1>4. n - 1 \in S
  BY <1>2, <1>3
<1>. QED
  BY <1>2, <1>3, <1>4

(* FlattenSeq appends one sequence after the other.                        *)
LEMMA FlattenSteps ==
  ASSUME NEW S, NEW seqs \in Seq(Seq(S)), Len(seqs) > 0
  PROVE  \E f : /\ f[1] = seqs[1]
                /\ \A i \in 2 .. Len(seqs) : f[i] = f[i - 1] \o seqs[i]
                /\ FlattenSeq(seqs) = f[Len(seqs)]
<1> DEFINE Steps(f, n) == f = [i \in 1 .. n |-> IF i = 1 THEN seqs[i] ELSE f[i - 1] \o seqs[i]]
           Possible == {n \in Nat : \E f : Steps(f, n)}
<1>1. 0 \in Possible
  <2>1. Steps([i \in 1 .. 0 |-> seqs[i]], 0)
    OBVIOUS
  <2>. QED
    BY <2>1
<1>2. ASSUME NEW n \in Nat, n \in Possible PROVE n + 1 \in Possible
  <2>1. PICK f : Steps(f, n)
    BY <1>2
  <2> DEFINE last == IF n = 0 THEN seqs[1] ELSE f[n] \o seqs[n + 1]
             g    == [i \in 1 .. n + 1 |-> IF i = n + 1 THEN last ELSE f[i]]
  <2>2. ASSUME NEW i \in 1 .. n + 1
        PROVE  g[i] = IF i = 1 THEN seqs[i] ELSE g[i - 1] \o seqs[i]
    <3>1. CASE i = n + 1
      BY <3>1
    <3>2. CASE i # n + 1
      <4>1. i \in 1 .. n /\ (i # 1 => i - 1 \in 1 .. n /\ i - 1 \in 1 .. n + 1 /\ i - 1 # n + 1)
        BY <3>2
      <4>2. f[i] = IF i = 1 THEN seqs[i] ELSE f[i - 1] \o seqs[i]
        BY <2>1, <4>1
      <4>. QED
        BY <3>2, <4>1, <4>2
    <3>. QED
      BY <3>1, <3>2
  <2>3. Steps(g, n + 1)
    BY <2>2
  <2>. HIDE DEF g, Steps
  <2>. QED
    BY <2>3
<1>3. Len(seqs) \in Nat
  BY LenProperties
<1>4. Len(seqs) \in Possible
  <2>. HIDE DEF Possible
  <2>. QED
    BY <1>1, <1>2, <1>3, SetInduction
<1> DEFINE F == CHOOSE f : Steps(f, Len(seqs))
<1>5. Steps(F, Len(seqs))
  BY <1>4
<1>6. FlattenSeq(seqs) = F[Len(seqs)]
  BY <1>3 DEF FlattenSeq
<1>7. F[1] = seqs[1] /\ \A i \in 2 .. Len(seqs) : F[i] = F[i - 1] \o seqs[i]
  <2>. HIDE DEF F
  <2>1. \A i \in 1 .. Len(seqs) : F[i] = IF i = 1 THEN seqs[i] ELSE F[i - 1] \o seqs[i]
    BY <1>5
  <2>2. 1 \in 1 .. Len(seqs) /\ \A i \in 2 .. Len(seqs) : i \in 1 .. Len(seqs) /\ i # 1
    BY <1>3
  <2>. HIDE DEF Steps, Possible
  <2>3. F[1] = seqs[1]
    BY <2>1, <2>2
  <2>4. ASSUME NEW i \in 2 .. Len(seqs) PROVE F[i] = F[i - 1] \o seqs[i]
    BY <2>1, <2>2
  <2>. QED
    BY <2>3, <2>4
<1>. QED
  BY <1>6, <1>7

-----------------------------------------------------------------------------
(* What holds of a set whenever it holds of its proper subsets, holds of a *)
(* finite set: F is the set of those of which it holds.                    *)
LEMMA SubsetInduction ==
  ASSUME NEW S, IsFiniteSet(S), NEW F,
         \A T \in SUBSET S : (\A U \in SUBSET T : U # T => U \in F) => T \in F
  PROVE  \A T \in SUBSET S : T \in F
<1> DEFINE Sizes == {n \in Nat : \A T \in SUBSET S : Cardinality(T) < n => T \in F}
<1>1. \A T \in SUBSET S : IsFiniteSet(T) /\ Cardinality(T) \in Nat
  BY FS_Subset, FS_CardinalityType
<1>2. 0 \in Sizes
  BY <1>1
<1>3. ASSUME NEW n \in Nat, n \in Sizes PROVE n + 1 \in Sizes
  <2>1. ASSUME NEW T \in SUBSET S, Cardinality(T) < n + 1 PROVE T \in F
    <3>1. ASSUME NEW U \in SUBSET T, U # T PROVE U \in F
      <4>1. IsFiniteSet(T)
        BY <1>1
      <4>2. Cardinality(U) <= Cardinality(T) /\ Cardinality(T) # Cardinality(U)
        BY <3>1, <4>1, FS_Subset
      <4>3. U \in SUBSET S
        OBVIOUS
      <4>4. Cardinality(U) < n
        BY <1>1, <2>1, <4>2, <4>3
      <4>. QED
        BY <1>3, <4>3, <4>4
    <3>. QED
      BY <3>1
  <2>. QED
    BY <2>1
<1>4. ASSUME NEW T \in SUBSET S PROVE T \in F
  <2>1. Nat \subseteq Sizes
    <3>. HIDE DEF Sizes
    <3>. QED
      BY <1>2, <1>3, SetInduction
  <2>2. Cardinality(T) + 1 \in Sizes
    BY <1>1, <2>1
  <2>. QED
    BY <1>1, <2>2
<1>. QED
  BY <1>4

-----------------------------------------------------------------------------
(* The element of a set that folding takes in.                              *)
OneOf(s) == CHOOSE x \in s : TRUE

LEMMA OneOfIs ==
  \A s : s # {} => OneOf(s) \in s
BY DEF OneOf

(* The recursion by which SumFunctionOnSet adds up f over the sets in D.   *)
AddsUp(g, f, D) ==
  g = [s \in D |-> IF s = {} THEN 0 ELSE f[OneOf(s)] + g[s \ {OneOf(s)}]]

LEMMA SumIs ==
  ASSUME NEW f, NEW S
  PROVE  SumFunctionOnSet(f, S) = (CHOOSE g : AddsUp(g, f, SUBSET S))[S]
BY DEF SumFunctionOnSet, FoldFunctionOnSet, MapThenFoldSet, AddsUp, OneOf

LEMMA AddsUpAt ==
  ASSUME NEW f, NEW D, NEW g, AddsUp(g, f, D)
  PROVE  \A s \in D : g[s] = IF s = {} THEN 0 ELSE f[OneOf(s)] + g[s \ {OneOf(s)}]
BY DEF AddsUp

(* There is a function that recurs so on the subsets of a finite set.      *)
LEMMA AddsUpExists ==
  ASSUME NEW f, NEW S, IsFiniteSet(S)
  PROVE  \E g : AddsUp(g, f, SUBSET S)
<1> DEFINE Small(n) == {s \in SUBSET S : Cardinality(s) <= n}
           Possible == {n \in Nat : \E g : AddsUp(g, f, Small(n))}
<1>1. \A s \in SUBSET S : IsFiniteSet(s) /\ Cardinality(s) \in Nat
                          /\ Cardinality(s) <= Cardinality(S)
  BY FS_Subset, FS_CardinalityType
<1>2. \A s \in SUBSET S : Cardinality(s) = 0 <=> s = {}
  BY <1>1, FS_EmptySet
<1>3. 0 \in Possible
  <2> DEFINE g == [s \in Small(0) |-> 0]
  <2>1. \A s \in Small(0) : s = {}
    BY <1>1, <1>2
  <2>2. AddsUp(g, f, Small(0))
    BY <2>1 DEF AddsUp
  <2>. QED
    BY <2>2
<1>4. ASSUME NEW n \in Nat, n \in Possible PROVE n + 1 \in Possible
  <2>1. PICK g : AddsUp(g, f, Small(n))
    BY <1>4
  <2> DEFINE Rest(s) == s \ {OneOf(s)}
             h == [s \in Small(n + 1) |->
                     IF s = {} THEN 0 ELSE f[OneOf(s)] + g[Rest(s)]]
  <2>2. ASSUME NEW s \in Small(n + 1), s # {} PROVE h[Rest(s)] = g[Rest(s)]
    <3>1. (OneOf(s)) \in s
      BY <2>2, OneOfIs
    <3>2. IsFiniteSet(s) /\ s \in SUBSET S
      BY <1>1
    <3>3. Cardinality(Rest(s)) = Cardinality(s) - 1
      BY <3>1, <3>2, FS_RemoveElement
    <3>4. Rest(s) \in Small(n) /\ Rest(s) \in Small(n + 1)
      BY <1>1, <3>2, <3>3
    <3> DEFINE r == Rest(s)
    <3>5. r \in Small(n) /\ r \in Small(n + 1)
      BY <3>4
    <3>. HIDE DEF r
    <3>6. g[r] = IF r = {} THEN 0 ELSE f[OneOf(r)] + g[Rest(r)]
      BY <2>1, <3>5, AddsUpAt
    <3>7. h[r] = IF r = {} THEN 0 ELSE f[OneOf(r)] + g[Rest(r)]
      BY <3>5
    <3>. QED
      BY <3>6, <3>7 DEF r
  <2>3. \A s \in Small(n + 1) : h[s] =
          IF s = {} THEN 0 ELSE f[OneOf(s)] + h[Rest(s)]
    BY <2>2
  <2>4. AddsUp(h, f, Small(n + 1))
    <3>1. h = [s \in Small(n + 1) |-> h[s]]
      OBVIOUS
    <3>. HIDE DEF h
    <3>2. h = [s \in Small(n + 1) |->
                 IF s = {} THEN 0 ELSE f[OneOf(s)] + h[Rest(s)]]
      BY <2>3, <3>1
    <3>. QED
      BY <3>2 DEF AddsUp
  <2>. QED
    <3>. HIDE DEF h, Small
    <3>. QED
      BY <2>4
<1>5. Cardinality(S) \in Possible
  <2>1. Nat \subseteq Possible
    <3>. HIDE DEF Possible
    <3>. QED
      BY <1>3, <1>4, SetInduction
  <2>. QED
    BY <1>1, <2>1
<1>6. Small(Cardinality(S)) = SUBSET S
  BY <1>1
<1>. QED
  BY <1>5, <1>6

AddsUpBelow(g, f, S) == AddsUp(g, f, SUBSET S)

(* Over the subsets they share, two such functions agree.                  *)
LEMMA AddsUpOnce ==
  ASSUME NEW f, NEW S, NEW T \in SUBSET S, IsFiniteSet(S),
         NEW g, AddsUpBelow(g, f, S), NEW h, AddsUpBelow(h, f, T)
  PROVE  g[T] = h[T]
<1> DEFINE Same == {s \in SUBSET T : g[s] = h[s]}
<1>1. ASSUME NEW s \in SUBSET T, \A u \in SUBSET s : u # s => u \in Same
      PROVE  s \in Same
  <2>1. g[s] = IF s = {} THEN 0 ELSE f[OneOf(s)] + g[s \ {OneOf(s)}]
    <3>1. \A t \in SUBSET S : g[t] = IF t = {} THEN 0 ELSE f[OneOf(t)] + g[t \ {OneOf(t)}]
      BY AddsUpAt DEF AddsUpBelow
    <3>. QED
      BY <3>1
  <2>2. h[s] = IF s = {} THEN 0 ELSE f[OneOf(s)] + h[s \ {OneOf(s)}]
    BY AddsUpAt DEF AddsUpBelow
  <2>3. CASE s = {}
    BY <2>1, <2>2, <2>3
  <2>4. CASE s # {}
    <3>1. OneOf(s) \in s
      BY <2>4, OneOfIs
    <3>2. g[s \ {OneOf(s)}] = h[s \ {OneOf(s)}]
      BY <1>1, <3>1
    <3>. QED
      BY <2>1, <2>2, <2>4, <3>2
  <2>. QED
    BY <2>3, <2>4
<1>2. IsFiniteSet(T)
  BY FS_Subset
<1>3. \A s \in SUBSET T : s \in Same
  <2>. HIDE DEF Same
  <2>. QED
    BY <1>1, <1>2, SubsetInduction
<1>. QED
  BY <1>3

(* A sum takes in one element after the other.                             *)
LEMMA SumSteps ==
  ASSUME NEW f, NEW S, IsFiniteSet(S)
  PROVE  /\ S = {} => SumFunctionOnSet(f, S) = 0
         /\ S # {} => \E x \in S : SumFunctionOnSet(f, S) =
                                     f[x] + SumFunctionOnSet(f, S \ {x})
<1> DEFINE F(T) == CHOOSE g : AddsUp(g, f, SUBSET T)
           x == OneOf(S)
<1>1. AddsUp(F(S), f, SUBSET S) /\ AddsUp(F(S \ {x}), f, SUBSET (S \ {x}))
  <2>1. IsFiniteSet(S \ {x})
    BY FS_RemoveElement
  <2>. QED
    BY <2>1, AddsUpExists
<1>2. /\ SumFunctionOnSet(f, S) = F(S)[S]
      /\ SumFunctionOnSet(f, S \ {x}) = F(S \ {x})[S \ {x}]
  BY SumIs
<1>. HIDE DEF F
<1>3. F(S)[S] = IF S = {} THEN 0 ELSE f[x] + F(S)[S \ {x}]
  BY <1>1, AddsUpAt
<1>4. F(S)[S \ {x}] = F(S \ {x})[S \ {x}]
  <2> DEFINE T == S \ {x}
             g == F(S)
             h == F(T)
  <2>1. T \in SUBSET S /\ AddsUpBelow(g, f, S) /\ AddsUpBelow(h, f, T)
    BY <1>1 DEF AddsUpBelow
  <2>. HIDE DEF T, g, h
  <2>2. g[T] = h[T]
    BY <2>1, AddsUpOnce
  <2>. QED
    BY <2>2 DEF T, g, h
<1>5. S # {} => x \in S
  BY OneOfIs
<1>. HIDE DEF x
<1>. QED
  BY <1>2, <1>3, <1>4, <1>5

Total(f, S) == SumFunctionOnSet(f, S)

LEMMA SumInteger ==
  ASSUME NEW f, NEW S, IsFiniteSet(S), \A x \in S : f[x] \in Int
  PROVE  Total(f, S) \in Int
<1> DEFINE F == {T \in SUBSET S : Total(f, T) \in Int}
<1>1. ASSUME NEW T \in SUBSET S, \A U \in SUBSET T : U # T => U \in F PROVE T \in F
  <2>1. IsFiniteSet(T)
    BY FS_Subset
  <2>2. CASE T = {}
    BY <2>1, <2>2, SumSteps DEF Total
  <2>3. CASE T # {}
    <3>1. PICK x \in T : Total(f, T) = f[x] + Total(f, T \ {x})
      BY <2>1, <2>3, SumSteps DEF Total
    <3>2. T \ {x} \in F
      BY <1>1
    <3>. QED
      BY <3>1, <3>2
  <2>. QED
    BY <2>2, <2>3
<1>2. \A T \in SUBSET S : T \in F
  <2>. HIDE DEF F
  <2>. QED
    BY <1>1, SubsetInduction
<1>. QED
  BY <1>2

(* The order does not matter: any element may be taken in last.            *)
LEMMA SumTakesOut ==
  ASSUME NEW f, NEW S, IsFiniteSet(S), \A x \in S : f[x] \in Int, NEW y \in S
  PROVE  Total(f, S) = f[y] + Total(f, S \ {y})
<1> DEFINE F == {T \in SUBSET S : \A z \in T : Total(f, T) = f[z] + Total(f, T \ {z})}
<1>0. \A T \in SUBSET S : IsFiniteSet(T) /\ Total(f, T) \in Int
  <2>. SUFFICES ASSUME NEW T \in SUBSET S PROVE IsFiniteSet(T) /\ Total(f, T) \in Int
    OBVIOUS
  <2>1. IsFiniteSet(T)
    BY FS_Subset
  <2>. QED
    BY <2>1, SumInteger
<1>1. ASSUME NEW T \in SUBSET S, \A U \in SUBSET T : U # T => U \in F PROVE T \in F
  <2>1. ASSUME NEW z \in T PROVE Total(f, T) = f[z] + Total(f, T \ {z})
    <3>1. PICK x \in T : Total(f, T) = f[x] + Total(f, T \ {x})
      BY <1>0, <2>1, SumSteps DEF Total
    <3>2. CASE x = z
      BY <3>1, <3>2
    <3>3. CASE x # z
      <4> DEFINE R == (T \ {x}) \ {z}
      <4>1. Total(f, T \ {x}) = f[z] + Total(f, R)
        <5>1. T \ {x} \in F
          BY <1>1
        <5>2. z \in T \ {x}
          BY <3>3
        <5>. QED
          BY <5>1, <5>2
      <4>2. Total(f, T \ {z}) = f[x] + Total(f, (T \ {z}) \ {x})
        <5>1. T \ {z} \in F
          BY <1>1
        <5>2. x \in T \ {z}
          BY <3>3
        <5>. QED
          BY <5>1, <5>2
      <4>3. (T \ {z}) \ {x} = R
        OBVIOUS
      <4>4. f[x] \in Int /\ f[z] \in Int /\ Total(f, R) \in Int
        BY <1>0
      <4> DEFINE r == Total(f, R)
                 a == f[x]
                 b == f[z]
      <4>5. a \in Int /\ b \in Int /\ r \in Int
        BY <4>4
      <4>6. Total(f, T) = a + (b + r) /\ Total(f, T \ {z}) = a + r
        BY <3>1, <4>1, <4>2, <4>3
      <4>. HIDE DEF a, b, r
      <4>7. Total(f, T) = b + Total(f, T \ {z})
        BY <4>5, <4>6
      <4>. QED
        BY <4>7 DEF b
    <3>. QED
      BY <3>2, <3>3
  <2>. QED
    BY <2>1
<1>2. \A T \in SUBSET S : T \in F
  <2>. HIDE DEF F
  <2>. QED
    BY <1>1, SubsetInduction
<1>. QED
  BY <1>2

LEMMA SumOfNone ==
  ASSUME NEW f
  PROVE  Total(f, {}) = 0
BY SumSteps, FS_EmptySet DEF Total

LEMMA SumOfOne ==
  ASSUME NEW f, NEW x, f[x] \in Int
  PROVE  Total(f, {x}) = f[x]
<1>1. Total(f, {x}) = f[x] + Total(f, {x} \ {x})
  BY FS_Singleton, SumTakesOut
<1>2. {x} \ {x} = {}
  OBVIOUS
<1>. QED
  BY <1>1, <1>2, SumOfNone

(* A sum over two sets without a common element is the sum of their sums.  *)
LEMMA SumOfTwo ==
  ASSUME NEW f, NEW S, NEW T, IsFiniteSet(S), IsFiniteSet(T),
         S \cap T = {}, \A x \in S \cup T : f[x] \in Int
  PROVE  Total(f, S \cup T) = Total(f, S) + Total(f, T)
<1> DEFINE F == {U \in SUBSET S : Total(f, U \cup T) = Total(f, U) + Total(f, T)}
<1>0. \A U \in SUBSET S : IsFiniteSet(U) /\ IsFiniteSet(U \cup T)
  BY FS_Subset, FS_Union
<1>1. ASSUME NEW U \in SUBSET S, \A V \in SUBSET U : V # U => V \in F PROVE U \in F
  <2>1. Total(f, T) \in Int
    BY SumInteger
  <2>2. CASE U = {}
    <3>1. U \cup T = T
      BY <2>2
    <3>2. Total(f, U) = 0
      BY <2>2, SumOfNone
    <3>3. Total(f, U \cup T) = Total(f, U) + Total(f, T)
      BY <2>1, <3>1, <3>2
    <3>. QED
      BY <3>3
  <2>3. CASE U # {}
    <3>1. PICK x \in U : TRUE
      BY <2>3
    <3> DEFINE R == U \ {x}
    <3>2. Total(f, U) = f[x] + Total(f, R)
      <4>1. IsFiniteSet(U) /\ \A u \in U : f[u] \in Int
        BY <1>0
      <4>. QED
        BY <4>1, SumTakesOut
    <3>3. Total(f, U \cup T) = f[x] + Total(f, R \cup T)
      <4>1. (U \cup T) \ {x} = R \cup T
        OBVIOUS
      <4>2. Total(f, U \cup T) = f[x] + Total(f, (U \cup T) \ {x})
        BY <1>0, SumTakesOut
      <4>. QED
        BY <4>1, <4>2
    <3>4. R \in F
      BY <1>1
    <3>5. Total(f, R) \in Int /\ f[x] \in Int
      BY <1>0, SumInteger
    <3>. HIDE DEF R
    <3>. QED
      BY <2>1, <3>2, <3>3, <3>4, <3>5
  <2>. QED
    BY <2>2, <2>3
<1>2. \A U \in SUBSET S : U \in F
  <2>. HIDE DEF F
  <2>. QED
    BY <1>1, SubsetInduction
<1>. QED
  BY <1>2

(* Sums of parts, added up, are the sum of the whole.                      *)
LEMMA SumOfParts ==
  ASSUME NEW f, NEW g, NEW S, NEW P, IsFiniteSet(S),
         \A s \in S : IsFiniteSet(P[s]) /\ g[s] = Total(f, P[s]),
         \A s \in S : \A x \in P[s] : f[x] \in Int,
         \A s, t \in S : s # t => P[s] \cap P[t] = {}
  PROVE  Total(g, S) = Total(f, UNION {P[s] : s \in S})
<1> DEFINE Whole(T) == UNION {P[s] : s \in T}
           F == {T \in SUBSET S : Total(g, T) = Total(f, Whole(T)) /\ IsFiniteSet(Whole(T))}
<1>1. ASSUME NEW T \in SUBSET S, \A U \in SUBSET T : U # T => U \in F PROVE T \in F
  <2>0. IsFiniteSet(T) /\ \A s \in T : g[s] \in Int
    BY FS_Subset, SumInteger
  <2>1. CASE T = {}
    <3>1. Whole(T) = {} /\ IsFiniteSet({})
      BY <2>1, FS_EmptySet
    <3>. QED
      BY <2>1, <3>1, SumOfNone
  <2>2. CASE T # {}
    <3>1. PICK s \in T : TRUE
      BY <2>2
    <3> DEFINE R == T \ {s}
    <3>2. Total(g, T) = g[s] + Total(g, R)
      BY <2>0, SumTakesOut
    <3>3. R \in F
      BY <1>1
    <3>4. Whole(T) = P[s] \cup Whole(R) /\ P[s] \cap Whole(R) = {}
      OBVIOUS
    <3>5. \A x \in P[s] \cup Whole(R) : f[x] \in Int
      OBVIOUS
    <3>6. IsFiniteSet(P[s]) /\ g[s] = Total(f, P[s])
      OBVIOUS
    <3> DEFINE W == Whole(R)
               p == P[s]
    <3>7. IsFiniteSet(W) /\ Total(g, R) = Total(f, W)
      BY <3>3
    <3>8. p \cap W = {} /\ \A x \in p \cup W : f[x] \in Int
      BY <3>4, <3>5
    <3>9. IsFiniteSet(p) /\ g[s] = Total(f, p)
      BY <3>6
    <3>10. Whole(T) = p \cup W
      BY <3>4
    <3>. HIDE DEF W, p, Whole, R
    <3>11. Total(f, p \cup W) = Total(f, p) + Total(f, W)
      BY <3>7, <3>8, <3>9, SumOfTwo
    <3>12. IsFiniteSet(p \cup W)
      BY <3>7, <3>9, FS_Union
    <3>. QED
      BY <3>2, <3>7, <3>9, <3>10, <3>11, <3>12
  <2>. QED
    BY <2>1, <2>2
<1>2. \A T \in SUBSET S : T \in F
  <2>. HIDE DEF F
  <2>. QED
    BY <1>1, SubsetInduction
<1>. QED
  BY <1>2
=============================================================================
