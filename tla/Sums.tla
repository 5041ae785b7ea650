-------------------------------- MODULE Sums --------------------------------
(***************************************************************************)
(* What SumFunctionOnSet computes: the totals of statements, credit and    *)
(* instalments.                                                            *)
(*                                                                         *)
(* A sum is a recursive function over the subsets of its index set.  Its   *)
(* facts are proved by induction on those subsets, with the set of subsets *)
(* the fact holds of in the place of a predicate.                          *)
(***************************************************************************)
EXTENDS Integers, FiniteSets, Functions, FiniteSetTheorems, TLAPS

(* A set with every subset of S whose smaller subsets it has, has them all. *)
LEMMA SubsetInduction ==
  ASSUME NEW S, IsFiniteSet(S), NEW Good,
         \A s \in SUBSET S : (\A t \in SUBSET s : t # s => t \in Good) => s \in Good
  PROVE  SUBSET S \subseteq Good
<1>1. PICK Bad : Bad = {s \in SUBSET S : s \notin Good}
  OBVIOUS
<1>2. IsWellFoundedOn(StrictSubsetOrdering(S), SUBSET S)
  BY FS_StrictSubsetOrderingWellFounded, FS_FiniteSubsetsOfFinite
<1> SUFFICES ASSUME Bad # {} PROVE FALSE
  BY <1>1
<1>3. PICK s \in Bad : \A t \in Bad : <<t, s>> \notin StrictSubsetOrdering(S)
  BY <1>1, <1>2, WFMin
<1>4. \A t \in SUBSET s : t # s => t \in Good
  BY <1>1, <1>3 DEF StrictSubsetOrdering
<1> QED BY <1>1, <1>3, <1>4

(* The element the sum takes next, and what is left. *)
Pick(s) == CHOOSE x \in s : TRUE
Less(s) == s \ {Pick(s)}

LEMMA PickOne ==
  ASSUME NEW s, s # {}
  PROVE  Pick(s) \in s /\ Less(s) \subseteq s /\ Less(s) # s
BY DEF Pick, Less

Adds(f, S, g) == g = [s \in SUBSET S |-> IF s = {} THEN 0 ELSE f[Pick(s)] + g[Less(s)]]
Partial(f, S) == CHOOSE g : Adds(f, S, g)

LEMMA SumIsPartial ==
  ASSUME NEW f, NEW S
  PROVE  SumFunctionOnSet(f, S) = Partial(f, S)[S]
BY DEF SumFunctionOnSet, FoldFunctionOnSet, MapThenFoldSet, Partial, Adds, Pick, Less

LEMMA AddsUnfolds ==
  ASSUME NEW f, NEW S, NEW g, Adds(f, S, g), NEW s \in SUBSET S
  PROVE  g[s] = IF s = {} THEN 0 ELSE f[Pick(s)] + g[Less(s)]
BY DEF Adds

(* Two functions that add up agree where both are defined. *)
LEMMA AddsAgree ==
  ASSUME NEW f, NEW S, IsFiniteSet(S), NEW R \in SUBSET S, NEW g, NEW h,
         Adds(f, S, g), Adds(f, R, h)
  PROVE  g[R] = h[R]
<1>1. PICK Good : Good = {s \in SUBSET R : g[s] = h[s]}
  OBVIOUS
<1>2. ASSUME NEW s \in SUBSET R, \A t \in SUBSET s : t # s => t \in Good
      PROVE  s \in Good
  <2>1. /\ g[s] = IF s = {} THEN 0 ELSE f[Pick(s)] + g[Less(s)]
        /\ h[s] = IF s = {} THEN 0 ELSE f[Pick(s)] + h[Less(s)]
    BY AddsUnfolds
  <2>2. s # {} => Less(s) \in Good
    BY <1>2, PickOne
  <2> QED BY <1>1, <2>1, <2>2
<1>3. IsFiniteSet(R)
  BY FS_Subset
<1>4. SUBSET R \subseteq Good
  BY <1>2, <1>3, SubsetInduction
<1> QED BY <1>1, <1>4

LEMMA AddsExists ==
  ASSUME NEW f, NEW S, IsFiniteSet(S)
  PROVE  Adds(f, S, Partial(f, S))
<1>1. PICK Good : Good = {s \in SUBSET S : \E g : Adds(f, s, g)}
  OBVIOUS
<1>2. ASSUME NEW s \in SUBSET S, \A t \in SUBSET s : t # s => t \in Good
      PROVE  s \in Good
  <2>1. \A t \in SUBSET s : t # s => Adds(f, t, Partial(f, t))
    BY <1>1, <1>2 DEF Partial
  <2>2. PICK g : g = [t \in SUBSET s |->
                        IF t = {} THEN 0 ELSE f[Pick(t)] + Partial(f, Less(t))[Less(t)]]
    OBVIOUS
  <2>3. ASSUME NEW u \in SUBSET s, u # s
        PROVE  g[u] = Partial(f, u)[u]
    <3>1. Partial(f, u)[u] = IF u = {} THEN 0 ELSE f[Pick(u)] + Partial(f, u)[Less(u)]
      BY <2>1, <2>3, AddsUnfolds
    <3>2. ASSUME u # {} PROVE Partial(f, u)[Less(u)] = Partial(f, Less(u))[Less(u)]
      <4>1. Less(u) \in SUBSET u /\ Less(u) \in SUBSET s /\ Less(u) # s
        BY <2>3, <3>2, PickOne
      <4>2. Adds(f, u, Partial(f, u)) /\ Adds(f, Less(u), Partial(f, Less(u)))
        BY <2>1, <2>3, <4>1
      <4>3. IsFiniteSet(u)
        BY <2>3, FS_Subset
      <4> QED BY <4>1, <4>2, <4>3, AddsAgree
    <3>3. g[u] = IF u = {} THEN 0 ELSE f[Pick(u)] + Partial(f, Less(u))[Less(u)]
      BY <2>2
    <3> QED BY <3>1, <3>2, <3>3
  <2>4. ASSUME NEW t \in SUBSET s, t # {}
        PROVE  g[Less(t)] = Partial(f, Less(t))[Less(t)]
    <3>1. Less(t) \in SUBSET s /\ Less(t) # s
      BY <2>4, PickOne
    <3> QED BY <2>3, <3>1
  <2>5. [t \in SUBSET s |-> IF t = {} THEN 0 ELSE f[Pick(t)] + Partial(f, Less(t))[Less(t)]]
          = [t \in SUBSET s |-> IF t = {} THEN 0 ELSE f[Pick(t)] + g[Less(t)]]
    BY <2>4
  <2>6. Adds(f, s, g)
    BY <2>2, <2>5 DEF Adds
  <2> QED BY <1>1, <2>6
<1>3. S \in Good
  BY <1>2, SubsetInduction
<1> QED BY <1>1, <1>3 DEF Partial

(* One step of a sum. *)
LEMMA SumStep ==
  ASSUME NEW f, NEW S, IsFiniteSet(S)
  PROVE  SumFunctionOnSet(f, S) =
           IF S = {} THEN 0 ELSE f[Pick(S)] + SumFunctionOnSet(f, Less(S))
<1>1. Partial(f, S)[S] = IF S = {} THEN 0 ELSE f[Pick(S)] + Partial(f, S)[Less(S)]
  BY AddsExists, AddsUnfolds
<1>2. ASSUME S # {} PROVE Partial(f, S)[Less(S)] = Partial(f, Less(S))[Less(S)]
  <2>1. Less(S) \in SUBSET S
    BY <1>2, PickOne
  <2>2. IsFiniteSet(Less(S))
    BY <2>1, FS_Subset
  <2>3. Adds(f, S, Partial(f, S)) /\ Adds(f, Less(S), Partial(f, Less(S)))
    BY <2>2, AddsExists
  <2> QED BY <2>1, <2>3, AddsAgree
<1> QED BY <1>1, <1>2, SumIsPartial

-----------------------------------------------------------------------------
LEMMA SumOfNone == \A f : SumFunctionOnSet(f, {}) = 0
BY SumStep, FS_EmptySet

(* A sum looks at its own indices only. *)
LEMMA SumSame ==
  ASSUME NEW S, IsFiniteSet(S), NEW f, NEW g, \A x \in S : f[x] = g[x]
  PROVE  SumFunctionOnSet(f, S) = SumFunctionOnSet(g, S)
<1>1. PICK Good : Good = {s \in SUBSET S : SumFunctionOnSet(f, s) = SumFunctionOnSet(g, s)}
  OBVIOUS
<1>2. ASSUME NEW s \in SUBSET S, \A t \in SUBSET s : t # s => t \in Good
      PROVE  s \in Good
  <2>0. IsFiniteSet(s)
    BY FS_Subset
  <2>1. /\ SumFunctionOnSet(f, s) = IF s = {} THEN 0 ELSE f[Pick(s)] + SumFunctionOnSet(f, Less(s))
        /\ SumFunctionOnSet(g, s) = IF s = {} THEN 0 ELSE g[Pick(s)] + SumFunctionOnSet(g, Less(s))
    BY <2>0, SumStep
  <2>2. s # {} => Less(s) \in Good /\ Pick(s) \in S
    BY <1>2, PickOne
  <2> QED BY <1>1, <2>1, <2>2
<1>3. SUBSET S \subseteq Good
  BY <1>2, SubsetInduction
<1>4. S \in Good
  BY <1>3
<1> QED BY <1>1, <1>4

LEMMA SumOfZeros ==
  ASSUME NEW S, IsFiniteSet(S), NEW f, \A x \in S : f[x] = 0
  PROVE  SumFunctionOnSet(f, S) = 0
<1>1. PICK Good : Good = {s \in SUBSET S : SumFunctionOnSet(f, s) = 0}
  OBVIOUS
<1>2. ASSUME NEW s \in SUBSET S, \A t \in SUBSET s : t # s => t \in Good
      PROVE  s \in Good
  <2>0. IsFiniteSet(s)
    BY FS_Subset
  <2>1. SumFunctionOnSet(f, s) = IF s = {} THEN 0 ELSE f[Pick(s)] + SumFunctionOnSet(f, Less(s))
    BY <2>0, SumStep
  <2>2. s # {} => Less(s) \in Good /\ Pick(s) \in S
    BY <1>2, PickOne
  <2> QED BY <1>1, <2>1, <2>2
<1>3. SUBSET S \subseteq Good
  BY <1>2, SubsetInduction
<1>4. S \in Good
  BY <1>3
<1> QED BY <1>1, <1>4

LEMMA SumIsInt ==
  ASSUME NEW S, IsFiniteSet(S), NEW f, \A x \in S : f[x] \in Int
  PROVE  SumFunctionOnSet(f, S) \in Int
<1>1. PICK Good : Good = {s \in SUBSET S : SumFunctionOnSet(f, s) \in Int}
  OBVIOUS
<1>2. ASSUME NEW s \in SUBSET S, \A t \in SUBSET s : t # s => t \in Good
      PROVE  s \in Good
  <2>0. IsFiniteSet(s)
    BY FS_Subset
  <2>1. SumFunctionOnSet(f, s) = IF s = {} THEN 0 ELSE f[Pick(s)] + SumFunctionOnSet(f, Less(s))
    BY <2>0, SumStep
  <2>2. s # {} => Less(s) \in Good /\ Pick(s) \in S
    BY <1>2, PickOne
  <2> QED BY <1>1, <2>1, <2>2
<1>3. SUBSET S \subseteq Good
  BY <1>2, SubsetInduction
<1>4. S \in Good
  BY <1>3
<1> QED BY <1>1, <1>4

LEMMA SumIsNat ==
  ASSUME NEW S, IsFiniteSet(S), NEW f, \A x \in S : f[x] \in Nat
  PROVE  SumFunctionOnSet(f, S) \in Nat
<1>1. PICK Good : Good = {s \in SUBSET S : SumFunctionOnSet(f, s) \in Nat}
  OBVIOUS
<1>2. ASSUME NEW s \in SUBSET S, \A t \in SUBSET s : t # s => t \in Good
      PROVE  s \in Good
  <2>0. IsFiniteSet(s)
    BY FS_Subset
  <2>1. SumFunctionOnSet(f, s) = IF s = {} THEN 0 ELSE f[Pick(s)] + SumFunctionOnSet(f, Less(s))
    BY <2>0, SumStep
  <2>2. s # {} => Less(s) \in Good /\ Pick(s) \in S
    BY <1>2, PickOne
  <2> QED BY <1>1, <2>1, <2>2
<1>3. SUBSET S \subseteq Good
  BY <1>2, SubsetInduction
<1>4. S \in Good
  BY <1>3
<1> QED BY <1>1, <1>4

(* Any element may be taken out first: the order does not matter. *)
LEMMA SumTakeOut ==
  ASSUME NEW S, IsFiniteSet(S), NEW f, \A x \in S : f[x] \in Int, NEW x \in S
  PROVE  SumFunctionOnSet(f, S) = f[x] + SumFunctionOnSet(f, S \ {x})
<1>1. PICK Good : Good = {s \in SUBSET S :
        \A y \in s : SumFunctionOnSet(f, s) = f[y] + SumFunctionOnSet(f, s \ {y})}
  OBVIOUS
<1>2. \A s \in SUBSET S : IsFiniteSet(s) /\ SumFunctionOnSet(f, s) \in Int
  BY FS_Subset, SumIsInt
<1>3. ASSUME NEW s \in SUBSET S, \A t \in SUBSET s : t # s => t \in Good
      PROVE  s \in Good
  <2> SUFFICES ASSUME NEW y \in s
               PROVE  SumFunctionOnSet(f, s) = f[y] + SumFunctionOnSet(f, s \ {y})
    BY <1>1
  <2>1. PICK p \in s : p = Pick(s) /\ Less(s) = s \ {p}
    BY PickOne DEF Less
  <2>2. SumFunctionOnSet(f, s) = f[p] + SumFunctionOnSet(f, s \ {p})
    BY <1>2, <2>1, SumStep
  <2>3. CASE y = p
    BY <2>2, <2>3
  <2>4. CASE y # p
    <3>1. s \ {p} \in Good /\ s \ {y} \in Good
      BY <1>3, <2>1
    <3>2. SumFunctionOnSet(f, s \ {p}) = f[y] + SumFunctionOnSet(f, (s \ {p}) \ {y})
      BY <1>1, <2>4, <3>1
    <3>3. SumFunctionOnSet(f, s \ {y}) = f[p] + SumFunctionOnSet(f, (s \ {y}) \ {p})
      BY <1>1, <2>4, <3>1
    <3>4. (s \ {p}) \ {y} = (s \ {y}) \ {p}
      OBVIOUS
    <3>5. SumFunctionOnSet(f, (s \ {p}) \ {y}) \in Int /\ f[p] \in Int /\ f[y] \in Int
      BY <1>2
    <3>6. PICK n \in Int : /\ n = SumFunctionOnSet(f, (s \ {p}) \ {y})
                           /\ n = SumFunctionOnSet(f, (s \ {y}) \ {p})
      BY <3>4, <3>5
    <3>7. SumFunctionOnSet(f, s \ {p}) = f[y] + n /\ SumFunctionOnSet(f, s \ {y}) = f[p] + n
      BY <3>2, <3>3, <3>6
    <3>8. f[p] + (f[y] + n) = f[y] + (f[p] + n)
      BY <3>5, <3>6
    <3> QED BY <2>2, <3>7, <3>8
  <2> QED BY <2>3, <2>4
<1>4. S \in Good
  BY <1>3, SubsetInduction
<1> QED BY <1>1, <1>4

(* One more index, one more term. *)
LEMMA SumAdd ==
  ASSUME NEW S, IsFiniteSet(S), NEW f, NEW x, x \notin S, \A y \in S \cup {x} : f[y] \in Int
  PROVE  SumFunctionOnSet(f, S \cup {x}) = SumFunctionOnSet(f, S) + f[x]
<1>1. IsFiniteSet(S \cup {x})
  BY FS_AddElement
<1>2. (S \cup {x}) \ {x} = S
  OBVIOUS
<1>3. SumFunctionOnSet(f, S \cup {x}) = f[x] + SumFunctionOnSet(f, (S \cup {x}) \ {x})
  BY <1>1, SumTakeOut
<1>4. SumFunctionOnSet(f, S) \in Int /\ f[x] \in Int
  BY SumIsInt
<1>5. SumFunctionOnSet(f, S \cup {x}) = f[x] + SumFunctionOnSet(f, S)
  BY <1>2, <1>3
<1> QED BY <1>4, <1>5

(* Changing one term changes the sum by the difference. *)
LEMMA SumChange ==
  ASSUME NEW S, IsFiniteSet(S), NEW f, NEW g, NEW x \in S,
         \A y \in S : f[y] \in Int /\ g[y] \in Int, \A y \in S \ {x} : g[y] = f[y]
  PROVE  SumFunctionOnSet(g, S) = SumFunctionOnSet(f, S) - f[x] + g[x]
<1>1. IsFiniteSet(S \ {x})
  BY FS_Subset
<1>2. SumFunctionOnSet(f, S \ {x}) = SumFunctionOnSet(g, S \ {x})
  BY <1>1, SumSame
<1>3. /\ SumFunctionOnSet(f, S) = f[x] + SumFunctionOnSet(f, S \ {x})
      /\ SumFunctionOnSet(g, S) = g[x] + SumFunctionOnSet(g, S \ {x})
  BY SumTakeOut
<1>4. PICK n \in Int : n = SumFunctionOnSet(f, S \ {x})
  BY <1>1, SumIsInt
<1>5. SumFunctionOnSet(f, S) = f[x] + n /\ SumFunctionOnSet(g, S) = g[x] + n
  BY <1>2, <1>3, <1>4
<1>6. f[x] \in Int /\ g[x] \in Int
  OBVIOUS
<1>7. g[x] + n = f[x] + n - f[x] + g[x]
  BY <1>4, <1>6
<1> QED BY <1>5, <1>7

(* A part of what only adds is at most the whole. *)
LEMMA SumPart ==
  ASSUME NEW S, IsFiniteSet(S), NEW f, \A x \in S : f[x] \in Nat, NEW R \in SUBSET S
  PROVE  SumFunctionOnSet(f, R) <= SumFunctionOnSet(f, S)
<1>1. PICK Good : Good = {s \in SUBSET S :
        SumFunctionOnSet(f, R \cap s) <= SumFunctionOnSet(f, s)}
  OBVIOUS
<1>2. \A s \in SUBSET S : IsFiniteSet(s) /\ SumFunctionOnSet(f, s) \in Nat
  BY FS_Subset, SumIsNat
<1>3. ASSUME NEW s \in SUBSET S, \A t \in SUBSET s : t # s => t \in Good
      PROVE  s \in Good
  <2>1. CASE s = {}
    BY <1>1, <2>1, SumOfNone
  <2>2. CASE s # {}
    <3>1. PICK p \in s : Less(s) = s \ {p}
      BY <2>2, PickOne DEF Less
    <3>2. s \ {p} \in Good
      BY <1>3
    <3>3. SumFunctionOnSet(f, s) = f[p] + SumFunctionOnSet(f, s \ {p})
      BY <1>2, SumTakeOut
    <3>4. SumFunctionOnSet(f, R \cap (s \ {p})) <= SumFunctionOnSet(f, s \ {p})
      BY <1>1, <3>2
    <3>5. SumFunctionOnSet(f, s \ {p}) \in Nat /\ SumFunctionOnSet(f, R \cap (s \ {p})) \in Nat
          /\ f[p] \in Nat
      BY <1>2
    <3>6. CASE p \in R
      <4>1. (R \cap s) \ {p} = R \cap (s \ {p}) /\ p \in R \cap s
        BY <3>6
      <4>2. IsFiniteSet(R \cap s) /\ \A x \in R \cap s : f[x] \in Int
        BY <1>2
      <4>3. SumFunctionOnSet(f, R \cap s) = f[p] + SumFunctionOnSet(f, (R \cap s) \ {p})
        BY <4>1, <4>2, SumTakeOut
      <4>4. SumFunctionOnSet(f, R \cap s) = f[p] + SumFunctionOnSet(f, R \cap (s \ {p}))
        BY <4>1, <4>3
      <4>5. PICK m \in Nat, n \in Nat : /\ m = SumFunctionOnSet(f, R \cap (s \ {p}))
                                        /\ n = SumFunctionOnSet(f, s \ {p})
        BY <3>5
      <4>6. f[p] + m <= f[p] + n
        BY <3>4, <3>5, <4>5
      <4>7. SumFunctionOnSet(f, R \cap s) <= SumFunctionOnSet(f, s)
        BY <3>3, <4>4, <4>5, <4>6
      <4> QED BY <1>1, <4>7
    <3>7. CASE p \notin R
      <4>1. R \cap s = R \cap (s \ {p})
        BY <3>7
      <4> QED BY <1>1, <3>3, <3>4, <3>5, <4>1
    <3> QED BY <3>6, <3>7
  <2> QED BY <2>1, <2>2
<1>4. SUBSET S \subseteq Good
  BY <1>3, SubsetInduction
<1>5. S \in Good /\ R \cap S = R
  BY <1>4
<1> QED BY <1>1, <1>5

(* What is less term by term is less in sum. *)
LEMMA SumAtMost ==
  ASSUME NEW S, IsFiniteSet(S), NEW f, NEW g,
         \A x \in S : f[x] \in Nat /\ g[x] \in Nat /\ f[x] <= g[x]
  PROVE  SumFunctionOnSet(f, S) <= SumFunctionOnSet(g, S)
<1>1. PICK Good : Good = {s \in SUBSET S : SumFunctionOnSet(f, s) <= SumFunctionOnSet(g, s)}
  OBVIOUS
<1>2. \A s \in SUBSET S : /\ IsFiniteSet(s)
                          /\ SumFunctionOnSet(f, s) \in Nat /\ SumFunctionOnSet(g, s) \in Nat
  BY FS_Subset, SumIsNat
<1>3. ASSUME NEW s \in SUBSET S, \A t \in SUBSET s : t # s => t \in Good
      PROVE  s \in Good
  <2>1. CASE s = {}
    BY <1>1, <2>1, SumOfNone
  <2>2. CASE s # {}
    <3>1. PICK x \in S, r \in SUBSET S : x = Pick(s) /\ r = Less(s) /\ r \in Good
      BY <1>3, <2>2, PickOne
    <3>2. /\ SumFunctionOnSet(f, s) = f[x] + SumFunctionOnSet(f, r)
          /\ SumFunctionOnSet(g, s) = g[x] + SumFunctionOnSet(g, r)
      BY <1>2, <2>2, <3>1, SumStep
    <3>3. PICK m \in Nat, n \in Nat : m = SumFunctionOnSet(f, r) /\ n = SumFunctionOnSet(g, r)
      BY <1>2
    <3>4. m <= n
      BY <1>1, <3>1, <3>3
    <3>5. f[x] + m <= g[x] + n
      BY <3>4
    <3> QED BY <1>1, <3>2, <3>3, <3>5
  <2> QED BY <2>1, <2>2
<1>4. SUBSET S \subseteq Good
  BY <1>3, SubsetInduction
<1>5. S \in Good
  BY <1>4
<1> QED BY <1>1, <1>5

(* The sum of a sum is the sum of the sums. *)
LEMMA SumTogether ==
  ASSUME NEW S, IsFiniteSet(S), NEW f, NEW g, NEW h,
         \A x \in S : f[x] \in Int /\ g[x] \in Int /\ h[x] = f[x] + g[x]
  PROVE  SumFunctionOnSet(h, S) = SumFunctionOnSet(f, S) + SumFunctionOnSet(g, S)
<1>1. PICK Good : Good = {s \in SUBSET S :
        SumFunctionOnSet(h, s) = SumFunctionOnSet(f, s) + SumFunctionOnSet(g, s)}
  OBVIOUS
<1>2. \A s \in SUBSET S : /\ IsFiniteSet(s)
                          /\ SumFunctionOnSet(f, s) \in Int /\ SumFunctionOnSet(g, s) \in Int
  BY FS_Subset, SumIsInt
<1>3. ASSUME NEW s \in SUBSET S, \A t \in SUBSET s : t # s => t \in Good
      PROVE  s \in Good
  <2>1. CASE s = {}
    BY <1>1, <2>1, SumOfNone
  <2>2. CASE s # {}
    <3>1. PICK x \in S, r \in SUBSET S : x = Pick(s) /\ r = Less(s) /\ r \in Good
      BY <1>3, <2>2, PickOne
    <3>2. /\ SumFunctionOnSet(f, s) = f[x] + SumFunctionOnSet(f, r)
          /\ SumFunctionOnSet(g, s) = g[x] + SumFunctionOnSet(g, r)
          /\ SumFunctionOnSet(h, s) = h[x] + SumFunctionOnSet(h, r)
      BY <1>2, <2>2, <3>1, SumStep
    <3>3. PICK m \in Int, n \in Int : m = SumFunctionOnSet(f, r) /\ n = SumFunctionOnSet(g, r)
      BY <1>2
    <3>4. SumFunctionOnSet(h, r) = m + n /\ h[x] = f[x] + g[x]
      BY <1>1, <3>1, <3>3
    <3>5. (f[x] + g[x]) + (m + n) = (f[x] + m) + (g[x] + n)
      OBVIOUS
    <3> QED BY <1>1, <3>2, <3>3, <3>4, <3>5
  <2> QED BY <2>1, <2>2
<1>4. SUBSET S \subseteq Good
  BY <1>3, SubsetInduction
<1>5. S \in Good
  BY <1>4
<1> QED BY <1>1, <1>5

(* Indices whose terms are zero do not count. *)
LEMMA SumOutside ==
  ASSUME NEW S, IsFiniteSet(S), NEW f, \A x \in S : f[x] \in Int,
         NEW R \in SUBSET S, \A x \in S \ R : f[x] = 0
  PROVE  SumFunctionOnSet(f, S) = SumFunctionOnSet(f, R)
<1>1. PICK Good : Good = {s \in SUBSET S :
        SumFunctionOnSet(f, s) = SumFunctionOnSet(f, R \cap s)}
  OBVIOUS
<1>2. \A s \in SUBSET S : IsFiniteSet(s) /\ SumFunctionOnSet(f, s) \in Int
  BY FS_Subset, SumIsInt
<1>3. ASSUME NEW s \in SUBSET S, \A t \in SUBSET s : t # s => t \in Good
      PROVE  s \in Good
  <2>1. CASE s \subseteq R
    <3>1. R \cap s = s
      BY <2>1
    <3> QED BY <1>1, <3>1
  <2>2. CASE ~(s \subseteq R)
    <3>1. PICK x \in s : x \notin R
      BY <2>2
    <3>2. f[x] = 0 /\ R \cap (s \ {x}) = R \cap s /\ s \ {x} \in SUBSET s /\ s \ {x} # s
      BY <3>1
    <3>3. SumFunctionOnSet(f, s) = f[x] + SumFunctionOnSet(f, s \ {x})
      BY <1>2, SumTakeOut
    <3>4. SumFunctionOnSet(f, s \ {x}) = SumFunctionOnSet(f, R \cap s)
      BY <1>1, <1>3, <3>2
    <3>5. SumFunctionOnSet(f, s \ {x}) \in Int
      BY <1>2
    <3> QED BY <1>1, <3>2, <3>3, <3>4, <3>5
  <2> QED BY <2>1, <2>2
<1>4. SUBSET S \subseteq Good
  BY <1>3, SubsetInduction
<1>5. S \in Good /\ R \cap S = R
  BY <1>4
<1> QED BY <1>1, <1>5

(* A finite set of numbers has a least one. *)
LEMMA LeastOf ==
  ASSUME NEW S, IsFiniteSet(S), S \subseteq Int, S # {}
  PROVE  \E x \in S : \A y \in S : x <= y
<1>1. PICK Good : Good = {s \in SUBSET S : s = {} \/ \E x \in s : \A y \in s : x <= y}
  OBVIOUS
<1>2. ASSUME NEW s \in SUBSET S, \A t \in SUBSET s : t # s => t \in Good
      PROVE  s \in Good
  <2>1. SUFFICES ASSUME s # {} PROVE \E x \in s : \A y \in s : x <= y
    BY <1>1
  <2>2. PICK z \in s : TRUE
    BY <2>1
  <2>3. s \ {z} \in Good
    BY <1>2
  <2>4. CASE s \ {z} = {}
    <3>1. \A y \in s : y = z
      BY <2>4
    <3> QED BY <3>1
  <2>5. CASE s \ {z} # {}
    <3>1. PICK x \in s \ {z} : \A y \in s \ {z} : x <= y
      BY <1>1, <2>3, <2>5
    <3>2. CASE x <= z
      BY <3>1, <3>2
    <3>3. CASE ~(x <= z)
      <4>1. x \in Int /\ z \in Int /\ \A y \in s : y \in Int
        OBVIOUS
      <4>2. \A y \in s : z <= y
        BY <3>1, <3>3, <4>1
      <4> QED BY <4>2
    <3> QED BY <3>2, <3>3
  <2> QED BY <2>4, <2>5
<1>3. S \in Good
  BY <1>2, SubsetInduction
<1> QED BY <1>1, <1>3
=============================================================================
