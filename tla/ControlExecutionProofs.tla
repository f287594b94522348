------------------------ MODULE ControlExecutionProofs ------------------------
(***************************************************************************)
(* Proofs about ControlExecution for any workspace, any number of controls,*)
(* permits and rows.                                                       *)
(*  - The tree: NewExecutionTree has a run for each control that is asked  *)
(*    for, no run twice, and the groups of these (TreeIsCorrect).  What is *)
(*    above a group, and what a group is made of, are recursive            *)
(*    definitions, which have a value as no item is below itself; the      *)
(*    children of an item are added to its group one after the other.      *)
(*  - The check: the types with the bounds on sessions and goroutines, the *)
(*    reports to the progress display, the runs that are over when Execute *)
(*    returns, and the failures it counts.                                 *)
(***************************************************************************)
EXTENDS ControlExecution, FunctionTheorems, FiniteSetTheorems, WellFoundedInduction,
        SequenceTheorems, TLAPS

-----------------------------------------------------------------------------
(* Numbers: the induction that the library's theorems cannot be used for,  *)
(* and the greatest of some of them.                                       *)

LEMMA LeastNumber ==
  ASSUME NEW T, T \subseteq Nat, T # {}
  PROVE  \E m \in T : \A n \in T : m <= n
<1>1. PICK m \in T : \A n \in T : ~(<<n, m>> \in OpToRel(<, Nat))
  BY NatLessThanWellFounded, WFMin
<1>2. ASSUME NEW n \in T PROVE m <= n
  <2>1. n \in Nat /\ m \in Nat
    OBVIOUS
  <2>2. ~(n < m)
    BY <1>1, <2>1 DEF OpToRel
  <2> QED
    BY <2>1, <2>2
<1> QED
  BY <1>2

LEMMA Induction ==
  ASSUME NEW T, 0 \in T, \A n \in Nat : n \in T => n + 1 \in T
  PROVE  Nat \subseteq T
<1> SUFFICES ASSUME NEW m \in Nat \ T PROVE FALSE
  OBVIOUS
<1>1. PICK n \in Nat \ T : \A k \in Nat \ T : n <= k
  <2>1. Nat \ T \subseteq Nat /\ (Nat \ T) # {}
    OBVIOUS
  <2> QED
    BY <2>1, LeastNumber
<1>2. n # 0 /\ n - 1 \in Nat
  BY <1>1
<1>3. n - 1 \in T
  BY <1>1, <1>2
<1>4. (n - 1) + 1 = n
  BY <1>1
<1> QED
  BY <1>1, <1>2, <1>3, <1>4

LEMMA MaxOf ==
  ASSUME NEW s, NEW x \in s, \A y \in s : y <= x, s \subseteq Nat
  PROVE  Max(s) = x
<1>1. x \in s /\ \A y \in s : x >= y
  OBVIOUS
<1>2. PICK m : m = Max(s)
  OBVIOUS
<1>3. m \in s /\ \A y \in s : m >= y
  BY <1>1, <1>2 DEF Max
<1>4. m \in Nat /\ x \in Nat /\ m <= x /\ x <= m
  BY <1>3
<1> QED
  BY <1>2, <1>4

LEMMA MaxWithout ==
  ASSUME NEW n \in Nat, NEW s \in SUBSET (1..n), s # {}
  PROVE  Max(s) \in s /\ s \ {Max(s)} \in SUBSET (1..n)
<1> DEFINE T == {k \in Nat : \A r \in SUBSET (1..k) : r # {} => \E x \in r : \A y \in r : y <= x}
<1>1. 0 \in T
  <2>1. \A r \in SUBSET (1..0) : r = {}
    OBVIOUS
  <2> QED
    BY <2>1
<1>2. ASSUME NEW k \in Nat, k \in T PROVE k + 1 \in T
  <2> SUFFICES ASSUME NEW r \in SUBSET (1..(k + 1)), r # {}
               PROVE  \E x \in r : \A y \in r : y <= x
    OBVIOUS
  <2>1. CASE k + 1 \in r
    BY <2>1
  <2>2. CASE k + 1 \notin r
    <3>1. r \in SUBSET (1..k)
      BY <2>2
    <3> QED
      BY <1>2, <3>1
  <2> QED
    BY <2>1, <2>2
<1>3. Nat \subseteq T
  <2> HIDE DEF T
  <2> QED
    BY <1>1, <1>2, Induction
<1>4. PICK x \in s : \A y \in s : y <= x
  BY <1>3
<1>5. Max(s) = x
  <2>1. s \subseteq Nat
    OBVIOUS
  <2> QED
    BY <1>4, <2>1, MaxOf
<1> QED
  BY <1>4, <1>5

(* A fold over a sequence of n elements, in the form in which the          *)
(* community modules define it, has a value for every set of positions.    *)
Folds(h, n, base, step) ==
  \A s \in SUBSET (1..n) :
    h[s] = IF s = {} THEN base ELSE step[<<Max(s), h[s \ {Max(s)}]>>]

HasFold(n, W, base, step) == \E h \in [SUBSET (1..n) -> W] : Folds(h, n, base, step)

LEMMA FoldDefined ==
  ASSUME NEW n \in Nat, NEW W, NEW base \in W, NEW step \in [(1..n) \X W -> W]
  PROVE  HasFold(n, W, base, step)
<1> DEFINE T == {k \in Nat : k <= n => HasFold(k, W, base, step)}
<1>1. 0 \in T
  <2>1. SUBSET (1..0) = {{}}
    OBVIOUS
  <2>2. PICK h : h = [s \in SUBSET (1..0) |-> base]
    OBVIOUS
  <2>3. h \in [SUBSET (1..0) -> W]
    BY <2>2
  <2>4. Folds(h, 0, base, step)
    BY <2>1, <2>2 DEF Folds
  <2> QED
    BY <2>3, <2>4 DEF HasFold
<1>2. ASSUME NEW k \in Nat, k \in T PROVE k + 1 \in T
  <2> SUFFICES ASSUME k + 1 <= n PROVE HasFold(k + 1, W, base, step)
    OBVIOUS
  <2>1. PICK g \in [SUBSET (1..k) -> W] : Folds(g, k, base, step)
    <3>1. k <= n
      OBVIOUS
    <3> QED
      BY <1>2, <3>1 DEF HasFold
  <2>2. PICK h : h = [s \in SUBSET (1..(k + 1)) |->
                        IF k + 1 \in s THEN step[<<k + 1, g[s \ {k + 1}]>>] ELSE g[s]]
    OBVIOUS
  <2>3. k + 1 \in 1..n
    OBVIOUS
  <2>4. ASSUME NEW s \in SUBSET (1..(k + 1)) PROVE s \ {k + 1} \in SUBSET (1..k)
    OBVIOUS
  <2>5. ASSUME NEW s \in SUBSET (1..(k + 1)), k + 1 \notin s
        PROVE  s \in SUBSET (1..k) /\ h[s] = g[s]
    BY <2>2, <2>5
  <2>6. ASSUME NEW s \in SUBSET (1..(k + 1)), k + 1 \in s
        PROVE  /\ h[s] = step[<<k + 1, g[s \ {k + 1}]>>]
               /\ Max(s) = k + 1 /\ h[s \ {k + 1}] = g[s \ {k + 1}]
    <3>1. Max(s) = k + 1
      <4>1. \A y \in s : y <= k + 1
        OBVIOUS
      <4>2. s \subseteq Nat
        OBVIOUS
      <4> QED
        BY <2>6, <4>1, <4>2, MaxOf
    <3> QED
      BY <2>2, <2>4, <2>6, <3>1
  <2>7. h \in [SUBSET (1..(k + 1)) -> W]
    <3>1. ASSUME NEW s \in SUBSET (1..(k + 1)) PROVE h[s] \in W
      <4>1. CASE k + 1 \in s
        <5>1. g[s \ {k + 1}] \in W
          BY <2>4, <2>1
        <5>2. <<k + 1, g[s \ {k + 1}]>> \in (1..n) \X W
          BY <2>3, <5>1
        <5> QED
          BY <2>6, <4>1, <5>2
      <4>2. CASE k + 1 \notin s
        BY <2>1, <2>5, <4>2
      <4> QED
        BY <4>1, <4>2
    <3> QED
      BY <2>2, <3>1
  <2>8. Folds(h, k + 1, base, step)
    <3> SUFFICES ASSUME NEW s \in SUBSET (1..(k + 1))
                 PROVE  h[s] = IF s = {} THEN base ELSE step[<<Max(s), h[s \ {Max(s)}]>>]
      BY DEF Folds
    <3>1. CASE k + 1 \in s
      BY <2>6, <3>1
    <3>2. CASE k + 1 \notin s /\ s = {}
      BY <2>1, <2>5, <3>2 DEF Folds
    <3>3. CASE k + 1 \notin s /\ s # {}
      <4>1. s \in SUBSET (1..k) /\ h[s] = g[s]
        BY <2>5, <3>3
      <4>2. s \ {Max(s)} \in SUBSET (1..k)
        BY <4>1, <3>3, MaxWithout
      <4>3. h[s \ {Max(s)}] = g[s \ {Max(s)}]
        <5>1. PICK r : r = s \ {Max(s)}
          OBVIOUS
        <5>2. r \in SUBSET (1..(k + 1)) /\ k + 1 \notin r
          BY <4>2, <5>1
        <5>3. h[r] = g[r]
          BY <5>2, <2>5
        <5> QED
          BY <5>1, <5>3
      <4>4. g[s] = step[<<Max(s), g[s \ {Max(s)}]>>]
        BY <2>1, <3>3, <4>1 DEF Folds
      <4> QED
        BY <3>3, <4>1, <4>3, <4>4
    <3> QED
      BY <3>1, <3>2, <3>3
  <2> QED
    BY <2>7, <2>8 DEF HasFold
<1>3. Nat \subseteq T
  <2> HIDE DEF T
  <2> QED
    BY <1>1, <1>2, Induction
<1> QED
  BY <1>3

LEMMA IntervalStep ==
  ASSUME NEW n \in Nat, NEW k \in 1..n
  PROVE  1..k \in SUBSET (1..n) /\ 1..k # {} /\ (1..k) \ {k} = 1..(k - 1) /\ Max(1..k) = k
<1>1. k \in 1..k /\ (\A y \in 1..k : y <= k) /\ 1..k \subseteq Nat
  OBVIOUS
<1>2. Max(1..k) = k
  BY <1>1, MaxOf
<1> QED
  BY <1>2

-----------------------------------------------------------------------------
(* The groups and the runs of a tree.                                      *)

ResultGroups ==
  [controlRuns : Seq(Controls), below : Seq(Controls), groups : SUBSET Items]

LEMMA ItemFacts ==
  /\ RootResultGroup \notin Items /\ RootResultGroup \in Groups /\ Items \subseteq Groups
  /\ \A i \in Items : i \notin ControlNames
  /\ \A i \in Items : /\ Children[i] \in Seq(Items \cup ControlNames)
                      /\ RootResultGroup \notin Range(Children[i])
  /\ \A i, j, x \in Items :
       x \in Range(Children[i]) /\ x \in Range(Children[j]) => i = j
<1>1. ASSUME NEW i \in Items
      PROVE  /\ Children[i] \in Seq(Items \cup ControlNames)
             /\ RootResultGroup \notin Range(Children[i])
  <2>1. Children[i] \in Seq(Items \cup ControlNames)
    BY ItemsAssumption
  <2>2. \A x \in Range(Children[i]) : x \in Items \cup ControlNames
    BY <2>1 DEF Range
  <2> QED
    BY <2>1, <2>2, ItemsAssumption
<1>2. ASSUME NEW i \in Items, NEW j \in Items, NEW x \in Items,
             x \in Range(Children[i]), x \in Range(Children[j])
      PROVE  i = j
  BY <1>2, ItemsAssumption
<1>3. \A i \in Items : i \notin ControlNames
  BY ItemsAssumption
<1> QED
  BY <1>1, <1>2, <1>3, ItemsAssumption DEF Groups

(* A run in a group of an item is that of a control of the item.           *)
LEMMA RunsOfItem ==
  ASSUME NEW i \in Items
  PROVE  /\ \A c \in Range(Children[i]) \cap ControlNames : Run(c, i) \in Controls
         /\ \A r \in Controls : r.group = i =>
              \E c \in Range(Children[i]) \cap ControlNames : r = Run(c, i)
         /\ \A r \in Controls : r.control \in ControlNames /\ r.group \in Groups
         /\ \A r \in Controls : r = Run(r.control, r.group)
<1>1. \A c \in Range(Children[i]) \cap ControlNames : Run(c, i) \in Controls
  BY DEF Controls
<1>2. ASSUME NEW r \in Controls
      PROVE  /\ r.control \in ControlNames /\ r.group \in Groups
             /\ r = Run(r.control, r.group)
             /\ r.group = i => \E c \in Range(Children[i]) \cap ControlNames : r = Run(c, i)
  <2>1. CASE \E c \in Arguments \cap ControlNames : r = Run(c, RootResultGroup)
    BY <2>1, ItemFacts DEF Run
  <2>2. CASE \E j \in Items : \E c \in Range(Children[j]) \cap ControlNames : r = Run(c, j)
    BY <2>2, ItemFacts DEF Run
  <2> QED
    BY <2>1, <2>2 DEF Controls
<1> QED
  BY <1>1, <1>2

(* Items are above one another in a finite order: what holds of an item    *)
(* when it holds of those it is in, or of those in it, holds of all.       *)
Ranks == [Items -> 0..Cardinality(Items)]
Ranked(rank) ==
  \A i \in Items : \A j \in Items \cap Range(Children[i]) : rank[j] < rank[i]

LEMMA RankExists == \E rank \in Ranks : Ranked(rank)
BY ItemsAssumption DEF Ranks, Ranked

LEMMA RankBound ==
  /\ Cardinality(Items) \in Nat
  /\ \A rank \in Ranks : \A i \in Items :
       rank[i] \in Nat /\ rank[i] <= Cardinality(Items)
BY ItemsAssumption, FS_CardinalityType DEF Ranks

LEMMA Downwards ==
  ASSUME NEW T,
         \A i \in Items : (\A g \in Items : i \in Range(Children[g]) => g \in T) => i \in T
  PROVE  Items \subseteq T
<1> SUFFICES ASSUME NEW x \in Items \ T PROVE FALSE
  OBVIOUS
<1>1. PICK rank \in Ranks : Ranked(rank)
  BY RankExists
<1> DEFINE d(i) == Cardinality(Items) - rank[i]
           D == {d(i) : i \in Items \ T}
<1>2. \A i \in Items : d(i) \in Nat
  BY RankBound
<1>3. PICK m \in D : \A n \in D : m <= n
  <2>1. D \subseteq Nat /\ D # {}
    BY <1>2
  <2> HIDE DEF D
  <2> QED
    BY <2>1, LeastNumber
<1>4. PICK i \in Items \ T : m = d(i)
  OBVIOUS
<1>5. ASSUME NEW g \in Items, i \in Range(Children[g]) PROVE g \in T
  <2>1. rank[i] < rank[g]
    BY <1>1, <1>5 DEF Ranked
  <2>2. d(g) < d(i)
    BY <2>1, RankBound
  <2>3. d(g) \in Nat /\ d(i) \in Nat
    BY <1>2
  <2> SUFFICES ASSUME g \notin T PROVE FALSE
    OBVIOUS
  <2>4. d(g) \in D
    OBVIOUS
  <2> QED
    BY <1>3, <1>4, <2>2, <2>3, <2>4
<1> QED
  BY <1>4, <1>5

LEMMA Upwards ==
  ASSUME NEW T,
         \A i \in Items : (\A x \in Items \cap Range(Children[i]) : x \in T) => i \in T
  PROVE  Items \subseteq T
<1> SUFFICES ASSUME NEW y \in Items \ T PROVE FALSE
  OBVIOUS
<1>1. PICK rank \in Ranks : Ranked(rank)
  BY RankExists
<1> DEFINE D == {rank[i] : i \in Items \ T}
<1>2. \A i \in Items : rank[i] \in Nat
  BY RankBound
<1>3. PICK m \in D : \A n \in D : m <= n
  <2>1. D \subseteq Nat /\ D # {}
    BY <1>2
  <2> HIDE DEF D
  <2> QED
    BY <2>1, LeastNumber
<1>4. PICK i \in Items \ T : m = rank[i]
  OBVIOUS
<1>5. ASSUME NEW x \in Items \cap Range(Children[i]) PROVE x \in T
  <2>1. rank[x] < rank[i]
    BY <1>1 DEF Ranked
  <2>2. rank[x] \in Nat /\ rank[i] \in Nat
    BY <1>2
  <2> SUFFICES ASSUME x \notin T PROVE FALSE
    OBVIOUS
  <2>3. rank[x] \in D
    OBVIOUS
  <2> QED
    BY <1>3, <1>4, <2>1, <2>2, <2>3
<1> QED
  BY <1>4, <1>5

-----------------------------------------------------------------------------
(* Above: the definition has a value, by induction over the ranks.         *)

AboveOf(F, g) ==
  {g, RootResultGroup} \cup UNION {F[i] : i \in {j \in Items : g \in Range(Children[j])}}

\* F is right for the items of at least a rank
AboveFrom(F, rank, n) ==
  \A g \in Groups : (g \in Items => rank[g] + n > Cardinality(Items)) => F[g] = AboveOf(F, g)
HasAbove(rank, n) == \E F \in [Groups -> SUBSET Groups] : AboveFrom(F, rank, n)

LEMMA AboveEquation == \A g \in Groups : Above[g] = AboveOf(Above, g)
<1>1. PICK rank \in Ranks : Ranked(rank)
  BY RankExists
<1> DEFINE T == {n \in Nat : HasAbove(rank, n)}
<1>2. AboveOf([g \in Groups |-> {g, RootResultGroup}], RootResultGroup) = {RootResultGroup}
  BY ItemFacts DEF AboveOf
<1>3. 0 \in T
  <2>1. PICK F : F = [g \in Groups |-> {g, RootResultGroup}]
    OBVIOUS
  <2>2. F \in [Groups -> SUBSET Groups]
    BY <2>1 DEF Groups
  <2>3. ASSUME NEW g \in Groups, g \in Items => rank[g] + 0 > Cardinality(Items)
        PROVE  F[g] = AboveOf(F, g)
    <3>1. g = RootResultGroup
      BY <2>3, RankBound DEF Groups
    <3>2. F[g] = {RootResultGroup}
      BY <2>1, <3>1
    <3> QED
      BY <1>2, <2>1, <3>1, <3>2
  <2>4. AboveFrom(F, rank, 0)
    BY <2>3 DEF AboveFrom
  <2> QED
    BY <2>2, <2>4 DEF HasAbove
<1>4. ASSUME NEW n \in Nat, n \in T PROVE n + 1 \in T
  <2>1. PICK F \in [Groups -> SUBSET Groups] : AboveFrom(F, rank, n)
    BY <1>4 DEF HasAbove
  <2>2. PICK H : H = [g \in Groups |-> AboveOf(F, g)]
    OBVIOUS
  <2>3. ASSUME NEW g \in Groups PROVE AboveOf(F, g) \in SUBSET Groups
    <3>1. \A i \in Items : F[i] \in SUBSET Groups
      BY <2>1, ItemFacts
    <3> QED
      BY <3>1, ItemFacts DEF AboveOf
  <2>4. H \in [Groups -> SUBSET Groups]
    BY <2>2, <2>3
  <2>5. ASSUME NEW g \in Groups, g \in Items => rank[g] + n > Cardinality(Items)
        PROVE  H[g] = F[g]
    BY <2>1, <2>2, <2>5 DEF AboveFrom
  <2>6. ASSUME NEW g \in Groups, g \in Items => rank[g] + (n + 1) > Cardinality(Items)
        PROVE  H[g] = AboveOf(H, g)
    <3>1. ASSUME NEW i \in Items, g \in Range(Children[i]) PROVE H[i] = F[i]
      <4>1. g \in Items
        BY <3>1, ItemFacts DEF Groups
      <4>2. rank[g] < rank[i]
        BY <1>1, <3>1, <4>1 DEF Ranked
      <4>3. rank[i] + n > Cardinality(Items)
        BY <2>6, <4>1, <4>2, RankBound
      <4> QED
        BY <2>5, <4>3, ItemFacts
    <3>2. AboveOf(H, g) = AboveOf(F, g)
      BY <3>1 DEF AboveOf
    <3> QED
      BY <2>2, <3>2
  <2>7. AboveFrom(H, rank, n + 1)
    BY <2>6 DEF AboveFrom
  <2> QED
    BY <2>4, <2>7 DEF HasAbove
<1>5. Nat \subseteq T
  <2> HIDE DEF T
  <2> QED
    BY <1>3, <1>4, Induction
<1>6. PICK F \in [Groups -> SUBSET Groups] : AboveFrom(F, rank, Cardinality(Items) + 1)
  <2>1. Cardinality(Items) + 1 \in T
    BY <1>5, RankBound
  <2> QED
    BY <2>1 DEF HasAbove
<1>7. \A g \in Groups : F[g] = AboveOf(F, g)
  <2>1. \A g \in Items : rank[g] + (Cardinality(Items) + 1) > Cardinality(Items)
    BY <1>1, RankBound
  <2> QED
    BY <1>6, <2>1 DEF AboveFrom
<1> DEFINE eq(h) == h = [g \in Groups |->
               {g, RootResultGroup} \cup UNION {h[i] : i \in {j \in Items : g \in Range(Children[j])}}]
<1>8. \E h : eq(h)
  <2>1. F = [g \in Groups |-> AboveOf(F, g)]
    BY <1>7
  <2>2. eq(F)
    BY <2>1 DEF AboveOf
  <2> QED
    BY <2>2
<1>9. PICK a : a = CHOOSE h : eq(h)
  OBVIOUS
<1>10. Above = a
  BY <1>9 DEF Above
<1>11. eq(a)
  <2> HIDE DEF eq
  <2> QED
    BY <1>8, <1>9
<1>12. \A g \in Groups : a[g] = AboveOf(a, g)
  BY <1>11 DEF AboveOf
<1> QED
  BY <1>10, <1>12

LEMMA AboveFacts ==
  /\ Above[RootResultGroup] = {RootResultGroup}
  /\ \A g \in Groups : g \in Above[g] /\ RootResultGroup \in Above[g]
  /\ \A i, g \in Items : g \in Range(Children[i]) => Above[i] \subseteq Above[g]
  /\ \A g, x \in Items : x \in Above[g] =>
       x = g \/ \E i \in Items : g \in Range(Children[i]) /\ x \in Above[i]
<1>1. Above[RootResultGroup] = {RootResultGroup}
  BY AboveEquation, ItemFacts DEF AboveOf
<1>2. ASSUME NEW g \in Groups PROVE g \in Above[g] /\ RootResultGroup \in Above[g]
  BY AboveEquation DEF AboveOf
<1>3. ASSUME NEW i \in Items, NEW g \in Items, g \in Range(Children[i])
      PROVE  Above[i] \subseteq Above[g]
  BY <1>3, AboveEquation, ItemFacts DEF AboveOf
<1>4. ASSUME NEW g \in Items, NEW x \in Items, x \in Above[g]
      PROVE  x = g \/ \E i \in Items : g \in Range(Children[i]) /\ x \in Above[i]
  BY <1>4, AboveEquation, ItemFacts DEF AboveOf
<1> QED
  BY <1>1, <1>2, <1>3, <1>4

(* The ranks rise along the items above a group, and one of any two of     *)
(* these is above the other.                                               *)
LEMMA AboveRises ==
  ASSUME NEW rank \in Ranks, Ranked(rank)
  PROVE  \A g, x \in Items : x \in Above[g] => rank[g] <= rank[x]
<1> DEFINE T == {g \in Items : \A x \in Items : x \in Above[g] => rank[g] <= rank[x]}
<1>1. ASSUME NEW g \in Items,
             \A i \in Items : g \in Range(Children[i]) => i \in T
      PROVE  g \in T
  <2> SUFFICES ASSUME NEW x \in Items, x \in Above[g] PROVE rank[g] <= rank[x]
    OBVIOUS
  <2>1. CASE x = g
    BY <2>1, RankBound
  <2>2. ASSUME NEW i \in Items, g \in Range(Children[i]), x \in Above[i]
        PROVE  rank[g] <= rank[x]
    <3>1. rank[i] <= rank[x]
      BY <1>1, <2>2
    <3>2. rank[g] < rank[i]
      BY <2>2 DEF Ranked
    <3> QED
      BY <3>1, <3>2, RankBound
  <2> QED
    BY <2>1, <2>2, AboveFacts
<1>2. Items \subseteq T
  <2> HIDE DEF T
  <2> QED
    BY <1>1, Downwards
<1> QED
  BY <1>2

LEMMA AboveChain ==
  \A g, x, y \in Items : x \in Above[g] /\ y \in Above[g] => x \in Above[y] \/ y \in Above[x]
<1> DEFINE T == {g \in Items : \A x, y \in Items :
                   x \in Above[g] /\ y \in Above[g] => x \in Above[y] \/ y \in Above[x]}
<1>1. ASSUME NEW g \in Items,
             \A i \in Items : g \in Range(Children[i]) => i \in T
      PROVE  g \in T
  <2> SUFFICES ASSUME NEW x \in Items, NEW y \in Items, x \in Above[g], y \in Above[g]
               PROVE  x \in Above[y] \/ y \in Above[x]
    OBVIOUS
  <2>1. CASE x = g \/ y = g
    BY <2>1
  <2>2. CASE x # g /\ y # g
    <3>1. PICK i \in Items : g \in Range(Children[i]) /\ x \in Above[i]
      BY <2>2, AboveFacts
    <3>2. PICK j \in Items : g \in Range(Children[j]) /\ y \in Above[j]
      BY <2>2, AboveFacts
    <3>3. i = j
      BY <3>1, <3>2, ItemFacts
    <3> QED
      BY <1>1, <3>1, <3>2, <3>3
  <2> QED
    BY <2>1, <2>2
<1>2. Items \subseteq T
  <2> HIDE DEF T
  <2> QED
    BY <1>1, Downwards
<1> QED
  BY <1>2

(* What is below a child of an item is below the item; what is below an    *)
(* item is it or below one of its children, and of no other one.           *)
LEMMA AboveParent ==
  ASSUME NEW i \in Items, NEW x \in Items, x \in Range(Children[i])
  PROVE  /\ \A g \in Items : x \in Above[g] => i \in Above[g]
         /\ x \notin Above[i]
<1> DEFINE T == {g \in Items : x \in Above[g] => i \in Above[g]}
<1>1. ASSUME NEW g \in Items,
             \A j \in Items : g \in Range(Children[j]) => j \in T
      PROVE  g \in T
  <2> SUFFICES ASSUME x \in Above[g] PROVE i \in Above[g]
    OBVIOUS
  <2>1. CASE x = g
    BY <2>1, AboveFacts, ItemFacts
  <2>2. ASSUME NEW j \in Items, g \in Range(Children[j]), x \in Above[j]
        PROVE  i \in Above[g]
    BY <1>1, <2>2, AboveFacts
  <2> QED
    BY <2>1, <2>2, AboveFacts
<1>2. Items \subseteq T
  <2> HIDE DEF T
  <2> QED
    BY <1>1, Downwards
<1>3. x \notin Above[i]
  <2>1. PICK rank \in Ranks : Ranked(rank)
    BY RankExists
  <2>2. rank[x] < rank[i]
    BY <2>1 DEF Ranked
  <2>3. x \in Above[i] => rank[i] <= rank[x]
    BY <2>1, AboveRises
  <2> QED
    BY <2>2, <2>3, RankBound
<1> QED
  BY <1>2, <1>3

LEMMA AboveTransitive ==
  ASSUME NEW x \in Items, NEW h \in Items, x \in Above[h]
  PROVE  \A g \in Items : h \in Above[g] => x \in Above[g]
<1> DEFINE T == {g \in Items : h \in Above[g] => x \in Above[g]}
<1>1. ASSUME NEW g \in Items,
             \A j \in Items : g \in Range(Children[j]) => j \in T
      PROVE  g \in T
  <2> SUFFICES ASSUME h \in Above[g] PROVE x \in Above[g]
    OBVIOUS
  <2>1. CASE h = g
    BY <2>1
  <2>2. ASSUME NEW j \in Items, g \in Range(Children[j]), h \in Above[j]
        PROVE  x \in Above[g]
    BY <1>1, <2>2, AboveFacts
  <2> QED
    BY <2>1, <2>2, AboveFacts
<1>2. Items \subseteq T
  <2> HIDE DEF T
  <2> QED
    BY <1>1, Downwards
<1> QED
  BY <1>2

LEMMA ChildBetween ==
  ASSUME NEW i \in Items
  PROVE  \A g \in Items : i \in Above[g] =>
           i = g \/ \E x \in Items \cap Range(Children[i]) : x \in Above[g]
<1> DEFINE T == {g \in Items : i \in Above[g] =>
                   i = g \/ \E x \in Items \cap Range(Children[i]) : x \in Above[g]}
<1>1. ASSUME NEW g \in Items,
             \A j \in Items : g \in Range(Children[j]) => j \in T
      PROVE  g \in T
  <2> SUFFICES ASSUME i \in Above[g], i # g
               PROVE  \E x \in Items \cap Range(Children[i]) : x \in Above[g]
    OBVIOUS
  <2>1. PICK j \in Items : g \in Range(Children[j]) /\ i \in Above[j]
    BY AboveFacts
  <2>2. CASE i = j
    BY <2>1, <2>2, AboveFacts, ItemFacts
  <2>3. CASE i # j
    <3>1. PICK x \in Items \cap Range(Children[i]) : x \in Above[j]
      BY <1>1, <2>1, <2>3
    <3> QED
      BY <2>1, <3>1, AboveFacts
  <2> QED
    BY <2>2, <2>3
<1>2. Items \subseteq T
  <2> HIDE DEF T
  <2> QED
    BY <1>1, Downwards
<1> QED
  BY <1>2

LEMMA ChildrenApart ==
  ASSUME NEW i \in Items, NEW x \in Items, NEW y \in Items, NEW g \in Items,
         x \in Range(Children[i]), y \in Range(Children[i]), x \in Above[g], y \in Above[g]
  PROVE  x = y
<1> SUFFICES ASSUME x # y PROVE FALSE
  OBVIOUS
<1>1. ASSUME NEW a \in Items, NEW b \in Items, a # b, a \in Above[b],
             a \in Range(Children[i]), b \in Range(Children[i])
      PROVE  FALSE
  <2>1. PICK j \in Items : b \in Range(Children[j]) /\ a \in Above[j]
    BY <1>1, AboveFacts
  <2>2. j = i
    BY <1>1, <2>1, ItemFacts
  <2> QED
    BY <1>1, <2>1, <2>2, AboveParent
<1> QED
  BY <1>1, AboveChain

-----------------------------------------------------------------------------
(* AddChildren, child by child.                                            *)

LEMMA ResultGroupType ==
  /\ \A i \in Items : EmptyGroup(i) \in ResultGroups
  /\ \A group \in ResultGroups : Walk(group) \in Seq(Controls)
BY DEF ResultGroups, EmptyGroup, Walk

LEMMA AddChildType ==
  ASSUME NEW group \in ResultGroups, NEW i \in Items, NEW x \in Range(Children[i]),
         NEW filter, NEW F, x \in Items => F[x] \in ResultGroups
  PROVE  AddChild(group, i, x, filter, F) \in ResultGroups
<1>1. CASE x \in ControlNames /\ ShouldIncludeControl(x, filter)
  <2>1. Run(x, i) \in Controls
    BY <1>1, RunsOfItem
  <2>2. PICK s \in Seq(Controls) : s = Append(group.controlRuns, Run(x, i))
    <3>1. Append(group.controlRuns, Run(x, i)) \in Seq(Controls)
      BY <2>1 DEF ResultGroups
    <3> QED
      BY <3>1, Zenon
  <2>3. ~(x \in Items)
    BY <1>1, ItemFacts
  <2>4. AddChild(group, i, x, filter, F) = [group EXCEPT !.controlRuns = s]
    BY <1>1, <2>2, <2>3 DEF AddChild
  <2> QED
    BY <2>4 DEF ResultGroups
<1>2. CASE x \in Items /\ Walk(F[x]) # <<>>
  <2>1. ~(x \in ControlNames)
    BY <1>2, ItemFacts
  <2>2. PICK s \in Seq(Controls) : s = group.below \o Walk(F[x])
    <3>1. group.below \in Seq(Controls) /\ Walk(F[x]) \in Seq(Controls)
      BY <1>2, ResultGroupType DEF ResultGroups
    <3>2. group.below \o Walk(F[x]) \in Seq(Controls)
      BY <3>1
    <3> QED
      BY <3>2, Zenon
  <2>3. PICK t \in SUBSET Items : t = group.groups \cup F[x].groups
    <3>1. F[x] \in ResultGroups
      BY <1>2
    <3>2. group.groups \cup F[x].groups \in SUBSET Items
      BY <3>1 DEF ResultGroups
    <3> QED
      BY <3>2, Zenon
  <2>4. AddChild(group, i, x, filter, F) = [group EXCEPT !.below = s, !.groups = t]
    BY <1>2, <2>1, <2>2, <2>3 DEF AddChild
  <2> QED
    BY <2>4 DEF ResultGroups
<1>3. CASE /\ ~(x \in ControlNames /\ ShouldIncludeControl(x, filter))
           /\ ~(x \in Items /\ Walk(F[x]) # <<>>)
  BY <1>3 DEF AddChild
<1> QED
  BY <1>1, <1>2, <1>3

AddsChildren(f, i, filter, F) ==
  /\ f \in [0..Len(Children[i]) -> ResultGroups]
  /\ f[0] = EmptyGroup(i)
  /\ \A k \in 1..Len(Children[i]) :
       f[k] = AddChild(f[k - 1], i, Children[i][k], filter, F)
  /\ AddChildren(i, filter, F) = f[Len(Children[i])]

LEMMA ChildSteps ==
  ASSUME NEW i \in Items, NEW filter, NEW F,
         \A x \in Items \cap Range(Children[i]) : F[x] \in ResultGroups
  PROVE  \E f : AddsChildren(f, i, filter, F)
<1>1. PICK n \in Nat : n = Len(Children[i]) /\ DOMAIN Children[i] = 1..n
  BY ItemFacts
<1>2. \A k \in 1..n : Children[i][k] \in Range(Children[i])
  BY <1>1 DEF Range
<1> DEFINE eq(h) == h = [s \in SUBSET (1..n) |->
                  IF s = {} THEN EmptyGroup(i)
                  ELSE AddChild(h[s \ {Max(s)}], i, Children[i][Max(s)], filter, F)]
           step == [p \in (1..n) \X ResultGroups |->
                      AddChild(p[2], i, Children[i][p[1]], filter, F)]
<1>3. step \in [(1..n) \X ResultGroups -> ResultGroups]
  <2>1. ASSUME NEW p \in (1..n) \X ResultGroups
        PROVE  AddChild(p[2], i, Children[i][p[1]], filter, F) \in ResultGroups
    <3>1. PICK k \in 1..n, group \in ResultGroups : k = p[1] /\ group = p[2]
      OBVIOUS
    <3>2. PICK x \in Range(Children[i]) : x = Children[i][k]
      BY <1>2, <3>1
    <3>3. AddChild(group, i, x, filter, F) \in ResultGroups
      BY AddChildType
    <3> QED
      BY <3>1, <3>2, <3>3
  <2> QED
    BY <2>1
<1>4. PICK h \in [SUBSET (1..n) -> ResultGroups] : Folds(h, n, EmptyGroup(i), step)
  <2>1. EmptyGroup(i) \in ResultGroups
    BY ResultGroupType
  <2> HIDE DEF step
  <2> QED
    BY <1>3, <2>1, FoldDefined DEF HasFold
<1>5. eq(h)
  <2>1. ASSUME NEW s \in SUBSET (1..n), s # {}
        PROVE  step[<<Max(s), h[s \ {Max(s)}]>>]
                 = AddChild(h[s \ {Max(s)}], i, Children[i][Max(s)], filter, F)
    <3>1. Max(s) \in 1..n /\ s \ {Max(s)} \in SUBSET (1..n)
      BY <1>1, <2>1, MaxWithout
    <3>2. PICK k \in 1..n, group \in ResultGroups : k = Max(s) /\ group = h[s \ {Max(s)}]
      BY <3>1
    <3>3. step[<<k, group>>] = AddChild(group, i, Children[i][k], filter, F)
      OBVIOUS
    <3> QED
      BY <3>2, <3>3
  <2> HIDE DEF step
  <2>2. \A s \in SUBSET (1..n) :
          h[s] = IF s = {} THEN EmptyGroup(i)
                 ELSE AddChild(h[s \ {Max(s)}], i, Children[i][Max(s)], filter, F)
    BY <1>4, <2>1 DEF Folds
  <2> QED
    BY <1>4, <2>2
<1>6. PICK iter : iter = CHOOSE g : eq(g)
  OBVIOUS
<1>7. AddChildren(i, filter, F) = iter[1..n]
  BY <1>1, <1>6 DEF AddChildren, FoldLeft, MapThenFoldSet
<1>8. eq(iter)
  <2> HIDE DEF eq
  <2> QED
    BY <1>5, <1>6
<1>9. PICK f : f = [k \in 0..n |-> iter[1..k]]
  OBVIOUS
<1>10. f[0] = EmptyGroup(i)
  <2>1. 1..0 = {} /\ {} \in SUBSET (1..n) /\ 0 \in 0..n
    BY <1>1
  <2>2. iter[{}] = EmptyGroup(i)
    BY <1>8, <2>1
  <2> QED
    BY <1>9, <2>1, <2>2
<1>11. ASSUME NEW k \in 1..n
       PROVE  f[k] = AddChild(f[k - 1], i, Children[i][k], filter, F)
  <2>1. 1..k \in SUBSET (1..n) /\ 1..k # {} /\ (1..k) \ {k} = 1..(k - 1) /\ Max(1..k) = k
    BY <1>1, IntervalStep
  <2>2. PICK s \in SUBSET (1..n) : s = 1..k
    BY <2>1
  <2>3. s # {} /\ Max(s) = k /\ s \ {k} = 1..(k - 1)
    BY <2>1, <2>2
  <2>4. iter[s] = AddChild(iter[s \ {k}], i, Children[i][k], filter, F)
    BY <1>8, <2>3
  <2>5. f[k] = iter[1..k] /\ f[k - 1] = iter[1..(k - 1)]
    BY <1>1, <1>9
  <2> QED
    BY <2>2, <2>3, <2>4, <2>5
<1> HIDE DEF eq, step
<1>12. f \in [0..n -> ResultGroups]
  <2> DEFINE T == {k \in Nat : k <= n => f[k] \in ResultGroups}
  <2>1. 0 \in T
    BY <1>10, ResultGroupType
  <2>2. ASSUME NEW k \in Nat, k \in T PROVE k + 1 \in T
    <3> SUFFICES ASSUME k + 1 <= n PROVE f[k + 1] \in ResultGroups
      OBVIOUS
    <3>1. f[k] \in ResultGroups /\ k + 1 \in 1..n /\ (k + 1) - 1 = k
      BY <2>2
    <3>2. f[k + 1] = AddChild(f[(k + 1) - 1], i, Children[i][k + 1], filter, F)
      BY <1>11, <3>1
    <3>3. Children[i][k + 1] \in Range(Children[i])
      BY <1>2, <3>1
    <3> QED
      BY <3>1, <3>2, <3>3, AddChildType
  <2>3. Nat \subseteq T
    <3> HIDE DEF T
    <3> QED
      BY <2>1, <2>2, Induction
  <2>4. \A k \in 0..n : f[k] \in ResultGroups
    BY <2>3
  <2> QED
    BY <1>9, <2>4
<1>13. f[n] = iter[1..n]
  BY <1>9
<1> QED
  BY <1>1, <1>7, <1>10, <1>11, <1>12, <1>13 DEF AddsChildren

(* The group of an item depends on those of its children only.             *)
LEMMA ChildrenDecide ==
  ASSUME NEW i \in Items, NEW filter,
         NEW F \in [Items -> ResultGroups], NEW H \in [Items -> ResultGroups],
         \A x \in Items \cap Range(Children[i]) : F[x] = H[x]
  PROVE  AddChildren(i, filter, F) = AddChildren(i, filter, H)
<1>1. PICK f : AddsChildren(f, i, filter, F)
  BY ChildSteps
<1>2. PICK h : AddsChildren(h, i, filter, H)
  BY ChildSteps
<1>3. PICK n \in Nat : n = Len(Children[i]) /\ DOMAIN Children[i] = 1..n
  BY ItemFacts
<1> DEFINE T == {k \in Nat : k <= n => f[k] = h[k]}
<1>4. 0 \in T
  BY <1>1, <1>2 DEF AddsChildren
<1>5. ASSUME NEW k \in Nat, k \in T PROVE k + 1 \in T
  <2> SUFFICES ASSUME k + 1 <= n PROVE f[k + 1] = h[k + 1]
    OBVIOUS
  <2>1. f[k] = h[k] /\ k + 1 \in 1..n /\ (k + 1) - 1 = k
    BY <1>5
  <2>2. PICK x : x = Children[i][k + 1]
    OBVIOUS
  <2>3. x \in Range(Children[i])
    BY <1>3, <2>1, <2>2 DEF Range
  <2>4. f[k + 1] = AddChild(f[k], i, x, filter, F)
    BY <1>1, <1>3, <2>1, <2>2 DEF AddsChildren
  <2>5. h[k + 1] = AddChild(h[k], i, x, filter, H)
    BY <1>2, <1>3, <2>1, <2>2 DEF AddsChildren
  <2>6. x \in Items => F[x] = H[x]
    BY <2>3
  <2> QED
    BY <2>1, <2>4, <2>5, <2>6 DEF AddChild
<1>6. Nat \subseteq T
  <2> HIDE DEF T
  <2> QED
    BY <1>4, <1>5, Induction
<1>7. f[n] = h[n]
  BY <1>6
<1> QED
  BY <1>1, <1>2, <1>3, <1>7 DEF AddsChildren

(* NewResultGroup has a value for every item, by induction over the ranks. *)
GroupsTo(F, filter, rank, n) ==
  \A i \in Items : rank[i] < n => F[i] = AddChildren(i, filter, F)
HasGroups(filter, rank, n) ==
  \E F \in [Items -> ResultGroups] : GroupsTo(F, filter, rank, n)

IsGroups(F, filter) ==
  /\ F \in [Items -> ResultGroups]
  /\ \A i \in Items : F[i] = AddChildren(i, filter, F)
  /\ \A i \in Items : NewResultGroup(i, filter) = F[i]

LEMMA GroupsExist ==
  ASSUME NEW filter
  PROVE  \E F : IsGroups(F, filter)
<1>1. PICK rank \in Ranks : Ranked(rank)
  BY RankExists
<1> DEFINE T == {n \in Nat : HasGroups(filter, rank, n)}
<1>2. ASSUME NEW F, NEW i \in Items,
             \A x \in Items \cap Range(Children[i]) : F[x] \in ResultGroups
      PROVE  AddChildren(i, filter, F) \in ResultGroups
  <2>1. PICK f : AddsChildren(f, i, filter, F)
    BY <1>2, ChildSteps
  <2>2. Len(Children[i]) \in 0..Len(Children[i])
    BY ItemFacts
  <2> QED
    BY <2>1, <2>2 DEF AddsChildren
<1>3. 0 \in T
  <2>1. PICK F : F = [i \in Items |-> EmptyGroup(i)]
    OBVIOUS
  <2>2. F \in [Items -> ResultGroups]
    BY <2>1, ResultGroupType
  <2>3. GroupsTo(F, filter, rank, 0)
    BY RankBound DEF GroupsTo
  <2> QED
    BY <2>2, <2>3 DEF HasGroups
<1>4. ASSUME NEW n \in Nat, n \in T PROVE n + 1 \in T
  <2>1. PICK F \in [Items -> ResultGroups] : GroupsTo(F, filter, rank, n)
    BY <1>4 DEF HasGroups
  <2>2. PICK H : H = [i \in Items |-> AddChildren(i, filter, F)]
    OBVIOUS
  <2>3. H \in [Items -> ResultGroups]
    BY <1>2, <2>2
  <2>4. ASSUME NEW i \in Items, rank[i] < n PROVE H[i] = F[i]
    BY <2>1, <2>2, <2>4 DEF GroupsTo
  <2>5. ASSUME NEW i \in Items, rank[i] < n + 1
        PROVE  H[i] = AddChildren(i, filter, H)
    <3>1. ASSUME NEW x \in Items \cap Range(Children[i]) PROVE F[x] = H[x]
      <4>1. rank[x] < rank[i]
        BY <1>1 DEF Ranked
      <4>2. rank[x] < n
        BY <2>5, <4>1, RankBound
      <4> QED
        BY <2>4, <4>2
    <3>2. AddChildren(i, filter, F) = AddChildren(i, filter, H)
      BY <2>3, <3>1, ChildrenDecide
    <3> QED
      BY <2>2, <3>2
  <2>6. GroupsTo(H, filter, rank, n + 1)
    BY <2>5 DEF GroupsTo
  <2> QED
    BY <2>3, <2>6 DEF HasGroups
<1>5. Nat \subseteq T
  <2> HIDE DEF T
  <2> QED
    BY <1>3, <1>4, Induction
<1>6. PICK F \in [Items -> ResultGroups] : GroupsTo(F, filter, rank, Cardinality(Items) + 1)
  <2>1. Cardinality(Items) + 1 \in T
    BY <1>5, RankBound
  <2> QED
    BY <2>1 DEF HasGroups
<1>7. \A i \in Items : F[i] = AddChildren(i, filter, F)
  <2>1. \A i \in Items : rank[i] < Cardinality(Items) + 1
    BY RankBound
  <2> QED
    BY <1>6, <2>1 DEF GroupsTo
<1> DEFINE eq(h) == h = [i \in Items |-> AddChildren(i, filter, h)]
<1>8. eq(F)
  BY <1>7
<1>9. PICK G : G = CHOOSE h : eq(h)
  OBVIOUS
<1>10. ASSUME NEW i \in Items PROVE NewResultGroup(i, filter) = G[i]
  BY <1>9 DEF NewResultGroup
<1>11. eq(G)
  <2> HIDE DEF eq
  <2> QED
    BY <1>8, <1>9
<1>12. \A i \in Items : G[i] = AddChildren(i, filter, G)
  BY <1>11
<1> HIDE DEF eq
<1>13. G \in [Items -> ResultGroups]
  <2> DEFINE U == {i \in Items : G[i] \in ResultGroups}
  <2>1. ASSUME NEW i \in Items, \A x \in Items \cap Range(Children[i]) : x \in U
        PROVE  i \in U
    <3>1. \A x \in Items \cap Range(Children[i]) : G[x] \in ResultGroups
      BY <2>1
    <3> HIDE DEF U
    <3>2. AddChildren(i, filter, G) \in ResultGroups
      BY <1>2, <3>1
    <3> QED
      BY <1>12, <3>2 DEF U
  <2>2. Items \subseteq U
    <3> HIDE DEF U
    <3> QED
      BY <2>1, Upwards
  <2>3. \A i \in Items : G[i] \in ResultGroups
    BY <2>2
  <2>4. G = [i \in Items |-> AddChildren(i, filter, G)]
    BY <1>11 DEF eq
  <2> QED
    BY <1>12, <2>3, <2>4
<1> QED
  BY <1>10, <1>12, <1>13 DEF IsGroups

-----------------------------------------------------------------------------
(* The runs of a group are those that are selected, each of them once.     *)

LEMMA AppendRun ==
  ASSUME NEW a \in Seq(Controls), NEW r \in Controls, IsInjective(a), r \notin Range(a)
  PROVE  /\ Append(a, r) \in Seq(Controls) /\ IsInjective(Append(a, r))
         /\ Range(Append(a, r)) = Range(a) \cup {r}
<1>1. PICK n \in Nat : n = Len(a) /\ DOMAIN a = 1..n
  OBVIOUS
<1>2. PICK q \in Seq(Controls) : q = Append(a, r)
  <2>1. Append(a, r) \in Seq(Controls)
    OBVIOUS
  <2> QED
    BY <2>1, Zenon
<1>3. /\ DOMAIN q = 1..(n + 1) /\ q[n + 1] = r
      /\ \A k \in 1..n : q[k] = a[k]
  BY <1>1, <1>2
<1>4. n + 1 \in 1..(n + 1) /\ (\A k \in 1..n : k \in 1..(n + 1))
      /\ \A k \in 1..(n + 1) : k \in 1..n \/ k = n + 1
  BY <1>1
<1>5. \A k \in 1..n : a[k] # r
  BY <1>1 DEF Range
<1>6. IsInjective(q)
  BY <1>1, <1>3, <1>4, <1>5 DEF IsInjective
<1>7. Range(q) = Range(a) \cup {r}
  <2>1. ASSUME NEW x \in Range(q) PROVE x \in Range(a) \cup {r}
    BY <1>1, <1>3, <1>4, <2>1 DEF Range
  <2>2. ASSUME NEW x \in Range(a) \cup {r} PROVE x \in Range(q)
    BY <1>1, <1>3, <1>4, <2>2 DEF Range
  <2> QED
    BY <2>1, <2>2
<1> QED
  BY <1>2, <1>6, <1>7

LEMMA JoinRuns ==
  ASSUME NEW a \in Seq(Controls), NEW b \in Seq(Controls), IsInjective(a), IsInjective(b),
         Range(a) \cap Range(b) = {}
  PROVE  /\ a \o b \in Seq(Controls) /\ IsInjective(a \o b)
         /\ Range(a \o b) = Range(a) \cup Range(b)
<1>1. PICK n \in Nat : n = Len(a) /\ DOMAIN a = 1..n
  OBVIOUS
<1>2. PICK m \in Nat : m = Len(b) /\ DOMAIN b = 1..m
  OBVIOUS
<1>3. PICK q \in Seq(Controls) : q = a \o b
  <2>1. a \o b \in Seq(Controls)
    OBVIOUS
  <2> QED
    BY <2>1, Zenon
<1>4. /\ DOMAIN q = 1..(n + m)
      /\ \A k \in 1..n : q[k] = a[k]
      /\ \A k \in 1..m : q[n + k] = b[k]
  BY <1>1, <1>2, <1>3
<1>5. \A k \in 1..(n + m) : k \in 1..n \/ (k - n \in 1..m /\ k = n + (k - n))
  BY <1>1, <1>2
<1>6. (\A k \in 1..n : k \in 1..(n + m)) /\ \A k \in 1..m : n + k \in 1..(n + m)
  BY <1>1, <1>2
<1>7. \A k \in 1..(n + m) : \/ k \in 1..n /\ q[k] = a[k]
                            \/ k - n \in 1..m /\ q[k] = b[k - n]
  <2>1. ASSUME NEW k \in 1..(n + m), k - n \in 1..m, k = n + (k - n)
        PROVE  q[k] = b[k - n]
    <3>1. q[n + (k - n)] = b[k - n]
      BY <1>4, <2>1
    <3> QED
      BY <2>1, <3>1
  <2> QED
    BY <1>4, <1>5, <2>1
<1>8. \A k \in 1..n, l \in 1..m : a[k] # b[l]
  BY <1>1, <1>2 DEF Range
<1>9. IsInjective(q)
  <2> SUFFICES ASSUME NEW k \in 1..(n + m), NEW l \in 1..(n + m), q[k] = q[l]
               PROVE  k = l
    BY <1>4 DEF IsInjective
  <2>1. CASE k \in 1..n /\ q[k] = a[k] /\ l \in 1..n /\ q[l] = a[l]
    BY <1>1, <2>1 DEF IsInjective
  <2>2. CASE k - n \in 1..m /\ q[k] = b[k - n] /\ l - n \in 1..m /\ q[l] = b[l - n]
    <3>1. k - n = l - n
      BY <1>2, <2>2 DEF IsInjective
    <3> QED
      BY <1>1, <3>1
  <2> QED
    BY <1>7, <1>8, <2>1, <2>2
<1>10. Range(q) = Range(a) \cup Range(b)
  <2>1. ASSUME NEW x \in Range(q) PROVE x \in Range(a) \cup Range(b)
    <3>1. PICK k \in 1..(n + m) : x = q[k]
      BY <1>4, <2>1 DEF Range
    <3>2. CASE k \in 1..n /\ x = a[k]
      BY <1>1, <3>2 DEF Range
    <3>3. CASE k - n \in 1..m /\ x = b[k - n]
      BY <1>2, <3>3 DEF Range
    <3> QED
      BY <1>7, <3>1, <3>2, <3>3
  <2>2. ASSUME NEW x \in Range(a) PROVE x \in Range(q)
    <3>1. PICK k \in 1..n : x = a[k]
      BY <1>1, <2>2 DEF Range
    <3> QED
      BY <1>4, <1>6, <3>1 DEF Range
  <2>3. ASSUME NEW x \in Range(b) PROVE x \in Range(q)
    <3>1. PICK k \in 1..m : x = b[k]
      BY <1>2, <2>3 DEF Range
    <3> QED
      BY <1>4, <1>6, <3>1 DEF Range
  <2> QED
    BY <2>1, <2>2, <2>3
<1> QED
  BY <1>3, <1>9, <1>10

(* What is selected below an item.                                         *)
LEMMA SelectedItem ==
  ASSUME NEW i \in Items, NEW filter
  PROVE  \A r : r \in Selected(i, filter) <=>
           /\ r \in Controls /\ r.group \in Items
           /\ ShortName[r.control] \in filter /\ i \in Above[r.group]
<1>1. i \notin ControlNames /\ i # RootResultGroup
  BY ItemFacts
<1>2. \A r \in Controls : r.group = RootResultGroup => i \notin Above[r.group]
  BY <1>1, AboveFacts
<1>3. \A r \in Controls : r.group \in Items \/ r.group = RootResultGroup
  BY RunsOfItem DEF Groups
<1> QED
  BY <1>1, <1>2, <1>3 DEF Selected

(* The first children of an item, and the runs that are added for them.    *)
First(i, k) == {Children[i][m] : m \in 1..k}
OwnRuns(i, filter, k) ==
  {Run(c, i) : c \in {x \in First(i, k) : x \in ControlNames /\ ShouldIncludeControl(x, filter)}}
RunsBelow(i, filter, k) == UNION {Selected(x, filter) : x \in First(i, k) \cap Items}

(* The groups at and below an item that have a run.                        *)
ItemGroups(i, filter) ==
  {i} \cup {g \in Items : i \in Above[g] /\ \E r \in Selected(i, filter) : g \in Above[r.group]}
GroupsBelow(i, filter, k) ==
  UNION {ItemGroups(x, filter) : x \in {y \in First(i, k) \cap Items : Selected(y, filter) # {}}}

RightTo(group, i, filter, k) ==
  /\ group \in ResultGroups
  /\ IsInjective(group.controlRuns) /\ Range(group.controlRuns) = OwnRuns(i, filter, k)
  /\ IsInjective(group.below) /\ Range(group.below) = RunsBelow(i, filter, k)
  /\ group.groups = {i} \cup GroupsBelow(i, filter, k)

RightGroup(group, i, filter) ==
  /\ group \in ResultGroups
  /\ IsInjective(Walk(group)) /\ Range(Walk(group)) = Selected(i, filter)
  /\ group.groups = ItemGroups(i, filter)

LEMMA FirstFacts ==
  ASSUME NEW i \in Items
  PROVE  /\ First(i, 0) = {}
         /\ \A k \in 1..Len(Children[i]) :
              /\ First(i, k) = First(i, k - 1) \cup {Children[i][k]}
              /\ Children[i][k] \notin First(i, k - 1)
              /\ Children[i][k] \in Range(Children[i])
              /\ First(i, k) \subseteq Range(Children[i])
         /\ First(i, Len(Children[i])) = Range(Children[i])
<1>1. PICK n \in Nat : n = Len(Children[i]) /\ DOMAIN Children[i] = 1..n
  BY ItemFacts
<1>2. First(i, 0) = {}
  BY DEF First
<1>3. First(i, n) = Range(Children[i])
  BY <1>1 DEF First, Range
<1>4. ASSUME NEW k \in 1..n
      PROVE  /\ First(i, k) = First(i, k - 1) \cup {Children[i][k]}
             /\ Children[i][k] \notin First(i, k - 1)
             /\ Children[i][k] \in Range(Children[i])
             /\ First(i, k) \subseteq Range(Children[i])
  <2>1. \A m \in 1..k : m \in 1..(k - 1) \/ m = k
    OBVIOUS
  <2>2. k \in 1..k /\ \A m \in 1..(k - 1) : m \in 1..k /\ m # k
    OBVIOUS
  <2>3. First(i, k) = First(i, k - 1) \cup {Children[i][k]}
    BY <2>1, <2>2 DEF First
  <2>4. \A m \in 1..k : m \in DOMAIN Children[i]
    BY <1>1
  <2>5. Children[i][k] \notin First(i, k - 1)
    <3>1. IsInjective(Children[i])
      BY ItemsAssumption
    <3>2. \A m \in 1..(k - 1) : Children[i][m] # Children[i][k]
      BY <2>2, <2>4, <3>1 DEF IsInjective
    <3> QED
      BY <3>2 DEF First
  <2>6. First(i, k) \subseteq Range(Children[i])
    BY <2>4 DEF First, Range
  <2> QED
    BY <2>2, <2>3, <2>4, <2>5, <2>6 DEF Range
<1> QED
  BY <1>1, <1>2, <1>3, <1>4

LEMMA AddChildRight ==
  ASSUME NEW i \in Items, NEW filter, NEW F, NEW k \in 1..Len(Children[i]), NEW group, NEW x,
         x = Children[i][k], RightTo(group, i, filter, k - 1),
         x \in Items => RightGroup(F[x], x, filter)
  PROVE  RightTo(AddChild(group, i, x, filter, F), i, filter, k)
<1>1. /\ First(i, k) = First(i, k - 1) \cup {x} /\ x \notin First(i, k - 1)
      /\ x \in Range(Children[i]) /\ First(i, k) \subseteq Range(Children[i])
  BY FirstFacts
<1>2. group \in ResultGroups /\ group.controlRuns \in Seq(Controls) /\ group.below \in Seq(Controls)
  BY DEF RightTo, ResultGroups
<1>3. AddChild(group, i, x, filter, F) \in ResultGroups
  BY <1>1, <1>2, AddChildType DEF RightGroup
<1>4. CASE x \in ControlNames /\ ShouldIncludeControl(x, filter)
  <2>1. x \notin Items
    BY <1>4, ItemFacts
  <2>2. Run(x, i) \in Controls
    BY <1>1, <1>4, RunsOfItem
  <2>3. Run(x, i) \notin Range(group.controlRuns)
    BY <1>1 DEF RightTo, OwnRuns, Run
  <2>4. PICK s \in Seq(Controls) : s = Append(group.controlRuns, Run(x, i))
    <3>1. Append(group.controlRuns, Run(x, i)) \in Seq(Controls)
      BY <1>2, <2>2
    <3> QED
      BY <3>1, Zenon
  <2>5. IsInjective(s) /\ Range(s) = Range(group.controlRuns) \cup {Run(x, i)}
    BY <1>2, <2>2, <2>3, <2>4, AppendRun DEF RightTo
  <2>6. PICK new \in ResultGroups : new = AddChild(group, i, x, filter, F)
    BY <1>3, Zenon
  <2>7. new.controlRuns = s /\ new.below = group.below /\ new.groups = group.groups
    <3>1. new = [group EXCEPT !.controlRuns = s]
      BY <1>4, <2>1, <2>4, <2>6 DEF AddChild
    <3> QED
      BY <1>2, <3>1 DEF ResultGroups
  <2>8. OwnRuns(i, filter, k) = OwnRuns(i, filter, k - 1) \cup {Run(x, i)}
    BY <1>1, <1>4 DEF OwnRuns
  <2>9. /\ RunsBelow(i, filter, k) = RunsBelow(i, filter, k - 1)
        /\ GroupsBelow(i, filter, k) = GroupsBelow(i, filter, k - 1)
    <3>1. First(i, k) \cap Items = First(i, k - 1) \cap Items
      BY <1>1, <2>1
    <3> QED
      BY <3>1 DEF RunsBelow, GroupsBelow
  <2>10. RightTo(new, i, filter, k)
    BY <2>5, <2>7, <2>8, <2>9 DEF RightTo
  <2> QED
    BY <2>6, <2>10
<1>5. CASE ~(x \in ControlNames /\ ShouldIncludeControl(x, filter))
  <2>1. OwnRuns(i, filter, k) = OwnRuns(i, filter, k - 1)
    <3>1. {y \in First(i, k) : y \in ControlNames /\ ShouldIncludeControl(y, filter)}
            = {y \in First(i, k - 1) : y \in ControlNames /\ ShouldIncludeControl(y, filter)}
      BY <1>1, <1>5
    <3> QED
      BY <3>1 DEF OwnRuns
  <2>2. CASE x \notin Items
    <3>1. AddChild(group, i, x, filter, F) = group
      BY <1>5, <2>2 DEF AddChild
    <3>2. First(i, k) \cap Items = First(i, k - 1) \cap Items
      BY <1>1, <2>2
    <3>3. /\ RunsBelow(i, filter, k) = RunsBelow(i, filter, k - 1)
          /\ GroupsBelow(i, filter, k) = GroupsBelow(i, filter, k - 1)
      BY <3>2 DEF RunsBelow, GroupsBelow
    <3> QED
      BY <2>1, <3>1, <3>3 DEF RightTo
  <2>3. CASE x \in Items
    <3>1. RunsBelow(i, filter, k) = RunsBelow(i, filter, k - 1) \cup Selected(x, filter)
      <4>1. First(i, k) \cap Items = (First(i, k - 1) \cap Items) \cup {x}
        BY <1>1, <2>3
      <4> QED
        BY <4>1 DEF RunsBelow
    <3>5. GroupsBelow(i, filter, k) = GroupsBelow(i, filter, k - 1) \cup
                                        (IF Selected(x, filter) = {} THEN {} ELSE ItemGroups(x, filter))
      <4>1. {y \in First(i, k) \cap Items : Selected(y, filter) # {}}
              = {y \in First(i, k - 1) \cap Items : Selected(y, filter) # {}} \cup
                (IF Selected(x, filter) = {} THEN {} ELSE {x})
        BY <1>1, <2>3
      <4> QED
        BY <4>1 DEF GroupsBelow
    <3>2. /\ Walk(F[x]) \in Seq(Controls) /\ IsInjective(Walk(F[x]))
          /\ Range(Walk(F[x])) = Selected(x, filter)
      BY <2>3, ResultGroupType DEF RightGroup
    <3>3. CASE Walk(F[x]) = <<>>
      <4>1. Selected(x, filter) = {}
        BY <3>2, <3>3 DEF Range
      <4>2. AddChild(group, i, x, filter, F) = group
        BY <1>5, <3>3 DEF AddChild
      <4> QED
        BY <2>1, <3>1, <3>5, <4>1, <4>2 DEF RightTo
    <3>4. CASE Walk(F[x]) # <<>>
      <4>1. ASSUME NEW r \in Range(group.below), r \in Selected(x, filter) PROVE FALSE
        <5>1. PICK y \in First(i, k - 1) \cap Items : r \in Selected(y, filter)
          BY DEF RightTo, RunsBelow
        <5>2. y # x /\ y \in Range(Children[i])
          BY <1>1
        <5>3. r.group \in Items /\ x \in Above[r.group]
          BY <2>3, <4>1, SelectedItem
        <5>4. y \in Above[r.group]
          BY <5>1, SelectedItem
        <5> QED
          BY <1>1, <2>3, <5>2, <5>3, <5>4, ChildrenApart
      <4>2. Range(group.below) \cap Range(Walk(F[x])) = {}
        BY <3>2, <4>1
      <4>3. PICK s \in Seq(Controls) : s = group.below \o Walk(F[x])
        <5>1. group.below \o Walk(F[x]) \in Seq(Controls)
          BY <1>2, <3>2
        <5> QED
          BY <5>1, Zenon
      <4>4. IsInjective(s) /\ Range(s) = Range(group.below) \cup Selected(x, filter)
        BY <1>2, <3>2, <4>2, <4>3, JoinRuns DEF RightTo
      <4>5. PICK new \in ResultGroups : new = AddChild(group, i, x, filter, F)
        BY <1>3, Zenon
      <4>6. /\ new.controlRuns = group.controlRuns /\ new.below = s
            /\ new.groups = group.groups \cup ItemGroups(x, filter)
        <5>1. PICK t : t = group.groups \cup F[x].groups
          OBVIOUS
        <5>2. new = [group EXCEPT !.below = s, !.groups = t]
          BY <1>5, <2>3, <3>4, <4>3, <4>5, <5>1 DEF AddChild
        <5>3. new.controlRuns = group.controlRuns /\ new.below = s /\ new.groups = t
          BY <1>2, <5>2 DEF ResultGroups
        <5> QED
          BY <2>3, <5>1, <5>3 DEF RightGroup
      <4>7. Selected(x, filter) # {}
        <5>1. 1 \in DOMAIN Walk(F[x])
          BY <3>2, <3>4
        <5> QED
          BY <3>2, <5>1 DEF Range
      <4>8. new.groups = {i} \cup GroupsBelow(i, filter, k)
        BY <3>5, <4>6, <4>7 DEF RightTo
      <4>9. RightTo(new, i, filter, k)
        BY <2>1, <3>1, <4>4, <4>6, <4>8 DEF RightTo
      <4> QED
        BY <4>5, <4>9
    <3> QED
      BY <3>3, <3>4
  <2> QED
    BY <2>2, <2>3
<1> QED
  BY <1>4, <1>5

LEMMA AddChildrenRight ==
  ASSUME NEW i \in Items, NEW filter, NEW F,
         \A x \in Items \cap Range(Children[i]) : RightGroup(F[x], x, filter)
  PROVE  RightTo(AddChildren(i, filter, F), i, filter, Len(Children[i]))
<1>1. PICK f : AddsChildren(f, i, filter, F)
  <2>1. \A x \in Items \cap Range(Children[i]) : F[x] \in ResultGroups
    BY DEF RightGroup
  <2> QED
    BY <2>1, ChildSteps
<1>2. PICK n \in Nat : n = Len(Children[i])
  BY ItemFacts
<1> DEFINE T == {k \in Nat : k <= n => RightTo(f[k], i, filter, k)}
<1>3. 0 \in T
  <2>1. f[0] = EmptyGroup(i)
    BY <1>1 DEF AddsChildren
  <2>2. PICK new \in ResultGroups : new = EmptyGroup(i)
    BY ResultGroupType
  <2>3. new.controlRuns = <<>> /\ new.below = <<>> /\ new.groups = {i}
    BY <2>2 DEF EmptyGroup
  <2>4. IsInjective(<<>>) /\ Range(<<>>) = {}
    BY DEF IsInjective, Range
  <2>5. OwnRuns(i, filter, 0) = {} /\ RunsBelow(i, filter, 0) = {} /\ GroupsBelow(i, filter, 0) = {}
    BY FirstFacts DEF OwnRuns, RunsBelow, GroupsBelow
  <2>6. RightTo(new, i, filter, 0)
    BY <2>3, <2>4, <2>5 DEF RightTo
  <2> QED
    BY <2>1, <2>2, <2>6
<1>4. ASSUME NEW k \in Nat, k \in T PROVE k + 1 \in T
  <2> SUFFICES ASSUME k + 1 <= n PROVE RightTo(f[k + 1], i, filter, k + 1)
    OBVIOUS
  <2>1. PICK m \in 1..n : m = k + 1
    OBVIOUS
  <2>2. RightTo(f[m - 1], i, filter, m - 1)
    <3>1. k <= n /\ m - 1 = k
      BY <2>1
    <3> QED
      BY <1>4, <3>1
  <2>3. PICK x : x = Children[i][m]
    OBVIOUS
  <2>4. f[m] = AddChild(f[m - 1], i, x, filter, F)
    BY <1>1, <1>2, <2>3 DEF AddsChildren
  <2>5. x \in Range(Children[i])
    BY <1>2, <2>3, FirstFacts
  <2>6. RightTo(AddChild(f[m - 1], i, x, filter, F), i, filter, m)
    BY <1>2, <2>2, <2>3, <2>5, AddChildRight
  <2> QED
    BY <2>1, <2>4, <2>6
<1>5. Nat \subseteq T
  <2> HIDE DEF T
  <2> QED
    BY <1>3, <1>4, Induction
<1>6. RightTo(f[n], i, filter, n)
  BY <1>5
<1> QED
  BY <1>1, <1>2, <1>6 DEF AddsChildren

LEMMA WholeGroupRight ==
  ASSUME NEW i \in Items, NEW filter, NEW group,
         RightTo(group, i, filter, Len(Children[i]))
  PROVE  RightGroup(group, i, filter)
<1>1. First(i, Len(Children[i])) = Range(Children[i])
  BY FirstFacts
<1>2. \A r : r \in Range(group.controlRuns) <=>
               \E c \in Range(Children[i]) : /\ c \in ControlNames /\ ShouldIncludeControl(c, filter)
                                             /\ r = Run(c, i)
  BY <1>1 DEF RightTo, OwnRuns
<1>3. \A r : r \in Range(group.below) <=>
               \E x \in Range(Children[i]) \cap Items : r \in Selected(x, filter)
  BY <1>1 DEF RightTo, RunsBelow
<1>4. ASSUME NEW r, r \in Range(group.controlRuns)
      PROVE  r \in Selected(i, filter) /\ r.group = i
  <2>1. PICK c \in Range(Children[i]) : /\ c \in ControlNames /\ ShouldIncludeControl(c, filter)
                                        /\ r = Run(c, i)
    BY <1>2, <1>4
  <2>2. r \in Controls /\ r.control = c /\ r.group = i
    BY <2>1, RunsOfItem DEF Run
  <2>3. i \in Above[i]
    BY AboveFacts, ItemFacts
  <2> QED
    BY <2>1, <2>2, <2>3, SelectedItem DEF ShouldIncludeControl
<1>5. ASSUME NEW r, r \in Range(group.below)
      PROVE  r \in Selected(i, filter) /\ r.group # i
  <2>1. PICK x \in Range(Children[i]) \cap Items : r \in Selected(x, filter)
    BY <1>3, <1>5
  <2>2. /\ r \in Controls /\ r.group \in Items
        /\ ShortName[r.control] \in filter /\ x \in Above[r.group]
    BY <2>1, SelectedItem
  <2>3. i \in Above[r.group] /\ x \notin Above[i]
    BY <2>2, AboveParent
  <2> QED
    BY <2>2, <2>3, SelectedItem
<1>6. ASSUME NEW r, r \in Selected(i, filter)
      PROVE  r \in Range(group.controlRuns) \cup Range(group.below)
  <2>1. /\ r \in Controls /\ r.group \in Items
        /\ ShortName[r.control] \in filter /\ i \in Above[r.group]
    BY <1>6, SelectedItem
  <2>2. CASE r.group = i
    <3>1. PICK c \in Range(Children[i]) \cap ControlNames : r = Run(c, i)
      BY <2>1, <2>2, RunsOfItem
    <3>2. ShouldIncludeControl(c, filter)
      BY <2>1, <3>1 DEF ShouldIncludeControl, Run
    <3> QED
      BY <1>2, <3>1, <3>2
  <2>3. CASE r.group # i
    <3>1. PICK x \in Items \cap Range(Children[i]) : x \in Above[r.group]
      BY <2>1, <2>3, ChildBetween
    <3>2. r \in Selected(x, filter)
      BY <2>1, <3>1, SelectedItem
    <3> QED
      BY <1>3, <3>1, <3>2
  <2> QED
    BY <2>2, <2>3
<1>7. /\ group \in ResultGroups
      /\ group.controlRuns \in Seq(Controls) /\ group.below \in Seq(Controls)
      /\ IsInjective(group.controlRuns) /\ IsInjective(group.below)
  BY DEF RightTo, ResultGroups
<1>8. Range(group.controlRuns) \cap Range(group.below) = {}
  BY <1>4, <1>5
<1>9. IsInjective(Walk(group)) /\ Range(Walk(group)) = Range(group.controlRuns) \cup Range(group.below)
  BY <1>7, <1>8, JoinRuns DEF Walk
<1>10. Range(Walk(group)) = Selected(i, filter)
  BY <1>4, <1>5, <1>6, <1>9
<1>11. group.groups = ItemGroups(i, filter)
  <2>1. group.groups = {i} \cup GroupsBelow(i, filter, Len(Children[i]))
    BY DEF RightTo
  <2>2. ASSUME NEW g \in GroupsBelow(i, filter, Len(Children[i])) PROVE g \in ItemGroups(i, filter)
    <3>1. PICK x \in Range(Children[i]) \cap Items :
            Selected(x, filter) # {} /\ g \in ItemGroups(x, filter)
      BY <1>1 DEF GroupsBelow
    <3>2. \A r \in Selected(x, filter) : r \in Selected(i, filter)
      BY <1>3, <1>5, <3>1
    <3>3. g \in Items /\ x \in Above[g] /\ \E r \in Selected(x, filter) : g \in Above[r.group]
      BY <3>1, AboveFacts, ItemFacts, SelectedItem DEF ItemGroups
    <3>4. i \in Above[g]
      BY <3>1, <3>3, AboveParent
    <3> QED
      BY <3>2, <3>3, <3>4 DEF ItemGroups
  <2>3. ASSUME NEW g \in Items, i \in Above[g], g # i,
               NEW r \in Selected(i, filter), g \in Above[r.group]
        PROVE  g \in GroupsBelow(i, filter, Len(Children[i]))
    <3>1. PICK x \in Items \cap Range(Children[i]) : x \in Above[g]
      BY <2>3, ChildBetween
    <3>2. /\ r \in Controls /\ r.group \in Items /\ ShortName[r.control] \in filter
      BY SelectedItem
    <3>3. x \in Above[r.group]
      BY <2>3, <3>1, <3>2, AboveTransitive
    <3>4. r \in Selected(x, filter)
      BY <3>1, <3>2, <3>3, SelectedItem
    <3>5. g \in ItemGroups(x, filter)
      BY <2>3, <3>1, <3>4 DEF ItemGroups
    <3> QED
      BY <1>1, <3>1, <3>4, <3>5 DEF GroupsBelow
  <2>4. ASSUME NEW g \in ItemGroups(i, filter)
        PROVE  g = i \/ g \in GroupsBelow(i, filter, Len(Children[i]))
    BY <2>3 DEF ItemGroups
  <2>5. i \in ItemGroups(i, filter)
    BY DEF ItemGroups
  <2> QED
    BY <2>1, <2>2, <2>4, <2>5
<1> QED
  BY <1>7, <1>9, <1>10, <1>11 DEF RightGroup

LEMMA NewGroupRight ==
  ASSUME NEW filter
  PROVE  \A i \in Items : RightGroup(NewResultGroup(i, filter), i, filter)
<1>1. PICK F : IsGroups(F, filter)
  BY GroupsExist
<1> DEFINE T == {i \in Items : RightGroup(F[i], i, filter)}
<1>2. ASSUME NEW i \in Items, \A x \in Items \cap Range(Children[i]) : x \in T
      PROVE  i \in T
  <2>1. \A x \in Items \cap Range(Children[i]) : RightGroup(F[x], x, filter)
    BY <1>2
  <2>2. RightTo(AddChildren(i, filter, F), i, filter, Len(Children[i]))
    BY <2>1, AddChildrenRight
  <2>3. F[i] = AddChildren(i, filter, F)
    BY <1>1 DEF IsGroups
  <2>4. RightGroup(F[i], i, filter)
    BY <2>2, <2>3, WholeGroupRight
  <2> QED
    BY <2>4
<1>3. Items \subseteq T
  <2> HIDE DEF T
  <2> QED
    BY <1>2, Upwards
<1>4. \A i \in Items : NewResultGroup(i, filter) = F[i]
  BY <1>1 DEF IsGroups
<1> QED
  BY <1>3, <1>4

(* The tree for an argument has each of the runs it asks for once, and the *)
(* groups it takes: what NewExecutionTree builds is what the filter        *)
(* selects.                                                                *)
THEOREM TreeIsCorrect == TreeCorrect
<1>1. ASSUME NEW arg \in Arguments, NEW filter \in Filters
      PROVE  LET tree == NewRootResultGroup(arg, filter)
             IN /\ tree.walk \in Seq(Controls) /\ IsInjective(tree.walk)
                /\ Range(tree.walk) = Selected(arg, filter)
                /\ tree.groups = GroupsOf(arg, filter)
  <2>1. CASE arg \in ControlNames
    <3>1. PICK r \in Controls : r = Run(arg, RootResultGroup)
      BY <2>1 DEF Controls
    <3>2. r.control = arg /\ r.group = RootResultGroup
      BY <3>1 DEF Run
    <3>5. GroupsOf(arg, filter) = {RootResultGroup}
      <4>1. arg \notin Items /\ \A s \in Selected(arg, filter) : s.group = RootResultGroup
        BY <2>1, <3>1, <3>2, ItemFacts DEF Selected
      <4>2. \A s \in Selected(arg, filter), g \in Items : g \notin Above[s.group]
        BY <4>1, AboveFacts, ItemFacts
      <4> QED
        BY <4>1, <4>2 DEF GroupsOf
    <3>3. CASE ShouldIncludeControl(arg, filter)
      <4>1. PICK w \in Seq(Controls) : w = <<r>>
        <5>1. <<r>> \in Seq(Controls)
          OBVIOUS
        <5> QED
          BY <5>1, Zenon
      <4>2. IsInjective(w) /\ Range(w) = {r}
        BY <4>1 DEF IsInjective, Range
      <4>3. Selected(arg, filter) = {r}
        BY <2>1, <3>1, <3>2, <3>3 DEF Selected, ShouldIncludeControl
      <4>4. NewRootResultGroup(arg, filter) = [walk |-> w, groups |-> {RootResultGroup}]
        BY <2>1, <3>1, <3>3, <4>1 DEF NewRootResultGroup
      <4> QED
        BY <3>5, <4>2, <4>3, <4>4
    <3>4. CASE ~ShouldIncludeControl(arg, filter)
      <4>1. PICK w \in Seq(Controls) : w = <<>>
        <5>1. <<>> \in Seq(Controls)
          OBVIOUS
        <5> QED
          BY <5>1, Zenon
      <4>2. IsInjective(w) /\ Range(w) = {}
        BY <4>1 DEF IsInjective, Range
      <4>3. Selected(arg, filter) = {}
        BY <2>1, <3>1, <3>2, <3>4 DEF Selected, ShouldIncludeControl
      <4>4. NewRootResultGroup(arg, filter) = [walk |-> w, groups |-> {RootResultGroup}]
        BY <2>1, <3>4, <4>1 DEF NewRootResultGroup
      <4> QED
        BY <3>5, <4>2, <4>3, <4>4
    <3> QED
      BY <3>3, <3>4
  <2>2. CASE arg \notin ControlNames
    <3>1. arg \in Items
      BY <2>2, ItemsAssumption
    <3>2. PICK group : group = NewResultGroup(arg, filter)
      OBVIOUS
    <3>3. RightGroup(group, arg, filter)
      BY <3>1, <3>2, NewGroupRight
    <3>4. /\ Walk(group) \in Seq(Controls) /\ IsInjective(Walk(group))
          /\ Range(Walk(group)) = Selected(arg, filter)
          /\ {RootResultGroup} \cup group.groups = GroupsOf(arg, filter)
      BY <3>1, <3>3, ResultGroupType DEF RightGroup, ItemGroups, GroupsOf
    <3>5. NewRootResultGroup(arg, filter)
            = [walk |-> Walk(group), groups |-> {RootResultGroup} \cup group.groups]
      BY <2>2, <3>2 DEF NewRootResultGroup
    <3> QED
      BY <3>4, <3>5
  <2> QED
    BY <2>1, <2>2
<1>2. \A g \in Groups : RootResultGroup \in Above[g]
  BY AboveFacts
<1> QED
  BY <1>1, <1>2 DEF TreeCorrect

-----------------------------------------------------------------------------
(* The inductive invariant of the check.                                   *)

(* The runs the walk has come by.                                          *)
Visited == {check.walk[n] : n \in 1..(next - 1)}

(* The check: its tree, and how far the walk of it has come.               *)
WalkInv ==
  /\ check.arg \in Arguments /\ check.filter \in Filters /\ check.dryRun \in BOOLEAN
  /\ check.maxParallel \in Nat \ {0}
  /\ IsInjective(check.walk)
  /\ Range(check.walk) = Selected(check.arg, check.filter)
  /\ RootResultGroup \in check.groups
  /\ main = "acquire" => next <= Len(check.walk) /\ ~check.dryRun
  /\ main \in {"wait", "done"} => next = Len(check.walk) + 1

(* A run the walk has not come by is as it was; one it has come by has     *)
(* been started or, in a dry run, is over.                                 *)
Fresh(c) ==
  /\ pc[c] = "idle" /\ attempts[c] = 0
  /\ runStatus[c] = "ready" /\ ~doneChan[c] /\ summary[c] = NoResults
VisitInv(c) ==
  /\ pc[c] = "idle" => gather[c] = "none" /\ attempts[c] = 0
  /\ c \notin Visited => Fresh(c)
  /\ ~cancelled /\ c \in Visited =>
       IF check.dryRun THEN pc[c] = "idle" /\ Finished(c) ELSE pc[c] # "idle"
  /\ ~cancelled /\ pc[c] = "idle" => summary[c] = NoResults

(* The sessions of a run: one for each execute that it is in.              *)
SessionInv(c) ==
  /\ pc[c] \in {"idle", "done"} => sessions[c] = 0
  /\ pc[c] = "acquire" => sessions[c] = attempts[c]
  /\ pc[c] \in {"query", "wait", "send"} => sessions[c] = attempts[c] + 1
  /\ pc[c] = "unwind" => sessions[c] \in 1..(attempts[c] + 1)

(* The two goroutines of a run, while nobody cancels: it is reported by    *)
(* one of them, and the other waits for that or has not been started.      *)
RunInv(c) ==
  /\ gather[c] \in {"read", "send", "sendRowError", "count"} => pc[c] = "wait"
  /\ pc[c] \in {"acquire", "query", "send"} => gather[c] = "none"
  /\ pc[c] = "acquire" => ~Finished(c) /\ ~doneChan[c]
  /\ pc[c] = "query" => runStatus[c] = "started" /\ ~doneChan[c]
  /\ pc[c] = "wait" =>
       /\ gather[c] # "none"
       /\ gather[c] = "read" => runStatus[c] = "started" /\ ~doneChan[c]
       /\ gather[c] # "read" => Finished(c)
  /\ pc[c] = "send" => runStatus[c] = "error"
  /\ pc[c] = "unwind" => Finished(c) \/ attempts[c] > 0
  /\ pc[c] \in {"acquire", "done"} /\ runStatus[c] = "started" => attempts[c] > 0

RunsInv == ~cancelled => \A c \in Controls : RunInv(c)

(* The executing counter of the progress display counts the sessions.      *)
ProgressInv == progress.executing = SessionsHeld

(* The root group counts every failure of a run whose goroutine is over.   *)
Done == {c \in Controls : pc[c] = "done"}
FailInv == ~cancelled => Failed(groupSummary[RootResultGroup]) >= Cardinality(FailuresOf(Done))

(* When Execute has returned, no goroutine is left.                        *)
ReturnInv ==
  main = "done" /\ ~cancelled =>
    /\ Running = {}
    /\ failures = Failed(groupSummary[RootResultGroup])

IInv ==
  /\ TypeOK /\ WalkInv
  /\ \A c \in Controls : VisitInv(c) /\ SessionInv(c)
  /\ RunsInv /\ ProgressInv /\ ReportedOnce /\ FailInv /\ ReturnInv

-----------------------------------------------------------------------------
(* Finite sets.                                                            *)

LEMMA ControlsFinite ==
  /\ IsFiniteSet(Controls)
  /\ RootResultGroup \in Groups
  /\ \A c \in Controls : c.group \in Groups
<1> DEFINE All == [p \in ControlNames \X Groups |-> Run(p[1], p[2])]
           Image == {All[p] : p \in ControlNames \X Groups}
<1>1. IsFiniteSet(Groups)
  BY ItemsAssumption, FS_AddElement DEF Groups
<1>2. IsFiniteSet(ControlNames \X Groups)
  BY <1>1, ItemsAssumption, FS_Product
<1>3. All \in Surjection(ControlNames \X Groups, Image)
  BY DEF Surjection
<1>4. IsFiniteSet(Image)
  BY <1>2, <1>3, FS_Surjection
<1>5. \A c \in ControlNames, g \in Groups : Run(c, g) \in Image
  <2>1. ASSUME NEW c \in ControlNames, NEW g \in Groups PROVE Run(c, g) \in Image
    <3>1. All[<<c, g>>] = Run(c, g)
      OBVIOUS
    <3> QED
      BY <3>1
  <2> QED
    BY <2>1
<1>6. \A r \in Controls : \E c \in ControlNames, g \in Groups : r = Run(c, g)
  BY DEF Controls, Groups
<1>7. Controls \subseteq Image
  BY <1>5, <1>6
<1>8. IsFiniteSet(Controls)
  BY <1>4, <1>7, FS_Subset
<1>9. \A c \in Controls : c.group \in Groups
  BY <1>6 DEF Run
<1> QED
  BY <1>8, <1>9 DEF Groups

(* The failures of a set of runs are finitely many, and those of one run   *)
(* are as many as its summary counts.                                      *)
CountOf(k) == {k} \X (1..summary[k[1]][k[2]])

LEMMA CountFinite ==
  ASSUME summary \in [Controls -> [Statuses -> Nat]],
         NEW k \in Controls \X {"alarm", "error"}
  PROVE  IsFiniteSet(CountOf(k)) /\ Cardinality(CountOf(k)) = summary[k[1]][k[2]]
<1> DEFINE m == summary[k[1]][k[2]]
<1>1. m \in Nat
  BY DEF Statuses
<1> HIDE DEF m
<1>2. IsFiniteSet(1..m) /\ Cardinality(1..m) = m
  <2>1. IsFiniteSet(1..m) /\ Cardinality(1..m) = IF 1 > m THEN 0 ELSE m-1+1
    BY <1>1, FS_Interval
  <2> QED
    BY <1>1, <2>1
<1>3. IsFiniteSet({k}) /\ Cardinality({k}) = 1
  BY FS_Singleton
<1>4. IsFiniteSet({k} \X (1..m)) /\ Cardinality({k} \X (1..m)) = m
  <2> DEFINE ones == {k}
             ns == 1..m
  <2> HIDE DEF ones, ns
  <2>1. IsFiniteSet(ones \X ns) /\ Cardinality(ones \X ns) = Cardinality(ones) * Cardinality(ns)
    BY <1>2, <1>3, FS_Product DEF ones, ns
  <2>2. Cardinality(ones) = 1 /\ Cardinality(ns) = m
    BY <1>2, <1>3 DEF ones, ns
  <2>3. IsFiniteSet(ones \X ns) /\ Cardinality(ones \X ns) = m
    BY <1>1, <2>1, <2>2
  <2> QED
    BY <2>3 DEF ones, ns
<1>5. CountOf(k) = {k} \X (1..m)
  BY DEF CountOf, m
<1> QED
  BY <1>1, <1>4, <1>5 DEF m

LEMMA FailuresFinite ==
  ASSUME summary \in [Controls -> [Statuses -> Nat]], NEW D \in SUBSET Controls
  PROVE  IsFiniteSet(FailuresOf(D))
<1> DEFINE Keys == D \X {"alarm", "error"}
           Of == [k \in Keys |-> CountOf(k)]
           Image == {CountOf(k) : k \in Keys}
<1>1. IsFiniteSet(Keys)
  <2>1. IsFiniteSet({"alarm", "error"})
    <3>1. IsFiniteSet({"alarm"})
      BY FS_Singleton
    <3>2. {"alarm", "error"} = {"alarm"} \cup {"error"}
      OBVIOUS
    <3> QED
      BY <3>1, <3>2, FS_AddElement
  <2>2. IsFiniteSet(D)
    BY ControlsFinite, FS_Subset
  <2> QED
    BY <2>1, <2>2, FS_Product
<1>2. Of \in Surjection(Keys, Image)
  BY DEF Surjection
<1>3. IsFiniteSet(Image)
  BY <1>1, <1>2, FS_Surjection
<1>4. \A T \in Image : IsFiniteSet(T)
  BY CountFinite
<1>5. IsFiniteSet(UNION Image)
  BY <1>3, <1>4, FS_UNION
<1>6. FailuresOf(D) = UNION Image
  BY DEF FailuresOf, CountOf
<1> QED
  BY <1>5, <1>6

LEMMA FailuresOfOne ==
  ASSUME summary \in [Controls -> [Statuses -> Nat]], NEW c \in Controls
  PROVE  Cardinality(FailuresOf({c})) <= Failed(summary[c])
<1> DEFINE alarms == CountOf(<<c, "alarm">>)
           errors == CountOf(<<c, "error">>)
<1>1. /\ IsFiniteSet(alarms) /\ Cardinality(alarms) = summary[c]["alarm"]
      /\ IsFiniteSet(errors) /\ Cardinality(errors) = summary[c]["error"]
  BY CountFinite
<1>2. FailuresOf({c}) = alarms \cup errors
  <2>1. {c} \X {"alarm", "error"} = {<<c, "alarm">>, <<c, "error">>}
    OBVIOUS
  <2> QED
    BY <2>1 DEF FailuresOf, CountOf
<1> HIDE DEF alarms, errors
<1>3. Cardinality(alarms \cup errors)
        = Cardinality(alarms) + Cardinality(errors) - Cardinality(alarms \cap errors)
  BY <1>1, FS_Union
<1>4. Cardinality(alarms \cap errors) \in Nat
  BY <1>1, FS_CardinalityType, FS_Intersection
<1>5. summary[c]["alarm"] \in Nat /\ summary[c]["error"] \in Nat
  BY DEF Statuses
<1>6. Failed(summary[c]) = summary[c]["alarm"] + summary[c]["error"]
  BY DEF Failed
<1>7. Cardinality(FailuresOf({c}))
        = summary[c]["alarm"] + summary[c]["error"] - Cardinality(alarms \cap errors)
  BY <1>1, <1>2, <1>3
<1> QED
  BY <1>4, <1>5, <1>6, <1>7

(* The sessions that are held: one more, or one less, with one of a run.   *)
Held(of) == {s \in Controls \X (1..MaxControlRunAttempts) : s[2] <= of[s[1]]}

LEMMA HeldFinite ==
  ASSUME NEW of
  PROVE  IsFiniteSet(Held(of)) /\ Cardinality(Held(of)) \in Nat
<1>1. IsFiniteSet(1..MaxControlRunAttempts)
  <2>1. 1 \in Int /\ MaxControlRunAttempts \in Int
    BY DEF MaxControlRunAttempts
  <2> QED
    BY <2>1, FS_Interval
<1>2. IsFiniteSet(Controls \X (1..MaxControlRunAttempts))
  BY <1>1, ControlsFinite, FS_Product
<1>3. IsFiniteSet(Held(of))
  BY <1>2, FS_Subset DEF Held
<1> QED
  BY <1>3, FS_CardinalityType

LEMMA HeldMore ==
  ASSUME NEW of \in [Controls -> 0..MaxControlRunAttempts], NEW c \in Controls,
         of[c] < MaxControlRunAttempts
  PROVE  Cardinality(Held([of EXCEPT ![c] = @ + 1])) = Cardinality(Held(of)) + 1
<1> DEFINE s == <<c, of[c] + 1>>
<1>1. s \notin Held(of)
  BY DEF Held
<1>2. Held([of EXCEPT ![c] = @ + 1]) = Held(of) \cup {s}
  <2> DEFINE more == [of EXCEPT ![c] = @ + 1]
  <2>1. \A d \in Controls : more[d] = IF d = c THEN of[c] + 1 ELSE of[d]
    OBVIOUS
  <2>2. \A d \in Controls, n \in 1..MaxControlRunAttempts :
          n <= more[d] <=> n <= of[d] \/ (d = c /\ n = of[c] + 1)
    BY <2>1 DEF MaxControlRunAttempts
  <2> HIDE DEF more
  <2>3. of[c] + 1 \in 1..MaxControlRunAttempts
    BY DEF MaxControlRunAttempts
  <2>4. Held(more) = Held(of) \cup {s}
    BY <2>2, <2>3 DEF Held
  <2> QED
    BY <2>4 DEF more
<1> QED
  BY <1>1, <1>2, HeldFinite, FS_AddElement

LEMMA HeldFewer ==
  ASSUME NEW of \in [Controls -> 0..MaxControlRunAttempts], NEW c \in Controls, of[c] > 0
  PROVE  /\ Cardinality(Held([of EXCEPT ![c] = @ - 1])) = Cardinality(Held(of)) - 1
         /\ Cardinality(Held(of)) > 0
<1> DEFINE s == <<c, of[c]>>
<1>1. s \in Held(of)
  BY DEF Held, MaxControlRunAttempts
<1>2. Held([of EXCEPT ![c] = @ - 1]) = Held(of) \ {s}
  <2> DEFINE fewer == [of EXCEPT ![c] = @ - 1]
  <2>1. \A d \in Controls : fewer[d] = IF d = c THEN of[c] - 1 ELSE of[d]
    OBVIOUS
  <2>2. \A d \in Controls, n \in 1..MaxControlRunAttempts :
          n <= fewer[d] <=> n <= of[d] /\ ~(d = c /\ n = of[c])
    BY <2>1 DEF MaxControlRunAttempts
  <2> HIDE DEF fewer
  <2>3. Held(fewer) = Held(of) \ {s}
    BY <2>2 DEF Held
  <2> QED
    BY <2>3 DEF fewer
<1>3. IsFiniteSet(Held(of)) /\ Cardinality(Held(of)) \in Nat
  BY HeldFinite
<1>4. Cardinality(Held(of)) # 0
  BY <1>1, <1>3, FS_EmptySet
<1>5. Cardinality(Held(of) \ {s}) = Cardinality(Held(of)) - 1
  BY <1>1, <1>3, FS_RemoveElement
<1>6. Cardinality(Held([of EXCEPT ![c] = @ - 1])) = Cardinality(Held(of)) - 1
  <2> HIDE DEF s
  <2> QED
    BY <1>2, <1>5, Zenon
<1>7. Cardinality(Held(of)) > 0
  BY <1>3, <1>4
<1> QED
  BY <1>6, <1>7

-----------------------------------------------------------------------------
(* What the parts of a step do.                                            *)

Summaries == [Statuses -> Nat]
PCs == {"idle", "acquire", "query", "wait", "send", "unwind", "done"}

LEMMA CountedOne ==
  ASSUME summary \in [Controls -> Summaries], NEW c \in Controls, NEW s \in Statuses,
         summary' = [summary EXCEPT ![c][s] = @ + 1]
  PROVE  /\ summary' \in [Controls -> Summaries]
         /\ \A d \in Controls : d # c => summary'[d] = summary[d]
<1> DEFINE sum == [summary[c] EXCEPT ![s] = @ + 1]
<1>1. summary' = [summary EXCEPT ![c] = sum]
  BY DEF Summaries
<1>2. sum \in Summaries
  <2>1. summary[c] \in [Statuses -> Nat]
    BY DEF Summaries
  <2>2. summary[c][s] + 1 \in Nat
    BY <2>1
  <2> QED
    BY <2>1, <2>2 DEF Summaries
<1> HIDE DEF sum
<1> QED
  BY <1>1, <1>2

LEMMA ErrorSet ==
  ASSUME summary \in [Controls -> Summaries], NEW c \in Controls, SetError(c)
  PROVE  /\ summary' \in [Controls -> Summaries]
         /\ \A d \in Controls : d # c => summary'[d] = summary[d]
<1>1. "error" \in Statuses
  BY DEF Statuses
<1>2. summary' = [summary EXCEPT ![c]["error"] = @ + 1]
  BY DEF SetError
<1> QED
  BY <1>1, <1>2, CountedOne

LEMMA SummaryUpdated ==
  ASSUME groupSummary \in [Groups -> Summaries], summary \in [Controls -> Summaries],
         NEW c \in Controls, UpdateSummary(c)
  PROVE  /\ groupSummary' \in [Groups -> Summaries]
         /\ RootResultGroup \in Above[c.group] \cap check.groups =>
              Failed(groupSummary'[RootResultGroup])
                = Failed(groupSummary[RootResultGroup]) + Failed(summary[c])
         /\ Failed(summary[c]) \in Nat
<1> DEFINE Sum(g) == [s \in Statuses |-> groupSummary[g][s] + summary[c][s]]
<1>1. summary[c] \in [Statuses -> Nat] /\ \A g \in Groups : groupSummary[g] \in [Statuses -> Nat]
  BY DEF Summaries
<1>2. ASSUME NEW g \in Groups PROVE Sum(g) \in Summaries
  BY <1>1 DEF Summaries
<1>3. groupSummary' = [g \in Groups |-> IF g \in Above[c.group] \cap check.groups
                                         THEN Sum(g) ELSE groupSummary[g]]
  BY DEF UpdateSummary
<1>4. groupSummary' \in [Groups -> Summaries]
  <2> HIDE DEF Sum
  <2> QED
    BY <1>2, <1>3
<1>5. ASSUME RootResultGroup \in Above[c.group] \cap check.groups
      PROVE  Failed(groupSummary'[RootResultGroup])
               = Failed(groupSummary[RootResultGroup]) + Failed(summary[c])
  <2>1. groupSummary'[RootResultGroup] = Sum(RootResultGroup)
    BY <1>3, <1>5, ControlsFinite
  <2>2. "alarm" \in Statuses /\ "error" \in Statuses
    BY DEF Statuses
  <2>3. \A s \in Statuses : groupSummary[RootResultGroup][s] \in Nat /\ summary[c][s] \in Nat
    BY <1>1, ControlsFinite
  <2>4. /\ Sum(RootResultGroup)["alarm"] = groupSummary[RootResultGroup]["alarm"] + summary[c]["alarm"]
        /\ Sum(RootResultGroup)["error"] = groupSummary[RootResultGroup]["error"] + summary[c]["error"]
    BY <2>2
  <2> HIDE DEF Sum
  <2> QED
    BY <2>1, <2>2, <2>3, <2>4 DEF Failed
<1>6. Failed(summary[c]) \in Nat
  BY <1>1 DEF Failed, Statuses
<1> QED
  BY <1>4, <1>5, <1>6

(* The walk goes on to its next control, which is started or skipped.      *)
Current == check.walk[next]
Started(c) ==
  /\ pc[c] = "idle" /\ ~check.dryRun
  /\ Cardinality(Running) < check.maxParallel
  /\ pc' = [pc EXCEPT ![c] = "acquire"]
  /\ UNCHANGED <<runStatus, doneChan, summary, progress>>
Skipped(c) ==
  /\ \/ cancelled /\ SetError(c)
     \/ ~cancelled /\ check.dryRun /\ SetComplete(c)
  /\ doneChan' = [doneChan EXCEPT ![c] = TRUE]
  /\ pc' = pc
Waits == UNCHANGED <<next, pc, runStatus, doneChan, summary, progress>>
GoesOn ==
  /\ next <= Len(check.walk) /\ next' = next + 1 /\ main' = "walk" /\ failures' = failures
  /\ main # "done"
  /\ Started(Current) \/ Skipped(Current)

LEMMA MainSteps ==
  ASSUME WalkInv, MainStep
  PROVE  /\ UNCHANGED <<cancelled, check, sessions, attempts, gather, groupSummary>>
         /\ Waits \/ GoesOn
         /\ main # "done"
<1>1. UNCHANGED <<cancelled, check, sessions, attempts, gather, groupSummary>> /\ main # "done"
  BY DEF MainStep, WalkCancelled, WalkSkip, WalkControl, StartRun, StartCancelled, WalkDone,
     ExecuteReturns, runVars, mainVars
<1>2. CASE WalkCancelled
  BY <1>2 DEF WalkCancelled, GoesOn, Skipped, Current, SendDone, runVars
<1>3. CASE WalkSkip
  BY <1>3 DEF WalkSkip, GoesOn, Skipped, Current, SendDone, runVars
<1>4. CASE StartRun
  BY <1>4 DEF StartRun, GoesOn, Started, Current, Goto, WalkInv
<1>5. CASE StartCancelled
  BY <1>5 DEF StartCancelled, GoesOn, Skipped, Current, SendDone, runVars, WalkInv
<1>6. CASE WalkControl \/ WalkDone \/ ExecuteReturns
  BY <1>6 DEF WalkControl, WalkDone, ExecuteReturns, Waits, runVars
<1> QED
  BY <1>1, <1>2, <1>3, <1>4, <1>5, <1>6 DEF MainStep

LEMMA CurrentIsControl ==
  ASSUME TypeOK, next <= Len(check.walk)
  PROVE  Current \in Controls
  BY DEF TypeOK, Current

(* A step of one run leaves the others, and Execute, alone.                *)
Others(c) ==
  \A d \in Controls : d # c =>
    /\ pc'[d] = pc[d] /\ gather'[d] = gather[d]
    /\ sessions'[d] = sessions[d] /\ attempts'[d] = attempts[d]
    /\ runStatus'[d] = runStatus[d] /\ doneChan'[d] = doneChan[d] /\ summary'[d] = summary[d]

LEMMA RunFrame ==
  ASSUME NEW c \in Controls, RunStep(c) \/ GatherStep(c)
  PROVE  UNCHANGED <<cancelled, check, main, next, failures>>
<1>1. CASE RunStep(c)
  BY <1>1 DEF RunStep, AcquireSession, AcquireSessionFails, QueryFails, QueryRetried, QueryStarts,
     ResultsGathered, ResultsCancelled, ErrorSent, Unwind, mainVars
<1>2. CASE GatherStep(c)
  BY <1>2 DEF GatherStep, GatherRow, GatherEnd, GatherRowError, GatherBadRow, GatherStopped,
     GatherSent, GatherCount, mainVars
<1> QED
  BY <1>1, <1>2

-----------------------------------------------------------------------------
(* The types.                                                              *)

MainOK ==
  /\ cancelled \in BOOLEAN
  /\ main \in {"walk", "acquire", "wait", "done"}
  /\ check.walk \in Seq(Controls) /\ check.groups \subseteq Groups
  /\ next \in 1..(Len(check.walk) + 1)
  /\ failures \in Nat \cup {-1}
PcOK ==
  /\ pc \in [Controls -> PCs]
  /\ gather \in [Controls -> {"none", "read", "send", "sendRowError", "count", "done"}]
SessionsOK ==
  /\ sessions \in [Controls -> 0..MaxControlRunAttempts]
  /\ attempts \in [Controls -> 0..(MaxControlRunAttempts - 1)]
  /\ SessionsHeld <= check.maxParallel
StatusOK ==
  /\ runStatus \in [Controls -> {"ready", "started", "complete", "error"}]
  /\ doneChan \in [Controls -> BOOLEAN]
  /\ summary \in [Controls -> Summaries]
  /\ groupSummary \in [Groups -> Summaries]
ProgressOK == progress \in [pending : Int, executing : Nat, complete : Nat, error : Nat]
RunningOK == Cardinality(Running) <= check.maxParallel

LEMMA TypeParts ==
  TypeOK <=> MainOK /\ PcOK /\ SessionsOK /\ StatusOK /\ ProgressOK /\ RunningOK
  BY DEF TypeOK, MainOK, PcOK, SessionsOK, StatusOK, ProgressOK, RunningOK, PCs, Summaries

LEMMA TypesNext ==
  ASSUME MainOK', PcOK', SessionsOK', StatusOK', ProgressOK', RunningOK'
  PROVE  TypeOK'
  BY DEF TypeOK, MainOK, PcOK, SessionsOK, StatusOK, ProgressOK, RunningOK, PCs, Summaries

LEMMA TypeOfMain ==
  ASSUME TypeOK, WalkInv, MainStep
  PROVE  TypeOK'
<1>1. MainOK /\ PcOK /\ SessionsOK /\ StatusOK /\ ProgressOK /\ RunningOK
  BY TypeParts
<1>2. UNCHANGED <<cancelled, check, sessions, attempts, gather, groupSummary>>
  BY MainSteps
<1>3. Waits \/ GoesOn
  BY MainSteps
<1>4. Current \in Controls \/ Waits
  BY <1>3, CurrentIsControl DEF GoesOn
<1>5. MainOK'
  <2>1. failures' \in Nat \cup {-1}
    <3>1. Failed(groupSummary[RootResultGroup]) \in Nat
      BY <1>1, ControlsFinite DEF StatusOK, Summaries, Failed, Statuses
    <3> QED
      BY <1>1, <3>1 DEF MainOK, MainStep, WalkCancelled, WalkSkip, WalkControl, StartRun, StartCancelled,
         WalkDone, ExecuteReturns
  <2>2. main' \in {"walk", "acquire", "wait", "done"}
    BY <1>1 DEF MainOK, MainStep, WalkCancelled, WalkSkip, WalkControl, StartRun, StartCancelled,
       WalkDone, ExecuteReturns
  <2>3. next' \in 1..(Len(check.walk) + 1)
    <3>1. Len(check.walk) \in Nat
      BY <1>1 DEF MainOK
    <3> QED
      BY <1>1, <1>3, <3>1 DEF MainOK, Waits, GoesOn
  <2> QED
    BY <1>1, <1>2, <2>1, <2>2, <2>3 DEF MainOK
<1>6. PcOK'
  BY <1>1, <1>2, <1>3, <1>4 DEF PcOK, Waits, GoesOn, Started, Skipped, PCs
<1>7. SessionsOK'
  BY <1>1, <1>2 DEF SessionsOK, SessionsHeld
<1>8. StatusOK' /\ ProgressOK'
  <2>1. CASE Waits \/ Started(Current)
    BY <1>1, <1>2, <2>1 DEF Waits, Started, StatusOK, ProgressOK
  <2>2. CASE Skipped(Current) /\ Current \in Controls
    <3>1. summary' \in [Controls -> Summaries]
      BY <1>1, <2>2, ErrorSet DEF Skipped, SetComplete, StatusOK
    <3>2. runStatus' \in [Controls -> {"ready", "started", "complete", "error"}]
          /\ doneChan' \in [Controls -> BOOLEAN]
      BY <1>1, <2>2 DEF Skipped, SetComplete, SetError, StatusOK
    <3>3. ProgressOK'
      BY <1>1, <2>2 DEF Skipped, SetComplete, SetError, ProgressOK
    <3> QED
      BY <1>1, <1>2, <3>1, <3>2, <3>3 DEF StatusOK
  <2> QED
    BY <1>3, <1>4, <2>1, <2>2 DEF GoesOn
<1>9. RunningOK'
  <2>1. CASE pc' = pc
    BY <1>1, <1>2, <2>1 DEF RunningOK, Running
  <2>2. CASE Started(Current) /\ Current \in Controls
    <3>1. Running' = Running \cup {Current}
      BY <1>1, <2>2 DEF Started, Running, PcOK
    <3>2. IsFiniteSet(Running) /\ Cardinality(Running) \in Nat
      BY ControlsFinite, FS_Subset, FS_CardinalityType DEF Running
    <3>3. Cardinality(Running') <= Cardinality(Running) + 1
      BY <3>1, <3>2, FS_AddElement
    <3>4. check.maxParallel \in Nat /\ Cardinality(Running) < check.maxParallel
      BY <2>2 DEF Started, WalkInv
    <3>5. Cardinality(Running') \in Nat
      BY <3>1, <3>2, FS_AddElement
    <3> QED
      BY <1>2, <3>2, <3>3, <3>4, <3>5 DEF RunningOK
  <2> QED
    BY <1>3, <1>4, <2>1, <2>2 DEF Waits, GoesOn, Skipped
<1> QED
  BY <1>5, <1>6, <1>7, <1>8, <1>9, TypesNext

(* A run holds a session while it executes its query, and gives it back.   *)
LEMMA SessionsOfRun ==
  ASSUME TypeOK, WalkInv, ProgressInv, NEW c \in Controls, SessionInv(c), RunStep(c)
  PROVE  /\ SessionsOK' /\ ProgressOK' /\ ProgressInv'
         /\ \A d \in Controls : d # c => sessions'[d] = sessions[d] /\ attempts'[d] = attempts[d]
<1>1. MainOK /\ PcOK /\ SessionsOK /\ StatusOK /\ ProgressOK
  BY TypeParts
<1>2. check' = check
  BY RunFrame
<1>3. SessionsHeld = Cardinality(Held(sessions)) /\ SessionsHeld' = Cardinality(Held(sessions'))
  BY DEF SessionsHeld, Held
<1>4. SessionsHeld \in Nat /\ check.maxParallel \in Nat
  BY <1>3, HeldFinite DEF WalkInv
<1>5. CASE AcquireSession(c)
  <2>1. sessions[c] < MaxControlRunAttempts
    BY <1>1, <1>5 DEF AcquireSession, Goto, SessionInv, SessionsOK, MaxControlRunAttempts
  <2>2. sessions' = [sessions EXCEPT ![c] = @ + 1] /\ SessionsHeld < check.maxParallel
        /\ attempts' = attempts
    BY <1>5 DEF AcquireSession
  <2>3. SessionsHeld' = SessionsHeld + 1
    BY <1>1, <1>3, <2>1, <2>2, HeldMore DEF SessionsOK
  <2>4. SessionsOK'
    <3>1. sessions' \in [Controls -> 0..MaxControlRunAttempts]
      BY <1>1, <2>1, <2>2 DEF SessionsOK, MaxControlRunAttempts
    <3> QED
      BY <1>1, <1>2, <1>4, <2>2, <2>3, <3>1 DEF SessionsOK
  <2>5. ProgressOK' /\ ProgressInv'
    <3>1. progress' = [progress EXCEPT !.executing = @ + 1, !.pending = @ - 1]
      BY <1>5 DEF AcquireSession
    <3>2. PICK r \in [pending : Int, executing : Nat, complete : Nat, error : Nat] : r = progress
      BY <1>1 DEF ProgressOK
    <3>3. PICK new : new = [r EXCEPT !.executing = r.executing + 1, !.pending = r.pending - 1]
      OBVIOUS
    <3>4. r.executing + 1 \in Nat /\ r.pending - 1 \in Int
      OBVIOUS
    <3>5. new \in [pending : Int, executing : Nat, complete : Nat, error : Nat]
          /\ new.executing = r.executing + 1
      BY <3>3, <3>4
    <3>6. progress' = new
      BY <3>1, <3>2, <3>3
    <3>7. ProgressOK' /\ progress'.executing = progress.executing + 1
      BY <3>2, <3>5, <3>6 DEF ProgressOK
    <3> QED
      BY <2>3, <3>7 DEF ProgressInv
  <2> QED
    BY <1>1, <2>2, <2>4, <2>5 DEF SessionsOK
<1>6. CASE Unwind(c)
  <2>1. sessions[c] > 0
    BY <1>1, <1>6 DEF Unwind, Goto, SessionInv, SessionsOK, MaxControlRunAttempts
  <2>2. sessions' = [sessions EXCEPT ![c] = @ - 1] /\ attempts' = attempts
    BY <1>6 DEF Unwind
  <2>3. SessionsHeld' = SessionsHeld - 1 /\ SessionsHeld > 0
    BY <1>1, <1>3, <2>1, <2>2, HeldFewer DEF SessionsOK
  <2>4. SessionsOK'
    <3>1. sessions' \in [Controls -> 0..MaxControlRunAttempts]
      BY <1>1, <2>1, <2>2 DEF SessionsOK, MaxControlRunAttempts
    <3> QED
      BY <1>1, <1>2, <1>4, <2>2, <2>3, <3>1 DEF SessionsOK
  <2>5. ProgressOK' /\ ProgressInv'
    <3>1. progress' = [progress EXCEPT !.executing = @ - 1]
      BY <1>6 DEF Unwind
    <3>2. progress.executing - 1 \in Nat
      BY <1>4, <2>3 DEF ProgressInv
    <3>3. ProgressOK' /\ progress'.executing = progress.executing - 1
      BY <1>1, <3>1, <3>2 DEF ProgressOK
    <3> QED
      BY <2>3, <3>3 DEF ProgressInv
  <2> QED
    BY <1>1, <2>2, <2>4, <2>5 DEF SessionsOK
<1>7. CASE ~AcquireSession(c) /\ ~Unwind(c)
  <2>1. sessions' = sessions
    BY <1>7 DEF RunStep, AcquireSessionFails, QueryFails, QueryRetried, QueryStarts, ResultsGathered,
       ResultsCancelled, ErrorSent, runVars
  <2>2. SessionsHeld' = SessionsHeld
    BY <1>3, <2>1
  <2>3. \/ attempts' = attempts
        \/ attempts' = [attempts EXCEPT ![c] = @ + 1] /\ attempts[c] + 1 < MaxControlRunAttempts
    BY <1>7 DEF RunStep, AcquireSessionFails, QueryFails, QueryRetried, QueryStarts, ResultsGathered,
       ResultsCancelled, ErrorSent, runVars
  <2>4. attempts' \in [Controls -> 0..(MaxControlRunAttempts - 1)]
        /\ \A d \in Controls : d # c => attempts'[d] = attempts[d]
    BY <1>1, <2>3 DEF SessionsOK, MaxControlRunAttempts
  <2>5. \/ progress' = progress
        \/ progress' = [progress EXCEPT !.error = @ + 1]
    BY <1>7 DEF RunStep, AcquireSessionFails, QueryFails, QueryRetried, QueryStarts, ResultsGathered,
       ResultsCancelled, ErrorSent, runVars, SetError
  <2>6. ProgressOK' /\ progress'.executing = progress.executing
    BY <1>1, <2>5 DEF ProgressOK
  <2> QED
    BY <1>1, <1>2, <2>1, <2>2, <2>4, <2>6 DEF SessionsOK, ProgressInv
<1> QED
  BY <1>5, <1>6, <1>7

LEMMA TypeOfRun ==
  ASSUME TypeOK, WalkInv, ProgressInv, NEW c \in Controls, SessionInv(c), RunStep(c)
  PROVE  TypeOK' /\ Others(c)
<1>1. MainOK /\ PcOK /\ SessionsOK /\ StatusOK /\ ProgressOK /\ RunningOK
  BY TypeParts
<1>2. UNCHANGED <<cancelled, check, main, next, failures>>
  BY RunFrame
<1>3. MainOK'
  BY <1>1, <1>2 DEF MainOK
<1>4. PcOK'
  BY <1>1 DEF RunStep, AcquireSession, AcquireSessionFails, QueryFails, QueryRetried, QueryStarts,
     ResultsGathered, ResultsCancelled, ErrorSent, Unwind, Goto, PcOK, PCs
<1>5. SessionsOK' /\ ProgressOK'
  BY SessionsOfRun
<1>6. /\ summary' \in [Controls -> Summaries]
      /\ \A d \in Controls : d # c => summary'[d] = summary[d]
  <2>1. SetError(c) \/ summary' = summary
    BY DEF RunStep, AcquireSession, AcquireSessionFails, QueryFails, QueryRetried, QueryStarts,
       ResultsGathered, ResultsCancelled, ErrorSent, Unwind
  <2> QED
    BY <1>1, <2>1, ErrorSet DEF StatusOK
<1>7. groupSummary' \in [Groups -> Summaries]
  <2>1. UpdateSummary(c) \/ groupSummary' = groupSummary
    BY DEF RunStep, AcquireSession, AcquireSessionFails, QueryFails, QueryRetried, QueryStarts,
       ResultsGathered, ResultsCancelled, ErrorSent, Unwind
  <2> QED
    BY <1>1, <2>1, SummaryUpdated DEF StatusOK
<1>8. /\ runStatus' \in [Controls -> {"ready", "started", "complete", "error"}]
      /\ doneChan' \in [Controls -> BOOLEAN]
      /\ \A d \in Controls : d # c => runStatus'[d] = runStatus[d] /\ doneChan'[d] = doneChan[d]
  <2>1. \/ runStatus' = runStatus
        \/ runStatus' = [runStatus EXCEPT ![c] = "started"]
        \/ runStatus' = [runStatus EXCEPT ![c] = "error"]
    BY DEF RunStep, AcquireSession, AcquireSessionFails, QueryFails, QueryRetried, QueryStarts,
       ResultsGathered, ResultsCancelled, ErrorSent, Unwind, SetError
  <2>2. doneChan' = doneChan \/ doneChan' = [doneChan EXCEPT ![c] = TRUE]
    BY DEF RunStep, AcquireSession, AcquireSessionFails, QueryFails, QueryRetried, QueryStarts,
       ResultsGathered, ResultsCancelled, ErrorSent, Unwind, SendDone
  <2> QED
    BY <1>1, <2>1, <2>2 DEF StatusOK
<1>9. /\ pc[c] \notin {"idle", "done"}
      /\ \A d \in Controls : d # c => pc'[d] = pc[d] /\ gather'[d] = gather[d]
  BY <1>1 DEF RunStep, AcquireSession, AcquireSessionFails, QueryFails, QueryRetried, QueryStarts,
     ResultsGathered, ResultsCancelled, ErrorSent, Unwind, Goto, PcOK
<1>10. RunningOK'
  <2>1. IsFiniteSet(Running) /\ Cardinality(Running) \in Nat
    BY ControlsFinite, FS_Subset, FS_CardinalityType DEF Running
  <2>2. Running' \subseteq Running
    BY <1>9 DEF Running
  <2>3. Cardinality(Running') <= Cardinality(Running) /\ Cardinality(Running') \in Nat
    BY <2>1, <2>2, FS_Subset, FS_CardinalityType
  <2> QED
    BY <1>1, <1>2, <2>1, <2>3 DEF RunningOK, WalkInv
<1>11. StatusOK'
  BY <1>6, <1>7, <1>8 DEF StatusOK
<1>12. Others(c)
  BY <1>6, <1>8, <1>9, SessionsOfRun DEF Others
<1> QED
  BY <1>3, <1>4, <1>5, <1>10, <1>11, <1>12, TypesNext

LEMMA TypeOfGather ==
  ASSUME TypeOK, NEW c \in Controls, GatherStep(c)
  PROVE  TypeOK' /\ Others(c) /\ UNCHANGED <<pc, sessions, attempts>>
<1>1. MainOK /\ PcOK /\ SessionsOK /\ StatusOK /\ ProgressOK /\ RunningOK
  BY TypeParts
<1>2. UNCHANGED <<cancelled, check, main, next, failures, pc, sessions, attempts>>
  BY RunFrame DEF GatherStep, GatherRow, GatherEnd, GatherRowError, GatherBadRow, GatherStopped,
     GatherSent, GatherCount, runVars
<1>3. MainOK' /\ SessionsOK' /\ RunningOK'
  BY <1>1, <1>2 DEF MainOK, SessionsOK, SessionsHeld, RunningOK, Running
<1>4. PcOK' /\ \A d \in Controls : d # c => gather'[d] = gather[d]
  BY <1>1, <1>2 DEF GatherStep, GatherRow, GatherEnd, GatherRowError, GatherBadRow, GatherStopped,
     GatherSent, GatherCount, GatherGoto, PcOK
<1>5. /\ summary' \in [Controls -> Summaries]
      /\ \A d \in Controls : d # c => summary'[d] = summary[d]
  <2>1. \/ SetError(c) \/ summary' = summary
        \/ \E s \in Statuses : summary' = [summary EXCEPT ![c][s] = @ + 1]
    BY DEF GatherStep, GatherRow, GatherEnd, GatherRowError, GatherBadRow, GatherStopped,
       GatherSent, GatherCount, SetComplete
  <2> QED
    BY <1>1, <2>1, ErrorSet, CountedOne DEF StatusOK
<1>6. groupSummary' \in [Groups -> Summaries]
  <2>1. UpdateSummary(c) \/ groupSummary' = groupSummary
    BY DEF GatherStep, GatherRow, GatherEnd, GatherRowError, GatherBadRow, GatherStopped,
       GatherSent, GatherCount
  <2> QED
    BY <1>1, <2>1, SummaryUpdated DEF StatusOK
<1>7. /\ runStatus' \in [Controls -> {"ready", "started", "complete", "error"}]
      /\ doneChan' \in [Controls -> BOOLEAN]
      /\ \A d \in Controls : d # c => runStatus'[d] = runStatus[d] /\ doneChan'[d] = doneChan[d]
  <2>1. \/ runStatus' = runStatus
        \/ runStatus' = [runStatus EXCEPT ![c] = "complete"]
        \/ runStatus' = [runStatus EXCEPT ![c] = "error"]
    BY DEF GatherStep, GatherRow, GatherEnd, GatherRowError, GatherBadRow, GatherStopped,
       GatherSent, GatherCount, SetError, SetComplete
  <2>2. \/ doneChan' = doneChan
        \/ doneChan' = [doneChan EXCEPT ![c] = TRUE]
        \/ doneChan' = [doneChan EXCEPT ![c] = FALSE]
    BY DEF GatherStep, GatherRow, GatherEnd, GatherRowError, GatherBadRow, GatherStopped,
       GatherSent, GatherCount, SendDone
  <2> QED
    BY <1>1, <2>1, <2>2 DEF StatusOK
<1>8. ProgressOK'
  <2>1. \/ progress' = progress
        \/ progress' = [progress EXCEPT !.error = @ + 1]
        \/ progress' = [progress EXCEPT !.complete = @ + 1]
    BY DEF GatherStep, GatherRow, GatherEnd, GatherRowError, GatherBadRow, GatherStopped,
       GatherSent, GatherCount, SetError, SetComplete
  <2> QED
    BY <1>1, <2>1 DEF ProgressOK
<1>9. StatusOK'
  BY <1>5, <1>6, <1>7 DEF StatusOK
<1>10. Others(c)
  BY <1>2, <1>4, <1>5, <1>7 DEF Others
<1> QED
  BY <1>2, <1>3, <1>4, <1>8, <1>9, <1>10, TypesNext

-----------------------------------------------------------------------------
(* The walk.                                                               *)

LEMMA WalkStep ==
  ASSUME TypeOK, WalkInv, [Next]_vars
  PROVE  WalkInv'
<1>1. CASE MainStep
  <2>1. check' = check
    BY <1>1, MainSteps
  <2>2. /\ main' = "acquire" => next' <= Len(check.walk) /\ ~check.dryRun
        /\ main' \in {"wait", "done"} => next' = Len(check.walk) + 1
    BY <1>1 DEF MainStep, WalkCancelled, WalkSkip, WalkControl, StartRun, StartCancelled, WalkDone,
       ExecuteReturns, WalkInv
  <2> QED
    BY <2>1, <2>2 DEF WalkInv
<1>2. CASE ~MainStep
  <2>1. UNCHANGED <<check, main, next>>
    BY <1>2, RunFrame DEF Next, Cancel, vars, mainVars
  <2> QED
    BY <2>1 DEF WalkInv
<1> QED
  BY <1>1, <1>2

(* The control the walk goes on with is one it has not come by before.     *)
LEMMA VisitedNext ==
  ASSUME TypeOK, WalkInv, GoesOn, check' = check
  PROVE  /\ Current \in Controls
         /\ Current \notin Visited
         /\ Visited' = Visited \cup {Current}
<1>1. next \in 1..Len(check.walk) /\ Len(check.walk) \in Nat
  BY DEF TypeOK, GoesOn
<1>2. \A n \in 1..(next - 1) : check.walk[n] # Current
  <2>1. \A n \in 1..(next - 1) : n \in DOMAIN check.walk /\ n # next
    BY <1>1 DEF TypeOK
  <2>2. next \in DOMAIN check.walk
    BY <1>1 DEF TypeOK
  <2> QED
    BY <2>1, <2>2 DEF WalkInv, IsInjective, Current
<1>3. 1..(next' - 1) = 1..(next - 1) \cup {next}
  BY <1>1 DEF GoesOn
<1>4. Visited' = Visited \cup {Current}
  BY <1>3 DEF Visited, Current
<1> QED
  BY <1>2, <1>4, CurrentIsControl DEF GoesOn, Visited

LEMMA VisitStep ==
  ASSUME TypeOK, WalkInv, ProgressInv, [Next]_vars,
         \A c \in Controls : VisitInv(c) /\ SessionInv(c)
  PROVE  \A c \in Controls : VisitInv(c)'
<1>1. CASE MainStep /\ Waits
  <2>1. UNCHANGED <<cancelled, check, next, pc, gather, attempts, runStatus, doneChan, summary>>
    BY <1>1, MainSteps DEF Waits
  <2> QED
    BY <2>1 DEF VisitInv, Visited, Fresh, Finished
<1>2. CASE MainStep /\ GoesOn
  <2>1. UNCHANGED <<cancelled, check, sessions, attempts, gather, groupSummary>>
    BY <1>2, MainSteps
  <2>2. PICK r \in Controls : r = Current
    BY <1>2, <2>1, VisitedNext
  <2>3. r \notin Visited /\ Visited' = Visited \cup {r}
    BY <1>2, <2>1, <2>2, VisitedNext
  <2>4. Started(r) \/ Skipped(r)
    BY <1>2, <2>2 DEF GoesOn
  <2>5. ASSUME NEW c \in Controls, c # r
        PROVE  VisitInv(c)'
    <3>1. /\ pc'[c] = pc[c] /\ gather'[c] = gather[c] /\ attempts'[c] = attempts[c]
          /\ runStatus'[c] = runStatus[c] /\ doneChan'[c] = doneChan[c]
      BY <2>1, <2>4, <2>5 DEF Started, Skipped, SetError, SetComplete, TypeOK
    <3>2. summary'[c] = summary[c]
      <4>1. summary \in [Controls -> Summaries]
        BY DEF TypeOK, Summaries
      <4> QED
        BY <2>4, <2>5, <4>1, ErrorSet DEF Started, Skipped, SetComplete
    <3> QED
      BY <2>1, <2>3, <2>5, <3>1, <3>2 DEF VisitInv, Fresh, Finished
  <2>6. VisitInv(r)'
    <3>1. Fresh(r) /\ gather[r] = "none"
      BY <2>3 DEF VisitInv, Fresh
    <3>2. CASE Started(r)
      BY <2>1, <2>3, <3>1, <3>2 DEF Started, VisitInv, TypeOK
    <3>3. CASE Skipped(r) /\ cancelled
      BY <2>1, <2>3, <3>1, <3>3 DEF Skipped, VisitInv, TypeOK, Fresh
    <3>4. CASE Skipped(r) /\ ~cancelled
      <4>1. Finished(r)' /\ summary' = summary /\ pc' = pc /\ check.dryRun
        BY <3>4 DEF Skipped, SetComplete, TypeOK, Finished
      <4> QED
        BY <2>1, <2>3, <3>1, <4>1 DEF VisitInv, Fresh
    <3> QED
      BY <2>4, <3>2, <3>3, <3>4
  <2> QED
    BY <2>5, <2>6
<1>3. ASSUME NEW c \in Controls, RunStep(c) \/ GatherStep(c)
      PROVE  \A d \in Controls : VisitInv(d)'
  <2>1. UNCHANGED <<cancelled, check, next>> /\ Visited' = Visited
    BY <1>3, RunFrame DEF Visited
  <2>2. Others(c)
    BY <1>3, TypeOfRun, TypeOfGather
  <2>3. pc[c] # "idle"
    BY <1>3 DEF RunStep, AcquireSession, AcquireSessionFails, QueryFails, QueryRetried, QueryStarts,
       ResultsGathered, ResultsCancelled, ErrorSent, Unwind, Goto, GatherStep, GatherRow, GatherEnd,
       GatherRowError, GatherBadRow, GatherStopped, GatherSent, GatherCount, GatherGoto, VisitInv
  <2>4. pc'[c] # "idle"
    <3>1. CASE RunStep(c)
      BY <3>1 DEF RunStep, AcquireSession, AcquireSessionFails, QueryFails, QueryRetried, QueryStarts,
         ResultsGathered, ResultsCancelled, ErrorSent, Unwind, Goto, TypeOK
    <3>2. CASE GatherStep(c)
      BY <2>3, <3>2, TypeOfGather
    <3> QED
      BY <1>3, <3>1, <3>2
  <2>5. VisitInv(c)'
    BY <2>1, <2>3, <2>4 DEF VisitInv, Fresh
  <2>6. ASSUME NEW d \in Controls, d # c PROVE VisitInv(d)'
    BY <2>1, <2>2, <2>6 DEF Others, VisitInv, Fresh, Finished
  <2> QED
    BY <2>5, <2>6
<1>4. CASE Cancel \/ UNCHANGED vars
  <2>1. UNCHANGED <<check, next, pc, gather, attempts, runStatus, doneChan, summary>> /\ (cancelled => cancelled')
    BY <1>4 DEF Cancel, vars, mainVars, runVars
  <2> QED
    BY <2>1 DEF VisitInv, Visited, Fresh, Finished
<1> QED
  BY <1>1, <1>2, <1>3, <1>4, MainSteps DEF Next

-----------------------------------------------------------------------------
(* The sessions and the two goroutines of a run.                           *)

LEMMA SessionStep ==
  ASSUME TypeOK, WalkInv, ProgressInv, [Next]_vars,
         \A c \in Controls : VisitInv(c) /\ SessionInv(c)
  PROVE  \A c \in Controls : SessionInv(c)'
<1>1. CASE MainStep
  <2>1. UNCHANGED <<check, sessions, attempts>>
    BY <1>1, MainSteps
  <2>2. pc' = pc \/ (GoesOn /\ Started(Current))
    <3>1. Waits => pc' = pc
      BY DEF Waits
    <3>2. GoesOn => Started(Current) \/ Skipped(Current)
      BY DEF GoesOn
    <3>3. Skipped(Current) => pc' = pc
      BY DEF Skipped
    <3> QED
      BY <1>1, <3>1, <3>2, <3>3, MainSteps
  <2>3. CASE pc' = pc
    BY <2>1, <2>3 DEF SessionInv
  <2>4. CASE GoesOn /\ Started(Current)
    <3>1. PICK r \in Controls : r = Current
      BY <2>4, CurrentIsControl DEF GoesOn
    <3>2. SessionInv(r)'
      BY <2>1, <2>4, <3>1 DEF Started, SessionInv, VisitInv, TypeOK
    <3>3. ASSUME NEW d \in Controls, d # r PROVE SessionInv(d)'
      BY <2>1, <2>4, <3>1, <3>3 DEF Started, SessionInv, TypeOK
    <3> QED
      BY <3>2, <3>3
  <2> QED
    BY <2>2, <2>3, <2>4
<1>2. ASSUME NEW c \in Controls, RunStep(c)
      PROVE  \A d \in Controls : SessionInv(d)'
  <2>1. Others(c)
    BY <1>2, TypeOfRun
  <2>2. ASSUME NEW d \in Controls, d # c PROVE SessionInv(d)'
    BY <2>1, <2>2 DEF Others, SessionInv
  <2>3. SessionInv(c) /\ pc \in [Controls -> PCs] /\ sessions[c] \in 0..2 /\ attempts[c] \in 0..1
    BY DEF TypeOK, PCs, MaxControlRunAttempts
  <2>4. CASE AcquireSession(c) \/ QueryRetried(c)
    <3>1. sessions \in [Controls -> 0..2] /\ attempts \in [Controls -> 0..1]
      BY DEF TypeOK, MaxControlRunAttempts
    <3> QED
      BY <2>3, <2>4, <3>1 DEF AcquireSession, QueryRetried, Goto, SessionInv, MaxControlRunAttempts
  <2>5. CASE AcquireSessionFails(c)
    BY <2>3, <2>5 DEF AcquireSessionFails, Goto, SessionInv
  <2>6. CASE Unwind(c)
    <3>1. sessions \in [Controls -> 0..2]
      BY DEF TypeOK, MaxControlRunAttempts
    <3> QED
      BY <2>3, <2>6, <3>1 DEF Unwind, Goto, SessionInv
  <2>7. CASE QueryFails(c) \/ QueryStarts(c) \/ ResultsGathered(c) \/ ResultsCancelled(c) \/ ErrorSent(c)
    BY <2>3, <2>7 DEF QueryFails, QueryStarts, ResultsGathered, ResultsCancelled, ErrorSent, Goto,
       SessionInv, runVars
  <2> QED
    BY <1>2, <2>2, <2>4, <2>5, <2>6, <2>7 DEF RunStep
<1>3. ASSUME NEW c \in Controls, GatherStep(c)
      PROVE  \A d \in Controls : SessionInv(d)'
  BY <1>3, TypeOfGather DEF SessionInv
<1>4. CASE Cancel \/ UNCHANGED vars
  BY <1>4 DEF Cancel, vars, runVars, SessionInv
<1> QED
  BY <1>1, <1>2, <1>3, <1>4 DEF Next

(* What both goroutines of a run do while nobody cancels.                  *)
LEMMA RunKeepsRun ==
  ASSUME TypeOK, NEW c \in Controls, SessionInv(c), RunInv(c), RunStep(c), ~cancelled
  PROVE  RunInv(c)'
<1>1. /\ pc \in [Controls -> PCs] /\ doneChan \in [Controls -> BOOLEAN]
      /\ runStatus \in [Controls -> {"ready", "started", "complete", "error"}]
      /\ gather \in [Controls -> {"none", "read", "send", "sendRowError", "count", "done"}]
      /\ attempts \in [Controls -> 0..1] /\ sessions \in [Controls -> 0..2]
  BY DEF TypeOK, PCs, MaxControlRunAttempts
<1>2. CASE AcquireSession(c)
  BY <1>1, <1>2 DEF AcquireSession, Goto, RunInv, Finished
<1>3. CASE AcquireSessionFails(c)
  <2>1. /\ pc[c] = "acquire" /\ pc' = [pc EXCEPT ![c] = IF sessions[c] = 0 THEN "done" ELSE "unwind"]
        /\ UNCHANGED <<sessions, attempts, gather, runStatus, doneChan>>
    BY <1>3 DEF AcquireSessionFails, Goto
  <2>2. sessions[c] = attempts[c] /\ gather[c] = "none" /\ ~Finished(c)
    BY <2>1 DEF SessionInv, RunInv
  <2>3. CASE sessions[c] = 0
    <3>1. pc'[c] = "done"
      BY <1>1, <2>1, <2>3
    <3>2. runStatus[c] # "started" \/ attempts[c] > 0
      BY <2>1, <2>2, <2>3 DEF RunInv
    <3> QED
      BY <2>1, <2>2, <3>1, <3>2 DEF RunInv
  <2>4. CASE sessions[c] # 0
    <3>1. pc'[c] = "unwind" /\ attempts[c] > 0
      BY <1>1, <2>1, <2>2, <2>4
    <3> QED
      BY <2>1, <2>2, <3>1 DEF RunInv
  <2> QED
    BY <2>3, <2>4
<1>4. CASE QueryFails(c)
  BY <1>1, <1>4 DEF QueryFails, SetError, Goto, RunInv, Finished
<1>5. CASE QueryRetried(c)
  BY <1>1, <1>5 DEF QueryRetried, Goto, RunInv, Finished
<1>6. CASE QueryStarts(c)
  BY <1>1, <1>6 DEF QueryStarts, Goto, RunInv, Finished
<1>7. CASE ResultsGathered(c)
  BY <1>1, <1>7 DEF ResultsGathered, Goto, RunInv, Finished, runVars
<1>8. CASE ErrorSent(c)
  BY <1>1, <1>8 DEF ErrorSent, SendDone, Goto, RunInv, Finished
<1>9. CASE Unwind(c)
  <2>1. /\ pc[c] = "unwind" /\ pc'[c] \in {"unwind", "done"}
        /\ UNCHANGED <<attempts, gather, runStatus, doneChan>>
    BY <1>1, <1>9 DEF Unwind, Goto
  <2> QED
    BY <1>1, <2>1 DEF RunInv, Finished
<1> QED
  BY <1>2, <1>3, <1>4, <1>5, <1>6, <1>7, <1>8, <1>9 DEF RunStep, ResultsCancelled

LEMMA GatherKeepsRun ==
  ASSUME TypeOK, NEW c \in Controls, RunInv(c), GatherStep(c), ~cancelled
  PROVE  RunInv(c)'
<1>1. /\ pc \in [Controls -> PCs] /\ doneChan \in [Controls -> BOOLEAN]
      /\ runStatus \in [Controls -> {"ready", "started", "complete", "error"}]
      /\ gather \in [Controls -> {"none", "read", "send", "sendRowError", "count", "done"}]
  BY DEF TypeOK, PCs
<1>2. UNCHANGED <<pc, sessions, attempts>>
  BY TypeOfGather
<1>3. pc[c] = "wait" /\ gather[c] \in {"read", "send", "sendRowError", "count"}
  BY DEF GatherStep, GatherRow, GatherEnd, GatherRowError, GatherBadRow, GatherStopped, GatherSent,
     GatherCount, GatherGoto, RunInv
<1>4. CASE \E status \in Statuses : GatherRow(c, status)
  BY <1>1, <1>2, <1>3, <1>4 DEF GatherRow, RunInv, Finished
<1>5. CASE GatherEnd(c) \/ GatherRowError(c) \/ GatherBadRow(c)
  BY <1>1, <1>2, <1>3, <1>5 DEF GatherEnd, GatherRowError, GatherBadRow, GatherGoto, SetComplete,
     SetError, RunInv, Finished
<1>6. CASE GatherStopped(c)
  BY <1>6 DEF GatherStopped, GatherGoto, RunInv
<1>7. CASE GatherSent(c) \/ GatherCount(c)
  BY <1>1, <1>2, <1>3, <1>7 DEF GatherSent, GatherCount, GatherGoto, SendDone, RunInv, Finished
<1> QED
  BY <1>4, <1>5, <1>6, <1>7 DEF GatherStep

LEMMA RunsStep ==
  ASSUME TypeOK, WalkInv, ProgressInv, RunsInv, [Next]_vars,
         \A c \in Controls : VisitInv(c) /\ SessionInv(c)
  PROVE  RunsInv'
<1> SUFFICES ASSUME ~cancelled'
             PROVE  \A c \in Controls : RunInv(c)'
  BY DEF RunsInv
<1>1. CASE MainStep /\ Waits
  <2>1. UNCHANGED <<cancelled, pc, gather, attempts, runStatus, doneChan>>
    BY <1>1, MainSteps DEF Waits
  <2> QED
    BY <2>1 DEF RunsInv, RunInv, Finished
<1>2. CASE MainStep /\ GoesOn
  <2>1. UNCHANGED <<cancelled, check, sessions, attempts, gather, groupSummary>>
    BY <1>2, MainSteps
  <2>2. PICK r \in Controls : r = Current
    BY <1>2, <2>1, VisitedNext
  <2>3. Fresh(r) /\ gather[r] = "none"
    BY <1>2, <2>1, <2>2, VisitedNext DEF VisitInv, Fresh
  <2>4. Started(r) \/ Skipped(r)
    BY <1>2, <2>2 DEF GoesOn
  <2>5. RunInv(r)'
    <3>1. CASE Started(r)
      BY <2>1, <2>3, <3>1 DEF Started, Fresh, RunInv, Finished, TypeOK
    <3>2. CASE Skipped(r)
      BY <2>1, <2>3, <3>2 DEF Skipped, Fresh, RunInv
    <3> QED
      BY <2>4, <3>1, <3>2
  <2>6. ASSUME NEW c \in Controls, c # r PROVE RunInv(c)'
    <3>1. /\ pc'[c] = pc[c] /\ gather'[c] = gather[c] /\ attempts'[c] = attempts[c]
          /\ runStatus'[c] = runStatus[c] /\ doneChan'[c] = doneChan[c]
      BY <2>1, <2>4, <2>6 DEF Started, Skipped, SetError, SetComplete, TypeOK
    <3> QED
      BY <2>1, <3>1 DEF RunsInv, RunInv, Finished
  <2> QED
    BY <2>5, <2>6
<1>3. ASSUME NEW c \in Controls, RunStep(c) \/ GatherStep(c)
      PROVE  \A d \in Controls : RunInv(d)'
  <2>1. cancelled' = cancelled /\ Others(c)
    BY <1>3, RunFrame, TypeOfRun, TypeOfGather
  <2>2. RunInv(c)'
    BY <1>3, <2>1, RunKeepsRun, GatherKeepsRun DEF RunsInv
  <2>3. ASSUME NEW d \in Controls, d # c PROVE RunInv(d)'
    BY <2>1, <2>3 DEF Others, RunsInv, RunInv, Finished
  <2> QED
    BY <2>2, <2>3
<1>4. CASE Cancel \/ UNCHANGED vars
  BY <1>4 DEF Cancel, vars, runVars, RunsInv, RunInv, Finished
<1> QED
  BY <1>1, <1>2, <1>3, <1>4, MainSteps DEF Next

LEMMA ProgressStep ==
  ASSUME TypeOK, WalkInv, ProgressInv, [Next]_vars, \A c \in Controls : SessionInv(c)
  PROVE  ProgressInv'
<1>1. CASE MainStep \/ (\E c \in Controls : GatherStep(c)) \/ Cancel \/ UNCHANGED vars
  <2>1. sessions' = sessions
    BY <1>1, MainSteps, TypeOfGather DEF Cancel, vars, runVars
  <2>2. \/ progress' = progress
        \/ progress' = [progress EXCEPT !.error = @ + 1]
        \/ progress' = [progress EXCEPT !.complete = @ + 1]
    <3>1. CASE MainStep
      BY <3>1, MainSteps DEF Waits, GoesOn, Started, Skipped, SetError, SetComplete
    <3>2. CASE \E c \in Controls : GatherStep(c)
      BY <3>2 DEF GatherStep, GatherRow, GatherEnd, GatherRowError, GatherBadRow, GatherStopped,
         GatherSent, GatherCount, SetError, SetComplete
    <3>3. CASE Cancel \/ UNCHANGED vars
      BY <3>3 DEF Cancel, vars
    <3> QED
      BY <1>1, <3>1, <3>2, <3>3
  <2>3. progress'.executing = progress.executing
    BY <2>2 DEF TypeOK
  <2> QED
    BY <2>1, <2>3 DEF ProgressInv, SessionsHeld
<1> QED
  BY <1>1, SessionsOfRun DEF Next

-----------------------------------------------------------------------------
(* The reports to the progress display.                                    *)

Reported == {c \in Controls : Finished(c)}

LEMMA ReportedMore ==
  ASSUME NEW c \in Controls, ~Finished(c), Finished(c)',
         \A d \in Controls : d # c => runStatus'[d] = runStatus[d]
  PROVE  Cardinality(Reported') = Cardinality(Reported) + 1
<1>1. Reported' = Reported \cup {c} /\ c \notin Reported
  BY DEF Reported, Finished
<1>2. IsFiniteSet(Reported)
  BY ControlsFinite, FS_Subset DEF Reported
<1> QED
  BY <1>1, <1>2, FS_AddElement

LEMMA ReportedSame ==
  ASSUME \A c \in Controls : Finished(c)' <=> Finished(c)
  PROVE  Reported' = Reported
  BY DEF Reported

LEMMA ReportedStep ==
  ASSUME TypeOK, WalkInv, ProgressInv, RunsInv, ReportedOnce, [Next]_vars,
         \A c \in Controls : VisitInv(c) /\ SessionInv(c)
  PROVE  ReportedOnce'
<1> SUFFICES ASSUME ~cancelled'
             PROVE  progress'.complete + progress'.error = Cardinality(Reported')
  BY DEF ReportedOnce, Reported
<1> DEFINE Same == /\ progress'.complete = progress.complete /\ progress'.error = progress.error
                   /\ \A c \in Controls : Finished(c)' <=> Finished(c)
           More(c) == /\ ~Finished(c) /\ Finished(c)'
                      /\ \A d \in Controls : d # c => runStatus'[d] = runStatus[d]
                      /\ \/ progress'.complete = progress.complete + 1 /\ progress'.error = progress.error
                         \/ progress'.error = progress.error + 1 /\ progress'.complete = progress.complete
<1>1. ~cancelled
  BY MainSteps, RunFrame DEF Next, Cancel, vars
<1>2. progress.complete + progress.error = Cardinality(Reported)
  BY <1>1 DEF ReportedOnce, Reported
<1>3. /\ progress \in [pending : Int, executing : Nat, complete : Nat, error : Nat]
      /\ runStatus \in [Controls -> {"ready", "started", "complete", "error"}]
  BY DEF TypeOK
<1>4. Same \/ \E c \in Controls : More(c)
  <2>1. CASE MainStep /\ Waits
    BY <2>1 DEF Waits, Finished
  <2>2. CASE MainStep /\ GoesOn
    <3>1. check' = check
      BY <2>2, MainSteps
    <3>2. PICK r \in Controls : r = Current
      BY <2>2, <3>1, VisitedNext
    <3>3. runStatus[r] = "ready"
      BY <2>2, <3>1, <3>2, VisitedNext DEF VisitInv, Fresh
    <3>4. Started(r) \/ Skipped(r)
      BY <2>2, <3>2 DEF GoesOn
    <3>5. CASE Started(r)
      BY <3>5 DEF Started, Finished
    <3>6. CASE Skipped(r)
      <4>1. More(r)
        BY <1>1, <1>3, <3>3, <3>6 DEF Skipped, SetComplete, Finished
      <4> QED
        BY <4>1
    <3> QED
      BY <3>4, <3>5, <3>6
  <2>3. ASSUME NEW c \in Controls, RunStep(c)
        PROVE  Same \/ \E d \in Controls : More(d)
    <3>1. RunInv(c)
      BY <1>1 DEF RunsInv
    <3>2. CASE AcquireSession(c)
      <4>1. ~Finished(c) /\ runStatus' = [runStatus EXCEPT ![c] = "started"]
        BY <3>1, <3>2 DEF AcquireSession, Goto, RunInv
      <4>2. progress'.complete = progress.complete /\ progress'.error = progress.error
        BY <1>3, <3>2 DEF AcquireSession
      <4>3. \A d \in Controls : Finished(d)' <=> Finished(d)
        BY <1>3, <4>1 DEF Finished
      <4> QED
        BY <4>2, <4>3
    <3>3. CASE QueryFails(c)
      <4>1. More(c)
        BY <1>3, <3>1, <3>3 DEF QueryFails, SetError, Goto, RunInv, Finished
      <4> QED
        BY <4>1
    <3>4. CASE ~AcquireSession(c) /\ ~QueryFails(c)
      <4>1. runStatus' = runStatus
        BY <1>1, <2>3, <3>4 DEF RunStep, AcquireSessionFails, QueryRetried, QueryStarts, ResultsGathered,
           ResultsCancelled, ErrorSent, Unwind
      <4>2. progress' = progress \/ progress' = [progress EXCEPT !.executing = @ - 1]
        BY <1>1, <2>3, <3>4 DEF RunStep, AcquireSessionFails, QueryRetried, QueryStarts, ResultsGathered,
           ResultsCancelled, ErrorSent, Unwind
      <4>3. progress'.complete = progress.complete /\ progress'.error = progress.error
        BY <1>3, <4>2
      <4> QED
        BY <4>1, <4>3 DEF Finished
    <3> QED
      BY <3>2, <3>3, <3>4
  <2>4. ASSUME NEW c \in Controls, GatherStep(c)
        PROVE  Same \/ \E d \in Controls : More(d)
    <3>1. RunInv(c)
      BY <1>1 DEF RunsInv
    <3>2. CASE GatherEnd(c) \/ GatherRowError(c) \/ GatherBadRow(c)
      <4>1. ~Finished(c)
        BY <3>1, <3>2 DEF GatherEnd, GatherRowError, GatherBadRow, GatherGoto, RunInv, Finished
      <4>2. SetComplete(c) \/ SetError(c)
        BY <3>2 DEF GatherEnd, GatherRowError, GatherBadRow
      <4>3. More(c)
        BY <1>3, <4>1, <4>2 DEF SetComplete, SetError, Finished
      <4> QED
        BY <4>3
    <3>3. CASE ~GatherEnd(c) /\ ~GatherRowError(c) /\ ~GatherBadRow(c)
      <4>1. UNCHANGED <<runStatus, progress>>
        BY <2>4, <3>3 DEF GatherStep, GatherRow, GatherStopped, GatherSent, GatherCount
      <4> QED
        BY <4>1 DEF Finished
    <3> QED
      BY <3>2, <3>3
  <2>5. CASE Cancel \/ UNCHANGED vars
    BY <2>5 DEF Cancel, vars, Finished
  <2> QED
    BY <2>1, <2>2, <2>3, <2>4, <2>5, MainSteps DEF Next
<1>5. CASE Same
  <2>1. Reported' = Reported
    BY <1>5, ReportedSame
  <2> QED
    BY <1>2, <1>5, <2>1
<1>6. CASE \E c \in Controls : More(c)
  <2>1. PICK c \in Controls : More(c)
    BY <1>6
  <2>2. Cardinality(Reported') = Cardinality(Reported) + 1
    BY <2>1, ReportedMore
  <2>3. progress.complete \in Nat /\ progress.error \in Nat
    BY <1>3
  <2> QED
    BY <1>2, <2>1, <2>2, <2>3
<1> QED
  BY <1>4, <1>5, <1>6

-----------------------------------------------------------------------------
(* The failures.                                                           *)

LEMMA FailuresSame ==
  ASSUME Done' = Done, \A c \in Done : summary'[c] = summary[c]
  PROVE  FailuresOf(Done)' = FailuresOf(Done)
<1> DEFINE Keys == Done \X {"alarm", "error"}
<1>1. \A k \in Keys : summary'[k[1]] = summary[k[1]]
  OBVIOUS
<1>2. {{k} \X (1..summary'[k[1]][k[2]]) : k \in Keys} = {{k} \X (1..summary[k[1]][k[2]]) : k \in Keys}
  BY <1>1
<1>3. Keys' = Keys
  OBVIOUS
<1> QED
  BY <1>2, <1>3 DEF FailuresOf

LEMMA FailuresMore ==
  ASSUME summary \in [Controls -> Summaries], summary' = summary, NEW c \in Controls,
         Done' = Done \cup {c}
  PROVE  Cardinality(FailuresOf(Done)') <= Cardinality(FailuresOf(Done)) + Failed(summary[c])
<1> DEFINE before == FailuresOf(Done)
           one == FailuresOf({c})
<1>1. FailuresOf(Done)' = before \cup one
  <2>1. Done' \X {"alarm", "error"} = (Done \X {"alarm", "error"}) \cup ({c} \X {"alarm", "error"})
    OBVIOUS
  <2>2. UNION {{k} \X (1..summary[k[1]][k[2]]) : k \in Done' \X {"alarm", "error"}}
          = (UNION {{k} \X (1..summary[k[1]][k[2]]) : k \in Done \X {"alarm", "error"}})
              \cup (UNION {{k} \X (1..summary[k[1]][k[2]]) : k \in {c} \X {"alarm", "error"}})
    BY <2>1
  <2> QED
    BY <2>2 DEF FailuresOf
<1>2. summary \in [Controls -> [Statuses -> Nat]] /\ Done \in SUBSET Controls /\ {c} \in SUBSET Controls
  BY DEF Summaries, Done
<1>3. IsFiniteSet(before) /\ IsFiniteSet(one)
  BY <1>2, FailuresFinite
<1>4. Cardinality(one) <= Failed(summary[c])
  BY <1>2, FailuresOfOne
<1> HIDE DEF before, one
<1>5. Cardinality(before \cup one) = Cardinality(before) + Cardinality(one) - Cardinality(before \cap one)
  BY <1>3, FS_Union
<1>6. /\ Cardinality(before) \in Nat /\ Cardinality(one) \in Nat
      /\ Cardinality(before \cap one) \in Nat
  BY <1>3, FS_CardinalityType, FS_Intersection
<1>7. Failed(summary[c]) \in Nat
  BY <1>2 DEF Failed, Statuses
<1>8. Cardinality(before \cup one) <= Cardinality(before) + Failed(summary[c])
  BY <1>4, <1>5, <1>6, <1>7
<1> QED
  BY <1>1, <1>8 DEF before

(* The root group counts what any run adds to its summary.                 *)
LEMMA RootCounts ==
  ASSUME TypeOK, WalkInv, NEW c \in Controls, UpdateSummary(c)
  PROVE  /\ Failed(groupSummary'[RootResultGroup])
              = Failed(groupSummary[RootResultGroup]) + Failed(summary[c])
         /\ Failed(summary[c]) \in Nat
<1>1. groupSummary \in [Groups -> Summaries] /\ summary \in [Controls -> Summaries]
  BY DEF TypeOK, Summaries
<1>2. RootResultGroup \in Above[c.group] \cap check.groups
  BY ControlsFinite, TreeIsCorrect DEF TreeCorrect, WalkInv
<1> QED
  BY <1>1, <1>2, SummaryUpdated

LEMMA FailStep ==
  ASSUME TypeOK, WalkInv, ProgressInv, RunsInv, FailInv, [Next]_vars,
         \A c \in Controls : VisitInv(c) /\ SessionInv(c)
  PROVE  FailInv'
<1> DEFINE before == Failed(groupSummary[RootResultGroup])
           after == Failed(groupSummary'[RootResultGroup])
<1> SUFFICES ASSUME ~cancelled'
             PROVE  after >= Cardinality(FailuresOf(Done)')
  BY DEF FailInv
<1>1. ~cancelled
  BY MainSteps, RunFrame DEF Next, Cancel, vars
<1>2. summary \in [Controls -> Summaries] /\ groupSummary \in [Groups -> Summaries] /\ pc \in [Controls -> PCs]
  BY DEF TypeOK, Summaries, PCs
<1>3. before \in Nat
  <2>1. groupSummary[RootResultGroup] \in [Statuses -> Nat]
    BY <1>2, ControlsFinite DEF Summaries
  <2> QED
    BY <2>1 DEF Failed, Statuses
<1>4. Cardinality(FailuresOf(Done)) \in Nat
  BY <1>2, FailuresFinite, FS_CardinalityType DEF Summaries, Done
<1>5. before >= Cardinality(FailuresOf(Done))
  BY <1>1 DEF FailInv
<1> HIDE DEF before, after
<1>6. ASSUME Done' = Done, \A c \in Done : summary'[c] = summary[c], after >= before, after \in Nat
      PROVE  after >= Cardinality(FailuresOf(Done)')
  <2>1. FailuresOf(Done)' = FailuresOf(Done)
    BY <1>6, FailuresSame
  <2>2. Cardinality(FailuresOf(Done)') = Cardinality(FailuresOf(Done))
    BY <2>1
  <2> QED
    BY <1>3, <1>4, <1>5, <1>6, <2>2
<1>7. CASE MainStep \/ Cancel \/ UNCHANGED vars
  <2>1. groupSummary' = groupSummary /\ summary' = summary
    <3>1. CASE MainStep
      BY <1>1, <3>1, MainSteps DEF Waits, GoesOn, Started, Skipped, SetComplete
    <3>2. CASE Cancel \/ UNCHANGED vars
      BY <3>2 DEF Cancel, vars
    <3> QED
      BY <1>7, <3>1, <3>2
  <2>2. Done' = Done
    <3>1. CASE MainStep
      <4>1. Waits => pc' = pc
        BY DEF Waits
      <4>2. GoesOn => pc' = pc \/ (pc[Current] = "idle" /\ pc' = [pc EXCEPT ![Current] = "acquire"])
        BY DEF GoesOn, Started, Skipped
      <4> QED
        BY <1>2, <3>1, <4>1, <4>2, MainSteps DEF Done
    <3>2. CASE Cancel \/ UNCHANGED vars
      BY <3>2 DEF Cancel, vars, runVars, Done
    <3> QED
      BY <1>7, <3>1, <3>2
  <2>3. after = before
    BY <2>1 DEF after, before
  <2> QED
    BY <1>3, <1>6, <2>1, <2>2, <2>3
<1>8. ASSUME NEW c \in Controls, RunStep(c)
      PROVE  after >= Cardinality(FailuresOf(Done)')
  <2>1. Others(c)
    BY <1>8, TypeOfRun
  <2>2. pc[c] # "done"
    BY <1>8 DEF RunStep, AcquireSession, AcquireSessionFails, QueryFails, QueryRetried, QueryStarts,
       ResultsGathered, ResultsCancelled, ErrorSent, Unwind, Goto
  <2>3. \A d \in Done : summary'[d] = summary[d]
    BY <2>1, <2>2 DEF Done, Others
  <2>4. CASE UpdateSummary(c) /\ summary' = summary
    <3>1. after = before + Failed(summary[c]) /\ Failed(summary[c]) \in Nat
      BY <2>4, RootCounts DEF after, before
    <3>2. CASE pc'[c] # "done"
      <4>1. Done' = Done
        BY <2>1, <2>2, <3>2 DEF Done, Others
      <4> QED
        BY <1>3, <1>6, <2>3, <3>1, <4>1
    <3>3. CASE pc'[c] = "done"
      <4>1. Done' = Done \cup {c}
        BY <2>1, <3>3 DEF Done, Others
      <4>2. Cardinality(FailuresOf(Done)') <= Cardinality(FailuresOf(Done)) + Failed(summary[c])
        BY <1>2, <2>4, <4>1, FailuresMore
      <4>3. Cardinality(FailuresOf(Done)') \in Nat
        <5>1. summary' \in [Controls -> [Statuses -> Nat]] /\ Done' \in SUBSET Controls
          BY <1>2, <2>4 DEF Summaries, Done
        <5>2. IsFiniteSet(FailuresOf(Done'))
          BY <1>2, <5>1, FailuresFinite DEF Summaries
        <5>3. FailuresOf(Done)' = FailuresOf(Done')
          BY <2>4 DEF FailuresOf
        <5> QED
          BY <5>2, <5>3, FS_CardinalityType
      <4> QED
        BY <1>3, <1>4, <1>5, <3>1, <4>2, <4>3
    <3> QED
      BY <3>2, <3>3
  <2>5. CASE ~(UpdateSummary(c) /\ summary' = summary)
    <3>1. groupSummary' = groupSummary /\ pc'[c] # "done"
      BY <1>2, <1>8, <2>5 DEF RunStep, AcquireSession, AcquireSessionFails, QueryFails, QueryRetried,
         QueryStarts, ResultsGathered, ResultsCancelled, ErrorSent, Unwind, Goto
    <3>2. Done' = Done
      BY <2>1, <2>2, <3>1 DEF Done, Others
    <3>3. after = before
      BY <3>1 DEF after, before
    <3> QED
      BY <1>3, <1>6, <2>3, <3>2, <3>3
  <2> QED
    BY <2>4, <2>5
<1>9. ASSUME NEW c \in Controls, GatherStep(c)
      PROVE  after >= Cardinality(FailuresOf(Done)')
  <2>1. Others(c) /\ pc' = pc
    BY <1>9, TypeOfGather
  <2>2. pc[c] # "done"
    BY <1>1, <1>9 DEF RunsInv, RunInv, GatherStep, GatherRow, GatherEnd, GatherRowError, GatherBadRow,
       GatherStopped, GatherSent, GatherCount, GatherGoto
  <2>3. \A d \in Done : summary'[d] = summary[d]
    BY <2>1, <2>2 DEF Done, Others
  <2>4. Done' = Done
    BY <2>1 DEF Done
  <2>5. UpdateSummary(c) \/ groupSummary' = groupSummary
    BY <1>9 DEF GatherStep, GatherRow, GatherEnd, GatherRowError, GatherBadRow, GatherStopped,
       GatherSent, GatherCount
  <2>6. CASE UpdateSummary(c)
    <3>1. after = before + Failed(summary[c]) /\ Failed(summary[c]) \in Nat
      BY <2>6, RootCounts DEF after, before
    <3> QED
      BY <1>3, <1>6, <2>3, <2>4, <3>1
  <2>7. CASE groupSummary' = groupSummary
    <3>1. after = before
      BY <2>7 DEF after, before
    <3> QED
      BY <1>3, <1>6, <2>3, <2>4, <3>1
  <2> QED
    BY <2>5, <2>6, <2>7
<1> QED
  BY <1>7, <1>8, <1>9 DEF Next

LEMMA ReturnStep ==
  ASSUME TypeOK, WalkInv, RunsInv, ReturnInv, [Next]_vars
  PROVE  ReturnInv'
<1> SUFFICES ASSUME main' = "done", ~cancelled'
             PROVE  Running' = {} /\ failures' = Failed(groupSummary'[RootResultGroup])
  BY DEF ReturnInv
<1>1. ~cancelled
  BY MainSteps, RunFrame DEF Next, Cancel, vars
<1>2. CASE MainStep
  <2>1. ExecuteReturns
    BY <1>2 DEF MainStep, WalkCancelled, WalkSkip, WalkControl, StartRun, StartCancelled, WalkDone
  <2> QED
    BY <1>1, <2>1 DEF ExecuteReturns, Running, runVars
<1>3. ASSUME NEW c \in Controls, RunStep(c) \/ GatherStep(c)
      PROVE  FALSE
  <2>1. Running = {}
    BY <1>1, <1>3, RunFrame DEF ReturnInv
  <2>2. pc[c] \notin {"idle", "done"}
    <3>1. CASE RunStep(c)
      BY <3>1 DEF RunStep, AcquireSession, AcquireSessionFails, QueryFails, QueryRetried, QueryStarts,
         ResultsGathered, ResultsCancelled, ErrorSent, Unwind, Goto
    <3>2. CASE GatherStep(c)
      BY <1>1, <3>2 DEF RunsInv, RunInv, GatherStep, GatherRow, GatherEnd, GatherRowError,
         GatherBadRow, GatherStopped, GatherSent, GatherCount, GatherGoto
    <3> QED
      BY <1>3, <3>1, <3>2
  <2> QED
    BY <2>1, <2>2 DEF Running
<1>4. CASE UNCHANGED vars
  BY <1>1, <1>4 DEF vars, mainVars, runVars, ReturnInv, Running
<1>5. ~Cancel
  BY DEF Cancel
<1> QED
  BY <1>2, <1>3, <1>4, <1>5 DEF Next

-----------------------------------------------------------------------------
(* The theorems.                                                           *)

LEMMA InitInv ==
  ASSUME Init
  PROVE  IInv
<1>1. PICK arg \in Arguments, filter \in Filters, dryRun \in BOOLEAN, maxParallel \in 1..MaxParallel :
        check = [arg |-> arg, filter |-> filter, dryRun |-> dryRun, maxParallel |-> maxParallel,
                 walk |-> NewRootResultGroup(arg, filter).walk,
                 groups |-> NewRootResultGroup(arg, filter).groups]
  BY DEF Init
<1>2. /\ check.walk \in Seq(Controls) /\ IsInjective(check.walk)
      /\ Range(check.walk) = Selected(check.arg, check.filter)
      /\ check.groups \subseteq Groups
  BY <1>1, TreeIsCorrect DEF TreeCorrect, GroupsOf, Groups
<1>3. RootResultGroup \in check.groups
  <2>1. RootResultGroup \in NewRootResultGroup(arg, filter).groups
    BY DEF NewRootResultGroup
  <2> QED
    BY <1>1, <2>1
<1>4. check.maxParallel \in Nat \ {0}
  BY <1>1, BoundsAssumption
<1>5. WalkInv
  BY <1>1, <1>2, <1>3, <1>4 DEF WalkInv, Init
<1>6. NoResults \in Summaries /\ Failed(NoResults) = 0
  BY DEF NoResults, Summaries, Failed, Statuses
<1>7. Held(sessions) = {} /\ SessionsHeld = 0
  <2>1. Held(sessions) = {}
    BY DEF Held, Init, MaxControlRunAttempts
  <2> QED
    BY <2>1, FS_EmptySet DEF SessionsHeld, Held
<1>8. Running = {} /\ Done = {} /\ Reported = {} /\ Visited = {}
  BY DEF Running, Done, Reported, Finished, Visited, Init
<1>9. Len(check.walk) \in Nat
  BY <1>2
<1>10. TypeOK
  <2>1. MainOK
    <3>1. cancelled = FALSE /\ main = "walk" /\ next = 1 /\ failures = -1
      BY DEF Init
    <3>2. next \in 1..(Len(check.walk) + 1)
      BY <3>1, <1>9
    <3> QED
      BY <3>1, <3>2, <1>2 DEF MainOK
  <2>2. PcOK
    BY DEF PcOK, PCs, Init
  <2>3. SessionsOK
    BY <1>4, <1>7 DEF SessionsOK, Init, MaxControlRunAttempts
  <2>4. StatusOK
    BY <1>6 DEF StatusOK, Init
  <2>5. ProgressOK
    BY <1>9 DEF ProgressOK, Init
  <2>6. RunningOK
    BY <1>4, <1>8, FS_EmptySet DEF RunningOK
  <2> QED
    BY <2>1, <2>2, <2>3, <2>4, <2>5, <2>6, TypeParts
<1>11. \A c \in Controls : VisitInv(c) /\ SessionInv(c) /\ RunInv(c)
  BY <1>8 DEF Init, VisitInv, SessionInv, RunInv, Fresh
<1>12. ProgressInv
  BY <1>7 DEF ProgressInv, Init
<1>13. ReportedOnce
  <2>1. Cardinality(Reported) = 0
    BY <1>8, FS_EmptySet
  <2>2. progress.complete = 0 /\ progress.error = 0
    BY DEF Init
  <2> QED
    BY <2>1, <2>2 DEF ReportedOnce, Reported
<1>14. FailInv
  <2>1. FailuresOf(Done) = {}
    BY <1>8 DEF FailuresOf
  <2>2. Cardinality(FailuresOf(Done)) = 0
    BY <2>1, FS_EmptySet
  <2>3. groupSummary[RootResultGroup] = NoResults
    BY ControlsFinite DEF Init
  <2> QED
    BY <1>6, <2>2, <2>3 DEF FailInv
<1>15. ReturnInv
  BY DEF ReturnInv, Init
<1> QED
  BY <1>5, <1>10, <1>11, <1>12, <1>13, <1>14, <1>15 DEF IInv, RunsInv

LEMMA InvStep ==
  ASSUME IInv, [Next]_vars
  PROVE  IInv'
<1> USE DEF IInv
<1>1. TypeOK'
  <2>1. CASE MainStep
    BY <2>1, TypeOfMain
  <2>2. CASE \E c \in Controls : RunStep(c) \/ GatherStep(c)
    BY <2>2, TypeOfRun, TypeOfGather
  <2>3. CASE Cancel \/ UNCHANGED vars
    BY <2>3 DEF Cancel, vars, mainVars, runVars, TypeOK, SessionsHeld, Running
  <2> QED
    BY <2>1, <2>2, <2>3 DEF Next
<1>2. WalkInv' /\ ProgressInv' /\ RunsInv' /\ ReportedOnce' /\ FailInv' /\ ReturnInv'
  BY WalkStep, ProgressStep, RunsStep, ReportedStep, FailStep, ReturnStep
<1>3. \A c \in Controls : VisitInv(c)' /\ SessionInv(c)'
  BY VisitStep, SessionStep
<1> QED
  BY <1>1, <1>2, <1>3

(* The inductive invariant holds in every reachable state.                 *)
THEOREM Invariance == Spec => []IInv
<1>1. Init => IInv
  BY InitInv
<1>2. IInv /\ [Next]_vars => IInv'
  BY InvStep
<1> QED
  BY <1>1, <1>2, PTL DEF Spec

(* Every variable keeps its type; no more sessions are held than the pool  *)
(* has connections, and no more goroutines run than there are permits.     *)
THEOREM TypeCorrect == Spec => []TypeOK
<1>1. IInv => TypeOK
  BY DEF IInv
<1> QED
  BY <1>1, Invariance, PTL

(* Unless the check is cancelled, every run that is over was reported to   *)
(* the progress display once.                                              *)
THEOREM ReportedOnceCorrect == Spec => []ReportedOnce
<1>1. IInv => ReportedOnce
  BY DEF IInv
<1> QED
  BY <1>1, Invariance, PTL

(* When Execute has returned and was not cancelled, all the controls that  *)
(* are selected have run, or were skipped by a dry run, and no other one.  *)
THEOREM AllRunsOverCorrect == Spec => []AllRunsOver
<1>1. IInv => AllRunsOver
  <2> SUFFICES ASSUME IInv, main = "done", ~cancelled, NEW c \in Controls
               PROVE  /\ pc[c] = IF c \in Selected(check.arg, check.filter) /\ ~check.dryRun
                                 THEN "done" ELSE "idle"
                      /\ gather[c] \in {"none", "done"}
                      /\ sessions[c] = 0
                      /\ runStatus[c] = "started" => attempts[c] > 0
                      /\ check.dryRun => Finished(c) = (c \in Selected(check.arg, check.filter))
    BY DEF AllRunsOver
  <2>1. next = Len(check.walk) + 1 /\ check.walk \in Seq(Controls)
    BY DEF IInv, WalkInv, TypeOK
  <2>2. Visited = Selected(check.arg, check.filter)
    <3>1. 1..(next - 1) = DOMAIN check.walk
      BY <2>1
    <3> QED
      BY <3>1 DEF Visited, Range, IInv, WalkInv
  <2>3. pc[c] \in {"idle", "done"}
    BY DEF IInv, ReturnInv, Running
  <2>4. VisitInv(c) /\ SessionInv(c) /\ RunInv(c)
    BY DEF IInv, RunsInv
  <2>5. check.dryRun \in BOOLEAN /\ gather[c] \in {"none", "read", "send", "sendRowError", "count", "done"}
    BY DEF IInv, WalkInv, TypeOK
  <2>6. CASE c \in Visited
    BY <2>2, <2>3, <2>4, <2>5, <2>6 DEF VisitInv, SessionInv, RunInv, Finished
  <2>7. CASE c \notin Visited
    BY <2>2, <2>3, <2>4, <2>5, <2>7 DEF VisitInv, SessionInv, RunInv, Fresh, Finished
  <2> QED
    BY <2>6, <2>7
<1> QED
  BY <1>1, Invariance, PTL

(* The exit code misses no failure: unless it is cancelled, Execute counts *)
(* every alarm and every error in the summary of a run.                    *)
THEOREM NoFailureMissedCorrect == Spec => []NoFailureMissed
<1>1. IInv => NoFailureMissed
  <2> SUFFICES ASSUME IInv, main = "done", ~cancelled
               PROVE  failures >= Cardinality(FailuresOf(Controls))
    BY DEF NoFailureMissed
  <2>1. \A c \in Controls \ Done : summary[c] = NoResults
    BY DEF IInv, ReturnInv, Running, Done, VisitInv
  <2>2. FailuresOf(Controls) = FailuresOf(Done)
    <3>1. \A k \in (Controls \ Done) \X {"alarm", "error"} : {k} \X (1..summary[k[1]][k[2]]) = {}
      <4>1. NoResults["alarm"] = 0 /\ NoResults["error"] = 0
        BY DEF NoResults, Statuses
      <4>2. \A k \in (Controls \ Done) \X {"alarm", "error"} : summary[k[1]][k[2]] = 0
        BY <2>1, <4>1
      <4> QED
        BY <4>2
    <3>2. Controls \X {"alarm", "error"}
            = (Done \X {"alarm", "error"}) \cup ((Controls \ Done) \X {"alarm", "error"})
      BY DEF Done
    <3> QED
      BY <3>1, <3>2 DEF FailuresOf
  <2>3. failures >= Cardinality(FailuresOf(Done))
    BY DEF IInv, ReturnInv, FailInv
  <2> QED
    BY <2>2, <2>3
<1> QED
  BY <1>1, Invariance, PTL

=============================================================================
