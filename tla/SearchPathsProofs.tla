--------------------------- MODULE SearchPathsProofs ---------------------------
(***************************************************************************)
(* Proofs about the search paths, for any number of connections, backends  *)
(* and queries, any config files, flags, lines of a prompt and controls.   *)
(*  - A prefix that is added schema by schema is searched as one written   *)
(*    in front of the path (PrefixAlike), by induction over the steps of   *)
(*    the fold that AddSearchPathPrefix is.                                *)
(*  - What the map of sessions says of a session is its path, as long as   *)
(*    nobody else has changed it (FreeInv, KnownInv): each query is        *)
(*    therefore searched as the settings ask.                              *)
(***************************************************************************)
EXTENDS SearchPaths, TLAPS, FiniteSetTheorems, FunctionTheorems, WellFoundedInduction,
        SequenceTheorems

-----------------------------------------------------------------------------
(* Numbers: the induction that the library's theorems cannot be used for,  *)
(* and the greatest of some of them.                                       *)

LEMMA LeastNumber ==
  ASSUME NEW T, T \subseteq Nat, T # {}
  PROVE  \E m \in T : \A n \in T : m <= n
<1>1. PICK m \in T : \A n \in T : ~(<<n, m>> \in OpToRel(<, Nat))
  BY NatLessThanWellFounded, WFMin
<1>2. ASSUME NEW n \in T PROVE m <= n
  <2>1. n \in Nat /\ m \in Nat
    OBVIOUS
  <2>2. ~(n < m)
    BY <1>1, <2>1 DEF OpToRel
  <2> QED
    BY <2>1, <2>2
<1> QED
  BY <1>2

LEMMA Induction ==
  ASSUME NEW T, 0 \in T, \A n \in Nat : n \in T => n + 1 \in T
  PROVE  Nat \subseteq T
<1> SUFFICES ASSUME NEW m \in Nat \ T PROVE FALSE
  OBVIOUS
<1>1. PICK n \in Nat \ T : \A k \in Nat \ T : n <= k
  <2>1. Nat \ T \subseteq Nat /\ (Nat \ T) # {}
    OBVIOUS
  <2> QED
    BY <2>1, LeastNumber
<1>2. n # 0 /\ n - 1 \in Nat
  BY <1>1
<1>3. n - 1 \in T
  BY <1>1, <1>2
<1>4. (n - 1) + 1 = n
  BY <1>1
<1> QED
  BY <1>1, <1>2, <1>3, <1>4

LEMMA MaxOf ==
  ASSUME NEW s, NEW x \in s, \A y \in s : y <= x, s \subseteq Nat
  PROVE  Max(s) = x
<1>1. x \in s /\ \A y \in s : x >= y
  OBVIOUS
<1>2. PICK m : m = Max(s)
  OBVIOUS
<1>3. m \in s /\ \A y \in s : m >= y
  BY <1>1, <1>2 DEF Max
<1>4. m \in Nat /\ x \in Nat /\ m <= x /\ x <= m
  BY <1>3
<1> QED
  BY <1>2, <1>4

LEMMA MaxWithout ==
  ASSUME NEW n \in Nat, NEW s \in SUBSET (1..n), s # {}
  PROVE  Max(s) \in s /\ s \ {Max(s)} \in SUBSET (1..n)
<1> DEFINE T == {k \in Nat : \A r \in SUBSET (1..k) : r # {} => \E x \in r : \A y \in r : y <= x}
<1>1. 0 \in T
  <2>1. \A r \in SUBSET (1..0) : r = {}
    OBVIOUS
  <2> QED
    BY <2>1
<1>2. ASSUME NEW k \in Nat, k \in T PROVE k + 1 \in T
  <2> SUFFICES ASSUME NEW r \in SUBSET (1..(k + 1)), r # {}
               PROVE  \E x \in r : \A y \in r : y <= x
    OBVIOUS
  <2>1. CASE k + 1 \in r
    BY <2>1
  <2>2. CASE k + 1 \notin r
    <3>1. r \in SUBSET (1..k)
      BY <2>2
    <3> QED
      BY <1>2, <3>1
  <2> QED
    BY <2>1, <2>2
<1>3. Nat \subseteq T
  <2> HIDE DEF T
  <2> QED
    BY <1>1, <1>2, Induction
<1>4. PICK x \in s : \A y \in s : y <= x
  BY <1>3
<1>5. Max(s) = x
  <2>1. s \subseteq Nat
    OBVIOUS
  <2> QED
    BY <1>4, <2>1, MaxOf
<1> QED
  BY <1>4, <1>5

-----------------------------------------------------------------------------
(* AddSearchPathPrefix.                                                    *)

(* A fold over a sequence of n elements, in the form in which the          *)
(* community modules define it, has a value for every set of positions.    *)
Folds(h, n, base, step) ==
  \A s \in SUBSET (1..n) :
    h[s] = IF s = {} THEN base ELSE step[<<Max(s), h[s \ {Max(s)}]>>]

HasFold(n, W, base, step) == \E h \in [SUBSET (1..n) -> W] : Folds(h, n, base, step)

LEMMA FoldDefined ==
  ASSUME NEW n \in Nat, NEW W, NEW base \in W, NEW step \in [(1..n) \X W -> W]
  PROVE  HasFold(n, W, base, step)
<1> DEFINE T == {k \in Nat : k <= n => HasFold(k, W, base, step)}
<1>1. 0 \in T
  <2>1. SUBSET (1..0) = {{}}
    OBVIOUS
  <2>2. PICK h : h = [s \in SUBSET (1..0) |-> base]
    OBVIOUS
  <2>3. h \in [SUBSET (1..0) -> W]
    BY <2>2
  <2>4. Folds(h, 0, base, step)
    BY <2>1, <2>2 DEF Folds
  <2> QED
    BY <2>3, <2>4 DEF HasFold
<1>2. ASSUME NEW k \in Nat, k \in T PROVE k + 1 \in T
  <2> SUFFICES ASSUME k + 1 <= n PROVE HasFold(k + 1, W, base, step)
    OBVIOUS
  <2>1. PICK g \in [SUBSET (1..k) -> W] : Folds(g, k, base, step)
    <3>1. k <= n
      OBVIOUS
    <3> QED
      BY <1>2, <3>1 DEF HasFold
  <2>2. PICK h : h = [s \in SUBSET (1..(k + 1)) |->
                        IF k + 1 \in s THEN step[<<k + 1, g[s \ {k + 1}]>>] ELSE g[s]]
    OBVIOUS
  <2>3. k + 1 \in 1..n
    OBVIOUS
  <2>4. ASSUME NEW s \in SUBSET (1..(k + 1)) PROVE s \ {k + 1} \in SUBSET (1..k)
    OBVIOUS
  <2>5. ASSUME NEW s \in SUBSET (1..(k + 1)), k + 1 \notin s
        PROVE  s \in SUBSET (1..k) /\ h[s] = g[s]
    BY <2>2, <2>5
  <2>6. ASSUME NEW s \in SUBSET (1..(k + 1)), k + 1 \in s
        PROVE  /\ h[s] = step[<<k + 1, g[s \ {k + 1}]>>]
               /\ Max(s) = k + 1 /\ h[s \ {k + 1}] = g[s \ {k + 1}]
    <3>1. Max(s) = k + 1
      <4>1. \A y \in s : y <= k + 1
        OBVIOUS
      <4>2. s \subseteq Nat
        OBVIOUS
      <4> QED
        BY <2>6, <4>1, <4>2, MaxOf
    <3> QED
      BY <2>2, <2>4, <2>6, <3>1
  <2>7. h \in [SUBSET (1..(k + 1)) -> W]
    <3>1. ASSUME NEW s \in SUBSET (1..(k + 1)) PROVE h[s] \in W
      <4>1. CASE k + 1 \in s
        <5>1. g[s \ {k + 1}] \in W
          BY <2>4, <2>1
        <5>2. <<k + 1, g[s \ {k + 1}]>> \in (1..n) \X W
          BY <2>3, <5>1
        <5> QED
          BY <2>6, <4>1, <5>2
      <4>2. CASE k + 1 \notin s
        BY <2>1, <2>5, <4>2
      <4> QED
        BY <4>1, <4>2
    <3> QED
      BY <2>2, <3>1
  <2>8. Folds(h, k + 1, base, step)
    <3> SUFFICES ASSUME NEW s \in SUBSET (1..(k + 1))
                 PROVE  h[s] = IF s = {} THEN base ELSE step[<<Max(s), h[s \ {Max(s)}]>>]
      BY DEF Folds
    <3>1. CASE k + 1 \in s
      BY <2>6, <3>1
    <3>2. CASE k + 1 \notin s /\ s = {}
      BY <2>1, <2>5, <3>2 DEF Folds
    <3>3. CASE k + 1 \notin s /\ s # {}
      <4>1. s \in SUBSET (1..k) /\ h[s] = g[s]
        BY <2>5, <3>3
      <4>2. s \ {Max(s)} \in SUBSET (1..k)
        BY <4>1, <3>3, MaxWithout
      <4>3. h[s \ {Max(s)}] = g[s \ {Max(s)}]
        <5>1. PICK r : r = s \ {Max(s)}
          OBVIOUS
        <5>2. r \in SUBSET (1..(k + 1)) /\ k + 1 \notin r
          BY <4>2, <5>1
        <5>3. h[r] = g[r]
          BY <5>2, <2>5
        <5> QED
          BY <5>1, <5>3
      <4>4. g[s] = step[<<Max(s), g[s \ {Max(s)}]>>]
        BY <2>1, <3>3, <4>1 DEF Folds
      <4> QED
        BY <3>3, <4>1, <4>3, <4>4
    <3> QED
      BY <3>1, <3>2, <3>3
  <2> QED
    BY <2>7, <2>8 DEF HasFold
<1>3. Nat \subseteq T
  <2> HIDE DEF T
  <2> QED
    BY <1>1, <1>2, Induction
<1> QED
  BY <1>3

(* The step of AddSearchPathPrefix: a schema that is there is not added. *)
AddSchema(path) ==
  [x \in (1..Len(path)) \X Paths |->
     IF Contains(x[2], path[x[1]]) THEN x[2] ELSE Append(x[2], path[x[1]])]

LEMMA AddSchemaType ==
  ASSUME NEW path \in Paths
  PROVE  AddSchema(path) \in [(1..Len(path)) \X Paths -> Paths]
<1>1. ASSUME NEW x \in (1..Len(path)) \X Paths
      PROVE  (IF Contains(x[2], path[x[1]]) THEN x[2] ELSE Append(x[2], path[x[1]])) \in Paths
  <2>1. x[1] \in 1..Len(path) /\ x[2] \in Paths
    OBVIOUS
  <2>2. path[x[1]] \in Schemas
    BY <2>1 DEF Paths
  <2> QED
    BY <2>1, <2>2 DEF Paths
<1> QED
  BY <1>1 DEF AddSchema

(* AddSearchPathPrefix one schema after the other. *)
AddsEach(f, prefix, path, n) ==
  /\ f[1..0] = prefix
  /\ \A k \in 1..n :
       f[1..k] = IF Contains(f[1..(k - 1)], path[k]) THEN f[1..(k - 1)]
                 ELSE Append(f[1..(k - 1)], path[k])
  /\ AddSearchPathPrefix(prefix, path) = f[1..n]

LEMMA IntervalStep ==
  ASSUME NEW n \in Nat, NEW k \in 1..n
  PROVE  1..k \in SUBSET (1..n) /\ 1..k # {} /\ (1..k) \ {k} = 1..(k - 1) /\ Max(1..k) = k
<1>1. k \in 1..k /\ (\A y \in 1..k : y <= k) /\ 1..k \subseteq Nat
  OBVIOUS
<1>2. Max(1..k) = k
  BY <1>1, MaxOf
<1> QED
  BY <1>2

LEMMA PrefixSteps ==
  ASSUME NEW prefix \in Paths, prefix # Unset, NEW path \in Paths
  PROVE  \E f : AddsEach(f, prefix, path, Len(path))
<1>1. PICK n \in Nat : n = Len(path)
  BY DEF Paths
<1>2. DOMAIN path = 1..n
  BY <1>1 DEF Paths
<1> DEFINE eq(h) == h = [s \in SUBSET (1..n) |->
                  IF s = {} THEN prefix
                  ELSE IF Contains(h[s \ {Max(s)}], path[Max(s)]) THEN h[s \ {Max(s)}]
                       ELSE Append(h[s \ {Max(s)}], path[Max(s)])]
<1>3. ASSUME NEW h \in [SUBSET (1..n) -> Paths]
      PROVE  Folds(h, n, prefix, AddSchema(path)) <=> eq(h)
  <2>1. ASSUME NEW s \in SUBSET (1..n), s # {}
        PROVE  AddSchema(path)[<<Max(s), h[s \ {Max(s)}]>>] =
                 IF Contains(h[s \ {Max(s)}], path[Max(s)]) THEN h[s \ {Max(s)}]
                 ELSE Append(h[s \ {Max(s)}], path[Max(s)])
    <3>1. Max(s) \in 1..n /\ s \ {Max(s)} \in SUBSET (1..n)
      BY <1>1, <2>1, MaxWithout
    <3>2. PICK m \in 1..n, p \in Paths : m = Max(s) /\ p = h[s \ {Max(s)}]
      BY <3>1
    <3>3. AddSchema(path)[<<m, p>>] = IF Contains(p, path[m]) THEN p ELSE Append(p, path[m])
      BY <1>1 DEF AddSchema
    <3> QED
      BY <3>2, <3>3
  <2> QED
    BY <2>1 DEF Folds
<1>4. PICK iter : iter = CHOOSE h : eq(h)
  OBVIOUS
<1>5. AddSearchPathPrefix(prefix, path) = iter[1..n]
  BY <1>2, <1>4 DEF AddSearchPathPrefix, FoldLeft, MapThenFoldSet
<1> HIDE DEF eq
<1>6. eq(iter)
  <2>1. HasFold(n, Paths, prefix, AddSchema(path))
    BY <1>1, AddSchemaType, FoldDefined
  <2>2. \E h : eq(h)
    BY <1>3, <2>1 DEF HasFold
  <2> QED
    BY <1>4, <2>2
<1>7. iter[1..0] = prefix
  <2>1. 1..0 = {} /\ {} \in SUBSET (1..n)
    OBVIOUS
  <2> QED
    BY <1>6, <2>1 DEF eq
<1>8. ASSUME NEW k \in 1..n
      PROVE  iter[1..k] = IF Contains(iter[1..(k - 1)], path[k]) THEN iter[1..(k - 1)]
                          ELSE Append(iter[1..(k - 1)], path[k])
  <2>1. 1..k \in SUBSET (1..n) /\ 1..k # {} /\ (1..k) \ {k} = 1..(k - 1) /\ Max(1..k) = k
    BY IntervalStep
  <2>3. iter = [s \in SUBSET (1..n) |->
                  IF s = {} THEN prefix
                  ELSE IF Contains(iter[s \ {Max(s)}], path[Max(s)]) THEN iter[s \ {Max(s)}]
                       ELSE Append(iter[s \ {Max(s)}], path[Max(s)])]
    BY <1>6 DEF eq
  <2>4. PICK s \in SUBSET (1..n) : s = 1..k
    BY <2>1
  <2>5. s # {} /\ Max(s) = k /\ s \ {k} = 1..(k - 1)
    BY <2>1, <2>4
  <2>6. iter[s] = IF Contains(iter[s \ {k}], path[k]) THEN iter[s \ {k}]
                  ELSE Append(iter[s \ {k}], path[k])
    BY <2>3, <2>5
  <2> QED
    BY <2>4, <2>5, <2>6
<1>9. AddsEach(iter, prefix, path, n)
  BY <1>5, <1>7, <1>8 DEF AddsEach
<1> QED
  BY <1>1, <1>9

-----------------------------------------------------------------------------
(* Which schema comes first.                                               *)

LEMMA AppendSchema ==
  ASSUME NEW p \in Paths, NEW u \in Schemas
  PROVE  /\ Append(p, u) \in Paths /\ Range(Append(p, u)) = Range(p) \cup {u}
         /\ \A s, t : Ahead(Append(p, u), s, t) <=>
                        Ahead(p, s, t) \/ (s = u /\ t # u /\ t \notin Range(p))
<1>1. PICK n \in Nat : n = Len(p) /\ DOMAIN p = 1..n
  BY DEF Paths
<1>2. PICK q \in Paths : q = Append(p, u)
  <2>1. Append(p, u) \in Paths
    BY DEF Paths
  <2> QED
    BY <2>1, Zenon
<1>3. /\ DOMAIN q = 1..(n + 1) /\ q[n + 1] = u
      /\ \A i \in 1..n : q[i] = p[i]
  BY <1>1, <1>2 DEF Paths
<1>4. Range(q) = Range(p) \cup {u}
  <2>1. n + 1 \in 1..(n + 1) /\ (\A i \in 1..n : i \in 1..(n + 1))
        /\ \A i \in 1..(n + 1) : i \in 1..n \/ i = n + 1
    BY <1>1
  <2>2. ASSUME NEW x \in Range(q) PROVE x \in Range(p) \cup {u}
    BY <1>1, <1>3, <2>1, <2>2 DEF Range
  <2>3. ASSUME NEW x \in Range(p) \cup {u} PROVE x \in Range(q)
    BY <1>1, <1>3, <2>1, <2>3 DEF Range
  <2> QED
    BY <2>2, <2>3
<1>5. ASSUME NEW s, NEW t
      PROVE  Ahead(q, s, t) <=> Ahead(p, s, t) \/ (s = u /\ t # u /\ t \notin Range(p))
  <2>1. ASSUME Ahead(p, s, t) PROVE Ahead(q, s, t)
    <3>1. PICK i \in 1..n : p[i] = s /\ \A j \in 1..i : p[j] # t
      BY <1>1, <2>1 DEF Ahead
    <3>2. i \in 1..(n + 1) /\ \A j \in 1..i : j \in 1..n
      BY <1>1
    <3> QED
      BY <1>3, <3>1, <3>2 DEF Ahead
  <2>2. ASSUME s = u, t # u, t \notin Range(p) PROVE Ahead(q, s, t)
    <3>1. \A j \in 1..(n + 1) : q[j] # t
      BY <1>1, <1>3, <2>2 DEF Range
    <3>2. n + 1 \in 1..(n + 1)
      BY <1>1
    <3> QED
      BY <1>3, <2>2, <3>1, <3>2 DEF Ahead
  <2>3. ASSUME Ahead(q, s, t) PROVE Ahead(p, s, t) \/ (s = u /\ t # u /\ t \notin Range(p))
    <3>1. PICK i \in 1..(n + 1) : q[i] = s /\ \A j \in 1..i : q[j] # t
      BY <1>3, <2>3 DEF Ahead
    <3>2. CASE i \in 1..n
      <4>1. \A j \in 1..i : j \in 1..n
        BY <3>2
      <4> QED
        BY <1>1, <1>3, <3>1, <3>2, <4>1 DEF Ahead
    <3>3. CASE i = n + 1
      <4>1. s = u /\ t # u
        BY <1>1, <1>3, <3>1, <3>3
      <4>2. \A j \in 1..n : p[j] # t
        <5>1. \A j \in 1..n : j \in 1..i
          BY <1>1, <3>3
        <5> QED
          BY <1>3, <3>1, <5>1
      <4> QED
        BY <1>1, <4>1, <4>2 DEF Range
    <3> QED
      BY <1>1, <3>2, <3>3
  <2> QED
    BY <2>1, <2>2, <2>3
<1> QED
  BY <1>2, <1>4, <1>5

LEMMA ConcatSchemas ==
  ASSUME NEW a \in Paths, NEW b \in Paths
  PROVE  /\ a \o b \in Paths /\ Range(a \o b) = Range(a) \cup Range(b)
         /\ \A s, t : Ahead(a \o b, s, t) <=>
                        Ahead(a, s, t) \/ (t \notin Range(a) /\ Ahead(b, s, t))
<1>1. PICK n \in Nat : n = Len(a) /\ DOMAIN a = 1..n
  BY DEF Paths
<1>2. PICK m \in Nat : m = Len(b) /\ DOMAIN b = 1..m
  BY DEF Paths
<1>3. PICK q \in Paths : q = a \o b
  <2>1. a \o b \in Paths
    BY DEF Paths
  <2> QED
    BY <2>1, Zenon
<1>4. /\ DOMAIN q = 1..(n + m)
      /\ \A i \in 1..n : q[i] = a[i]
      /\ \A i \in 1..m : q[n + i] = b[i]
  BY <1>1, <1>2, <1>3 DEF Paths
<1>5. Range(q) = Range(a) \cup Range(b)
  <2>1. \A i \in 1..(n + m) : i \in 1..n \/ (i - n \in 1..m /\ i = n + (i - n))
    BY <1>1, <1>2
  <2>2. (\A i \in 1..n : i \in 1..(n + m)) /\ \A i \in 1..m : n + i \in 1..(n + m)
    BY <1>1, <1>2
  <2>3. ASSUME NEW x \in Range(q) PROVE x \in Range(a) \cup Range(b)
    <3>1. PICK i \in 1..(n + m) : x = q[i]
      BY <1>4 DEF Range
    <3>2. CASE i \in 1..n
      BY <1>1, <1>4, <3>1, <3>2 DEF Range
    <3>3. CASE i \notin 1..n
      <4>1. i - n \in 1..m /\ i = n + (i - n)
        BY <2>1, <3>3
      <4>2. x = b[i - n]
        BY <1>4, <3>1, <4>1
      <4> QED
        BY <1>2, <4>1, <4>2 DEF Range
    <3> QED
      BY <3>2, <3>3
  <2>4. Range(a) \subseteq Range(q)
    BY <1>1, <1>4, <2>2 DEF Range
  <2>5. Range(b) \subseteq Range(q)
    BY <1>2, <1>4, <2>2 DEF Range
  <2> QED
    BY <2>3, <2>4, <2>5
<1>6. ASSUME NEW s, NEW t
      PROVE  Ahead(q, s, t) <=> Ahead(a, s, t) \/ (t \notin Range(a) /\ Ahead(b, s, t))
  <2>1. ASSUME Ahead(a, s, t) PROVE Ahead(q, s, t)
    <3>1. PICK i \in 1..n : a[i] = s /\ \A j \in 1..i : a[j] # t
      BY <1>1, <2>1 DEF Ahead
    <3>2. i \in 1..(n + m) /\ \A j \in 1..i : j \in 1..n
      BY <1>1, <1>2
    <3> QED
      BY <1>4, <3>1, <3>2 DEF Ahead
  <2>2. ASSUME t \notin Range(a), Ahead(b, s, t) PROVE Ahead(q, s, t)
    <3>1. PICK i \in 1..m : b[i] = s /\ \A j \in 1..i : b[j] # t
      BY <1>2, <2>2 DEF Ahead
    <3>2. ASSUME NEW j \in 1..(n + i) PROVE q[j] # t
      <4>1. CASE j \in 1..n
        BY <1>1, <1>4, <2>2, <4>1 DEF Range
      <4>2. CASE j \notin 1..n
        <5>1. j - n \in 1..m /\ j - n \in 1..i /\ j = n + (j - n)
          BY <1>1, <1>2, <4>2
        <5> QED
          BY <1>4, <3>1, <5>1
      <4> QED
        BY <4>1, <4>2
    <3>3. n + i \in 1..(n + m) /\ q[n + i] = s
      BY <1>1, <1>2, <1>4, <3>1
    <3> QED
      BY <1>4, <3>2, <3>3 DEF Ahead
  <2>3. ASSUME Ahead(q, s, t) PROVE Ahead(a, s, t) \/ (t \notin Range(a) /\ Ahead(b, s, t))
    <3>1. PICK i \in 1..(n + m) : q[i] = s /\ \A j \in 1..i : q[j] # t
      BY <1>4, <2>3 DEF Ahead
    <3>2. CASE i \in 1..n
      <4>1. \A j \in 1..i : j \in 1..n
        BY <3>2
      <4> QED
        BY <1>1, <1>4, <3>1, <3>2, <4>1 DEF Ahead
    <3>3. CASE i \notin 1..n
      <4>1. PICK k \in 1..m : i = n + k
        <5>1. i - n \in 1..m /\ i = n + (i - n)
          BY <1>1, <1>2, <3>3
        <5> QED
          BY <5>1
      <4>2. \A j \in 1..n : a[j] # t
        <5>1. \A j \in 1..n : j \in 1..i
          BY <1>1, <4>1
        <5> QED
          BY <1>4, <3>1, <5>1
      <4>3. b[k] = s /\ \A j \in 1..k : b[j] # t
        <5>1. \A j \in 1..k : n + j \in 1..i /\ j \in 1..m
          BY <1>1, <1>2, <4>1
        <5> QED
          BY <1>4, <3>1, <4>1, <5>1
      <4> QED
        BY <1>1, <1>2, <4>2, <4>3 DEF Ahead, Range
    <3> QED
      BY <3>2, <3>3
  <2> QED
    BY <2>1, <2>2, <2>3
<1> QED
  BY <1>3, <1>5, <1>6

LEMMA AlikeAppend ==
  ASSUME NEW p \in Paths, NEW q \in Paths, SearchedAlike(p, q), NEW u \in Schemas
  PROVE  SearchedAlike(Append(p, u), Append(q, u))
<1>1. /\ Range(Append(p, u)) = Range(p) \cup {u}
      /\ \A s, t : Ahead(Append(p, u), s, t) <=>
                     Ahead(p, s, t) \/ (s = u /\ t # u /\ t \notin Range(p))
  BY AppendSchema
<1>2. /\ Range(Append(q, u)) = Range(q) \cup {u}
      /\ \A s, t : Ahead(Append(q, u), s, t) <=>
                     Ahead(q, s, t) \/ (s = u /\ t # u /\ t \notin Range(q))
  BY AppendSchema
<1>3. Range(p) = Range(q) /\ \A s, t \in Schemas : Ahead(p, s, t) <=> Ahead(q, s, t)
  BY DEF SearchedAlike
<1>4. ASSUME NEW s \in Schemas, NEW t \in Schemas
      PROVE  Ahead(Append(p, u), s, t) <=> Ahead(Append(q, u), s, t)
  BY <1>1, <1>2, <1>3
<1>5. Range(Append(p, u)) = Range(Append(q, u))
  BY <1>1, <1>2, <1>3
<1> QED
  BY <1>4, <1>5 DEF SearchedAlike

LEMMA AlikeConcat ==
  ASSUME NEW p \in Paths, NEW q \in Paths, SearchedAlike(p, q), NEW a \in Paths
  PROVE  SearchedAlike(a \o p, a \o q)
<1>1. /\ Range(a \o p) = Range(a) \cup Range(p)
      /\ \A s, t : Ahead(a \o p, s, t) <=>
                     Ahead(a, s, t) \/ (t \notin Range(a) /\ Ahead(p, s, t))
  BY ConcatSchemas
<1>2. /\ Range(a \o q) = Range(a) \cup Range(q)
      /\ \A s, t : Ahead(a \o q, s, t) <=>
                     Ahead(a, s, t) \/ (t \notin Range(a) /\ Ahead(q, s, t))
  BY ConcatSchemas
<1>3. Range(p) = Range(q) /\ \A s, t \in Schemas : Ahead(p, s, t) <=> Ahead(q, s, t)
  BY DEF SearchedAlike
<1>4. ASSUME NEW s \in Schemas, NEW t \in Schemas
      PROVE  Ahead(a \o p, s, t) <=> Ahead(a \o q, s, t)
  BY <1>1, <1>2, <1>3
<1>5. Range(a \o p) = Range(a \o q)
  BY <1>1, <1>2, <1>3
<1> QED
  BY <1>4, <1>5 DEF SearchedAlike

LEMMA AlikeRepeated ==
  ASSUME NEW p \in Paths, NEW u \in Schemas, u \in Range(p)
  PROVE  SearchedAlike(p, Append(p, u))
<1>1. /\ Range(Append(p, u)) = Range(p) \cup {u}
      /\ \A s, t : Ahead(Append(p, u), s, t) <=>
                     Ahead(p, s, t) \/ (s = u /\ t # u /\ t \notin Range(p))
  BY AppendSchema
<1>2. ASSUME NEW t, t \notin Range(p) PROVE Ahead(p, u, t)
  <2>1. PICK i \in DOMAIN p : p[i] = u
    BY DEF Range
  <2>2. PICK n \in Nat : DOMAIN p = 1..n
    BY DEF Paths
  <2>3. \A j \in 1..i : j \in DOMAIN p
    BY <2>1, <2>2
  <2>4. \A j \in 1..i : p[j] # t
    BY <1>2, <2>3 DEF Range
  <2> QED
    BY <2>1, <2>4 DEF Ahead
<1> QED
  BY <1>1, <1>2 DEF SearchedAlike

LEMMA AlikeTransitive ==
  ASSUME NEW p, NEW q, NEW r, SearchedAlike(p, q), SearchedAlike(q, r)
  PROVE  SearchedAlike(p, r)
BY DEF SearchedAlike

LEMMA AlikeNotUnset ==
  ASSUME NEW p \in Paths, NEW q \in Paths, SearchedAlike(p, q), q # Unset
  PROVE  p # Unset
<1>1. 1 \in DOMAIN q
  BY DEF Paths, Unset
<1>2. Range(q) # {}
  BY <1>1 DEF Range
<1>3. ASSUME p = Unset PROVE DOMAIN p = {}
  BY <1>3 DEF Paths, Unset
<1> QED
  BY <1>2, <1>3 DEF SearchedAlike, Range

(* A prefix that is added, without the schemas that come twice, is         *)
(* searched as one that is written in front.                               *)
LEMMA PrefixAlike ==
  ASSUME NEW prefix \in Paths, NEW path \in Paths
  PROVE  /\ AddSearchPathPrefix(prefix, path) \in Paths
         /\ SearchedAlike(AddSearchPathPrefix(prefix, path), prefix \o path)
<1>1. CASE prefix = Unset
  <2>1. prefix \o path = path
    BY <1>1 DEF Paths, Unset
  <2> QED
    BY <1>1, <2>1 DEF AddSearchPathPrefix, SearchedAlike
<1>2. CASE prefix # Unset
  <2>1. PICK n \in Nat : n = Len(path) /\ DOMAIN path = 1..n
    BY DEF Paths
  <2>2. PICK f : AddsEach(f, prefix, path, n)
    BY <1>2, <2>1, PrefixSteps
  <2> DEFINE Before(k) == prefix \o SubSeq(path, 1, k)
             T == {k \in Nat : k <= n => /\ f[1..k] \in Paths /\ Before(k) \in Paths
                                         /\ SearchedAlike(f[1..k], Before(k))}
  <2>3. 0 \in T
    <3>1. SubSeq(path, 1, 0) = <<>> /\ prefix \o <<>> = prefix
      BY DEF Paths
    <3> QED
      BY <2>2, <3>1 DEF AddsEach, SearchedAlike
  <2>4. ASSUME NEW k \in Nat, k \in T PROVE k + 1 \in T
    <3> SUFFICES ASSUME k + 1 <= n
                 PROVE  /\ f[1..(k + 1)] \in Paths /\ Before(k + 1) \in Paths
                        /\ SearchedAlike(f[1..(k + 1)], Before(k + 1))
      OBVIOUS
    <3>1. PICK p \in Paths, q \in Paths : p = f[1..k] /\ q = Before(k) /\ SearchedAlike(p, q)
      <4>1. k <= n
        BY <2>1
      <4>2. f[1..k] \in Paths /\ Before(k) \in Paths /\ SearchedAlike(f[1..k], Before(k))
        BY <2>4, <4>1, Zenon
      <4> HIDE DEF Before
      <4> QED
        BY <4>2
    <3>2. PICK u \in Schemas : u = path[k + 1]
      BY <2>1 DEF Paths
    <3>3. Before(k + 1) = Append(q, u)
      <4>1. SubSeq(path, 1, k + 1) = Append(SubSeq(path, 1, k), u)
        BY <2>1, <3>2 DEF Paths
      <4>2. SubSeq(path, 1, k) \in Paths
        BY <2>1 DEF Paths
      <4>3. PICK r \in Paths : r = SubSeq(path, 1, k)
        BY <4>2
      <4>4. prefix \o Append(r, u) = Append(prefix \o r, u)
        BY <3>2 DEF Paths
      <4> QED
        BY <3>1, <4>1, <4>3, <4>4
    <3>4. f[1..(k + 1)] = IF Contains(p, u) THEN p ELSE Append(p, u)
      <4>1. k + 1 \in 1..n /\ (k + 1) - 1 = k
        BY <2>1
      <4> QED
        BY <2>2, <3>1, <3>2, <4>1 DEF AddsEach
    <3>5. Append(p, u) \in Paths /\ Append(q, u) \in Paths
      BY AppendSchema
    <3>6. SearchedAlike(Append(p, u), Append(q, u))
      BY <3>1, AlikeAppend
    <3>7. CASE Contains(p, u)
      <4>1. u \in Range(p)
        BY <3>7 DEF Contains, Range, Paths
      <4>2. SearchedAlike(p, Append(p, u))
        BY <4>1, AlikeRepeated
      <4>3. SearchedAlike(p, Append(q, u))
        BY <3>6, <4>2, AlikeTransitive
      <4> QED
        BY <3>3, <3>4, <3>5, <3>7, <4>3
    <3>8. CASE ~Contains(p, u)
      BY <3>3, <3>4, <3>5, <3>6, <3>8
    <3> QED
      BY <3>7, <3>8
  <2>5. Nat \subseteq T
    <3> HIDE DEF T
    <3> QED
      BY <2>3, <2>4, Induction
  <2>6. Before(n) = prefix \o path
    <3>1. SubSeq(path, 1, n) = path
      BY <2>1 DEF Paths
    <3> QED
      BY <3>1
  <2>7. f[1..n] \in Paths /\ SearchedAlike(f[1..n], Before(n))
    BY <2>1, <2>5
  <2> QED
    BY <2>1, <2>2, <2>6, <2>7 DEF AddsEach
<1> QED
  BY <1>1, <1>2

(* What the client computes is searched as what is asked of it, if the     *)
(* path it starts from is.                                                 *)
LEMMA Constructed ==
  ASSUME NEW options \in PathOptions, NEW current \in Paths
  PROVE  /\ ContructSearchPath(options, current) \in Paths
         /\ \A otherwise \in Paths :
              options.path # Unset \/ SearchedAlike(current, otherwise) =>
                SearchedAlike(ContructSearchPath(options, current), Asked(options, otherwise))
         /\ options.path # Unset \/ current # Unset => ContructSearchPath(options, current) # Unset
<1>1. options.path \in Paths /\ options.prefix \in Paths
  BY DEF PathOptions
<1>2. PICK path : path = IF options.path # Unset THEN Append(options.path, "internal") ELSE current
  OBVIOUS
<1>3. "internal" \in Schemas /\ <<"internal">> \in Paths
  BY DEF Schemas, Paths
<1>4. path \in Paths
  BY <1>1, <1>2, <1>3, AppendSchema
<1>5. PICK result : result = ContructSearchPath(options, current)
  OBVIOUS
<1>6. result = AddSearchPathPrefix(options.prefix, path)
  BY <1>2, <1>5 DEF ContructSearchPath
<1>7. result \in Paths /\ SearchedAlike(result, options.prefix \o path)
  BY <1>1, <1>4, <1>6, PrefixAlike
<1>8. ASSUME NEW otherwise \in Paths, options.path # Unset \/ SearchedAlike(current, otherwise)
      PROVE  SearchedAlike(result, Asked(options, otherwise))
  <2>1. CASE options.path # Unset
    <3>1. path = options.path \o <<"internal">>
      <4>1. path = Append(options.path, "internal")
        BY <1>2, <2>1
      <4>2. PICK set \in Paths : set = options.path
        BY <1>1
      <4>3. Append(set, "internal") = set \o <<"internal">>
        BY <1>3, AppendIsConcat DEF Paths
      <4> QED
        BY <4>1, <4>2, <4>3
    <3> QED
      BY <1>7, <2>1, <3>1 DEF Asked
  <2>2. CASE options.path = Unset
    <3>1. SearchedAlike(options.prefix \o path, options.prefix \o otherwise)
      BY <1>1, <1>2, <1>4, <1>8, <2>2, AlikeConcat
    <3> QED
      BY <1>7, <2>2, <3>1, AlikeTransitive DEF Asked
  <2> QED
    BY <2>1, <2>2
<1>9. ASSUME options.path # Unset \/ current # Unset PROVE result # Unset
  <2>1. path # Unset
    BY <1>1, <1>2, <1>9 DEF Unset, Paths
  <2>2. options.prefix \o path \in Paths /\ options.prefix \o path # Unset
    BY <1>1, <1>4, <2>1 DEF Unset, Paths
  <2> QED
    BY <1>7, <2>2, AlikeNotUnset
<1> QED
  BY <1>5, <1>7, <1>8, <1>9

-----------------------------------------------------------------------------
(* Sessions and the client that uses them.                                 *)

SessionStates ==
  {b \in [at : {"closed", "free", "busy"}, path : Paths, old : BOOLEAN] :
     b.at # "closed" => b.path # Unset}
KnownPaths == [found : BOOLEAN, path : Paths]
SearchStates ==
  [at : {"idle", "setting", "acquired", "ready"}, for : {"query", "prefix", "schema"},
   pid : Pids \cup {NoSearch.pid}, own : PathOptions]
ClientStates ==
  [mode : {"none", "query", "check", "dashboard"}, size : Nat, options : PathOptions,
   required : Paths, users : Paths]

(* The types, those of the client and of its sessions as well. *)
SearchTypes ==
  /\ config \in Configs /\ configEdits \in 0..MaxConfigEdits
  /\ daemon \in Paths /\ userPath \in Paths \ {Unset} /\ refreshed.config \in Configs
  /\ client \in ClientStates
  /\ pool \in [Pids -> SessionStates] /\ known \in [Pids -> KnownPaths]
  /\ search \in [Goroutines -> SearchStates]
  /\ searches \in 0..MaxSearches /\ strayed \subseteq Pids
  /\ dropped \in BOOLEAN /\ piled \in BOOLEAN

(* Who uses a session: a prompt has one goroutine for its lines and one for *)
(* the schema, and only a control has options of its own.                  *)
UsesInv ==
  /\ \A g \in Goroutines : search[g].at # "idle" =>
       /\ client.mode # "none"
       /\ search[g].pid \in Pids /\ pool[search[g].pid].at = "busy"
       /\ client.mode = "query" =>
            IF g = 1 THEN search[g].for \in {"query", "prefix"} ELSE search[g].for = "schema"
       /\ client.mode # "query" => search[g].for = "query"
       /\ search[g].for = "prefix" => search[g].own = NoOptions /\ client.options.path = Unset
  /\ \A g, h \in Goroutines :
       search[g].at # "idle" /\ search[h].at # "idle" /\ search[g].pid = search[h].pid => g = h

(* What the client requires is what its options ask for. *)
RequiredInv ==
  client.mode # "none" =>
    /\ client.required # Unset /\ client.users # Unset
    /\ ~piled => SearchedAlike(client.required, Asked(client.options, client.users))

(* What the map of sessions says of a session whose path nobody but the    *)
(* client has changed: of a free one, and of one that is used.             *)
UnknownInv == \A p \in Pids : ~known[p].found => known[p].path = Unset
FreeInv ==
  \A p \in Pids \ strayed : pool[p].at = "free" => known[p].path \in {Unset, pool[p].path}
KnownInv ==
  \A g \in Goroutines :
    search[g].at \in {"acquired", "ready"} /\ search[g].pid \notin strayed =>
      /\ pool[search[g].pid].path =
           IF search[g].at = "ready"
           THEN ContructSearchPath(search[g].own, known[search[g].pid].path)
           ELSE known[search[g].pid].path
      /\ search[g].for # "schema" => known[search[g].pid].path = client.required

(* The path of the users is that of the last refresh. *)
UsersInv ==
  refreshed.by # "nobody" /\ ~dropped =>
    userPath = UserSearchPath(refreshed.config, refreshed.config.database)

SearchInv ==
  SearchTypes /\ UsesInv /\ RequiredInv /\ UnknownInv /\ FreeInv /\ KnownInv /\ UsersInv

-----------------------------------------------------------------------------
(* What the settings come to.                                              *)

LEMMA OptionsOf ==
  ASSUME NEW o \in PathOptions
  PROVE  o.path \in Paths /\ o.prefix \in Paths
BY DEF PathOptions

LEMMA OptionsMade ==
  ASSUME NEW path \in Paths, NEW prefix \in Paths
  PROVE  [path |-> path, prefix |-> prefix] \in PathOptions
BY DEF PathOptions

LEMMA UnsetPath == Unset \in Paths /\ NoOptions \in PathOptions
<1>1. Unset \in Paths
  BY DEF Unset, Paths
<1> QED
  BY <1>1, OptionsMade DEF NoOptions

LEMMA MergedOptions ==
  ASSUME NEW a \in PathOptions, NEW b \in PathOptions
  PROVE  MergeOptions(a, b) \in PathOptions
<1>1. Over(a.path, b.path) \in Paths /\ Over(a.prefix, b.prefix) \in Paths
  BY OptionsOf DEF Over
<1> QED
  BY <1>1, OptionsMade DEF MergeOptions

LEMMA ConfigFacts ==
  ASSUME NEW c \in Configs
  PROVE  /\ c.connections \in SUBSET Connections /\ c.database \in Paths
         /\ c.terminal \in PathOptions /\ c.workspace \in PathOptions /\ c.parallel \in Nat
BY PathsAssumption

LEMMA SettingsMade ==
  ASSUME NEW c \in Configs, NEW flags \in Flags, NEW mode
  PROVE  Settings(c, mode, flags) \in PathOptions
<1>1. TerminalOptions(c, mode) \in PathOptions
  BY ConfigFacts, MergedOptions, UnsetPath DEF TerminalOptions
<1>2. [NoOptions EXCEPT !.path = c.database] \in PathOptions
  <2>1. [NoOptions EXCEPT !.path = c.database] = [path |-> c.database, prefix |-> Unset]
    BY DEF NoOptions
  <2> QED
    BY <2>1, ConfigFacts, UnsetPath, OptionsMade
<1>3. ConfigMap(c, mode) \in PathOptions
  BY <1>1, <1>2, MergedOptions DEF ConfigMap
<1>4. flags.options \in PathOptions
  BY PathsAssumption
<1>5. (IF mode = "dashboard" THEN NoOptions ELSE flags.options) \in PathOptions
  BY <1>4, UnsetPath
<1> QED
  BY <1>3, <1>5, MergedOptions DEF Settings

LEMMA SizeMade ==
  ASSUME NEW c \in Configs, NEW flags \in Flags, NEW mode
  PROVE  PoolSize(c, mode, flags) \in Nat
<1>1. DefaultMaxConnections \in Nat
  <2>1. Cardinality(Pids) \in Nat /\ Cardinality(Pids) # 0
    BY PathsAssumption, FS_CardinalityType, FS_EmptySet
  <2> QED
    BY <2>1 DEF DefaultMaxConnections
<1>2. flags.parallel \in Nat /\ flags.env \in Nat /\ c.parallel \in Nat
  BY PathsAssumption
<1> QED
  BY <1>1, <1>2 DEF PoolSize, FirstSet

LEMMA UserPathMade ==
  ASSUME NEW c \in Configs, NEW database \in Paths
  PROVE  UserSearchPath(c, database) \in Paths /\ UserSearchPath(c, database) # Unset
<1>1. "internal" \in Schemas /\ <<"internal">> \in Paths /\ <<"public">> \in Paths
  BY DEF Schemas, Paths
<1>2. CASE database # Unset
  BY <1>1, <1>2 DEF UserSearchPath, Paths, Unset
<1>3. CASE database = Unset
  <2>1. PICK sorted : sorted = Sorted[c.connections]
    OBVIOUS
  <2>2. sorted \in Seq(c.connections) /\ c.connections \subseteq Schemas
    BY <2>1, PathsAssumption, ConfigFacts DEF Schemas
  <2>3. sorted \in Paths
    BY <2>2 DEF Paths
  <2>4. <<"public">> \o sorted \o <<"internal">> \in Paths
    BY <1>1, <2>3 DEF Paths
  <2>5. <<"public">> \o sorted \o <<"internal">> # Unset
    BY <1>1, <2>3 DEF Paths, Unset
  <2> QED
    BY <1>3, <2>1, <2>4, <2>5 DEF UserSearchPath, DefaultSearchPath
<1> QED
  BY <1>2, <1>3

-----------------------------------------------------------------------------
(* The steps.                                                              *)

Backend(at, path) == [at |-> at, path |-> path, old |-> FALSE]

(* What becomes of a session that is acquired: its path is to be set, it   *)
(* cannot be set, or it is there already.                                  *)
AcquiredToSet(g, for, own, pid) ==
  /\ pool' = [pool EXCEPT ![pid] = Backend("busy", client.required)]
  /\ search' = [search EXCEPT ![g] = Session("setting", for, pid, own)]
  /\ known' = known /\ strayed' = strayed \ {pid}
NotAcquired(pid, path) ==
  /\ pool' = [pool EXCEPT ![pid] = Backend("free", path)]
  /\ search' = search /\ known' = known
  /\ strayed' = IF pid \notin Free /\ known[pid].found THEN strayed \cup {pid} ELSE strayed
AcquiredAsItIs(g, for, own, pid, path) ==
  /\ ~NeedsSearchPath(pid)
  /\ pool' = [pool EXCEPT ![pid] = Backend("busy", path)]
  /\ search' = [search EXCEPT ![g] = Session("acquired", for, pid, own)]
  /\ known' = [known EXCEPT ![pid].found = TRUE]
  /\ strayed' = IF pid \notin Free THEN strayed \cup {pid} ELSE strayed

LEMMA SessionMade ==
  ASSUME NEW for \in {"query", "prefix", "schema"}, NEW pid \in Pids, NEW own \in PathOptions,
         NEW at \in {"idle", "setting", "acquired", "ready"}
  PROVE  /\ Session(at, for, pid, own) \in SearchStates
         /\ Session(at, for, pid, own).at = at /\ Session(at, for, pid, own).for = for
         /\ Session(at, for, pid, own).pid = pid /\ Session(at, for, pid, own).own = own
BY DEF Session, SearchStates

LEMMA BackendMade ==
  ASSUME NEW at \in {"closed", "free", "busy"}, NEW path \in Paths, path # Unset
  PROVE  /\ Backend(at, path) \in SessionStates /\ ~Backend(at, path).old
         /\ Backend(at, path).at = at /\ Backend(at, path).path = path
BY DEF Backend, SessionStates

LEMMA NothingMade ==
  /\ NoBackend \in SessionStates /\ NoBackend.at = "closed"
  /\ NoSearch \in SearchStates /\ NoSearch.at = "idle"
  /\ NotKnown \in KnownPaths /\ ~NotKnown.found /\ NotKnown.path = Unset
  /\ NoClient \in ClientStates /\ NoClient.mode = "none"
BY UnsetPath DEF NoBackend, SessionStates, NoSearch, Session, SearchStates, NotKnown, KnownPaths,
                 NoClient, ClientStates

(* What is used of the types. *)
LEMMA SearchFacts ==
  ASSUME SearchTypes
  PROVE  /\ client.options \in PathOptions /\ client.required \in Paths /\ client.users \in Paths
         /\ userPath \in Paths /\ userPath # Unset
         /\ \A p \in Pids : /\ pool[p] \in SessionStates /\ pool[p].path \in Paths
                            /\ pool[p].at # "closed" => pool[p].path # Unset
                            /\ known[p] \in KnownPaths /\ known[p].path \in Paths
         /\ \A g \in Goroutines : search[g] \in SearchStates /\ search[g].own \in PathOptions
BY DEF SearchTypes, ClientStates, SessionStates, KnownPaths, SearchStates

LEMMA SessionAcquired ==
  ASSUME SearchTypes, NEW g \in Goroutines, NEW for \in {"query", "prefix", "schema"},
         NEW own \in PathOptions, NEW pid \in Pids, Acquire(g, for, own, pid)
  PROVE  /\ search[g].at = "idle" /\ MayStart(g, for)
         /\ pool[pid].at \in {"free", "closed"} /\ (pid \in Free <=> pool[pid].at = "free")
         /\ searches' = searches + 1 /\ searches < MaxSearches
         /\ UNCHANGED <<configVars, usersVars, client, piled>>
         /\ \E path \in Paths \ {Unset} :
              /\ path = IF pid \in Free THEN pool[pid].path ELSE userPath
              /\ \/ AcquiredToSet(g, for, own, pid)
                 \/ NotAcquired(pid, path)
                 \/ AcquiredAsItIs(g, for, own, pid, path)
<1>1. PICK path \in Paths \ {Unset} : path = IF pid \in Free THEN pool[pid].path ELSE userPath
  <2>1. (IF pid \in Free THEN pool[pid].path ELSE userPath) \in Paths \ {Unset}
    BY SearchFacts DEF Free
  <2> QED
    BY <2>1, Zenon
<1>2. /\ search[g].at = "idle" /\ MayStart(g, for)
      /\ IF Free # {} THEN pid \in Free
         ELSE Cardinality(CurrentPool) < client.size /\ pool[pid].at = "closed"
      /\ searches' = searches + 1 /\ searches < MaxSearches
      /\ UNCHANGED <<configVars, usersVars, client, piled>>
  BY DEF Acquire
<1>3. pool[pid].at \in {"free", "closed"} /\ (pid \in Free <=> pool[pid].at = "free")
  BY <1>2 DEF Free
<1>4. \/ AcquiredToSet(g, for, own, pid)
      \/ NotAcquired(pid, path)
      \/ AcquiredAsItIs(g, for, own, pid, path)
  BY <1>1 DEF Acquire, AcquiredToSet, NotAcquired, AcquiredAsItIs, Backend
<1> QED
  BY <1>1, <1>2, <1>3, <1>4

LEMMA GiveBackEffect ==
  ASSUME SearchTypes, NEW g \in Goroutines, GiveBack(g), search[g].pid \in Pids,
         pool[search[g].pid].at = "busy"
  PROVE  \E pid \in Pids, back \in SessionStates :
           /\ pid = search[g].pid
           /\ back = NoBackend \/ (back.at = "free" /\ back.path = pool[pid].path /\ back # NoBackend)
           /\ search' = [search EXCEPT ![g] = NoSearch]
           /\ pool' = [pool EXCEPT ![pid] = back]
           /\ strayed' = IF back = NoBackend THEN strayed \ {pid}
                         ELSE IF search[g].own # NoOptions THEN strayed \cup {pid} ELSE strayed
<1>1. PICK pid \in Pids : pid = search[g].pid
  OBVIOUS
<1>2. PICK at \in {"free", "closed"} :
        pool' = [pool EXCEPT ![pid] = IF at = "closed" \/ pool[pid].old THEN NoBackend
                                      ELSE [pool[pid] EXCEPT !.at = "free"]]
  BY <1>1 DEF GiveBack
<1>3. [pool[pid] EXCEPT !.at = "free"] \in SessionStates
      /\ [pool[pid] EXCEPT !.at = "free"].at = "free"
      /\ [pool[pid] EXCEPT !.at = "free"].path = pool[pid].path
      /\ [pool[pid] EXCEPT !.at = "free"] # NoBackend
  <2>1. pool[pid] \in SessionStates /\ pool[pid].path # Unset
    BY <1>1, SearchFacts
  <2> QED
    BY <2>1, NothingMade DEF SessionStates
<1>4. PICK back \in SessionStates :
        /\ back = IF at = "closed" \/ pool[pid].old THEN NoBackend
                  ELSE [pool[pid] EXCEPT !.at = "free"]
        /\ back = NoBackend \/ (back.at = "free" /\ back.path = pool[pid].path /\ back # NoBackend)
  BY <1>3, NothingMade
<1>5. pool' = [pool EXCEPT ![pid] = back] /\ pool'[pid] = back
  BY <1>2, <1>4 DEF SearchTypes
<1> QED
  BY <1>1, <1>4, <1>5 DEF GiveBack

(* What a session is used for, when it is used. *)
LEMMA UsedSession ==
  ASSUME SearchTypes, UsesInv, NEW g \in Goroutines, search[g].at # "idle"
  PROVE  /\ search[g].pid \in Pids /\ pool[search[g].pid].at = "busy" /\ client.mode # "none"
         /\ client.mode = "query" =>
              IF g = 1 THEN search[g].for \in {"query", "prefix"} ELSE search[g].for = "schema"
         /\ client.mode # "query" => search[g].for = "query"
         /\ search[g].for = "prefix" => search[g].own = NoOptions /\ client.options.path = Unset
         /\ \A h \in Goroutines :
              search[h].at # "idle" /\ search[h].pid = search[g].pid => h = g
BY DEF UsesInv

(* Types of the parts that a step changes. *)
LEMMA PoolTyped ==
  ASSUME SearchTypes, NEW pid \in Pids, NEW b \in SessionStates
  PROVE  [pool EXCEPT ![pid] = b] \in [Pids -> SessionStates]
BY DEF SearchTypes

LEMMA SearchTyped ==
  ASSUME SearchTypes, NEW g \in Goroutines, NEW s \in SearchStates
  PROVE  [search EXCEPT ![g] = s] \in [Goroutines -> SearchStates]
BY DEF SearchTypes

LEMMA KnownTyped ==
  ASSUME SearchTypes, NEW pid \in Pids, NEW k \in KnownPaths
  PROVE  [known EXCEPT ![pid] = k] \in [Pids -> KnownPaths]
BY DEF SearchTypes

LEMMA TypesOfSearch == SearchTypes => SearchTypeOK
<1> SUFFICES ASSUME SearchTypes PROVE SearchTypeOK
  OBVIOUS
<1>1. client.mode \in {"none", "query", "check", "dashboard"} /\ client.options \in PathOptions
      /\ client.size \in Nat
  BY DEF SearchTypes, ClientStates
<1>2. \A p \in Pids : pool[p].at \in {"closed", "free", "busy"} /\ pool[p].old \in BOOLEAN
  BY DEF SearchTypes, SessionStates
<1>3. \A g \in Goroutines : search[g].at \in {"idle", "setting", "acquired", "ready"}
  BY DEF SearchTypes, SearchStates
<1>4. {dropped, piled} \subseteq BOOLEAN
  BY DEF SearchTypes
<1> QED
  BY <1>1, <1>2, <1>3, <1>4 DEF SearchTypes, SearchTypeOK

LEMMA SearchingStarts ==
  ASSUME SearchTypes, NEW mode \in {"query", "check", "dashboard"}, NEW local \in BOOLEAN,
         NEW flags \in Flags, NEW pid \in Pids, StartSearching(mode, local, flags, pid)
  PROVE  /\ client' \in ClientStates /\ pool' \in [Pids -> SessionStates]
         /\ known' \in [Pids -> KnownPaths]
         /\ userPath' \in Paths \ {Unset} /\ refreshed'.config \in Configs /\ dropped' \in BOOLEAN
         /\ client'.mode = mode /\ client'.required # Unset /\ client'.users # Unset
         /\ SearchedAlike(client'.required, Asked(client'.options, client'.users))
<1>1. config \in Configs /\ config.database \in Paths
  BY ConfigFacts DEF SearchTypes
<1>2. PICK options \in PathOptions : options = Settings(config, mode, flags)
  BY <1>1, SettingsMade
<1>3. PICK users \in Paths : /\ users = IF local THEN UserSearchPath(config, config.database)
                                        ELSE userPath
                             /\ users # Unset
  BY <1>1, UserPathMade, SearchFacts
<1>4. PICK required \in Paths : /\ required = ContructSearchPath(options, users)
                                /\ required # Unset
                                /\ SearchedAlike(required, Asked(options, users))
  <2>1. SearchedAlike(users, users)
    BY DEF SearchedAlike
  <2> QED
    BY <1>3, <2>1, Constructed
<1>5. PICK size \in Nat : size = PoolSize(config, mode, flags)
  BY <1>1, SizeMade
<1>6. client' = [mode |-> mode, size |-> size, options |-> options, required |-> required, users |-> users]
      /\ userPath' = users
  BY <1>2, <1>3, <1>4, <1>5 DEF StartSearching, RefreshConnectionAndSearchPaths
<1>7. /\ client' \in ClientStates
      /\ client'.mode = mode /\ client'.required = required /\ client'.users = users
      /\ client'.options = options
  BY <1>6 DEF ClientStates
<1>8. pool' \in [Pids -> SessionStates]
  <2>1. pool' = [pool EXCEPT ![pid] = Backend("free", userPath)]
    BY DEF StartSearching, RefreshConnectionAndSearchPaths, Backend
  <2> QED
    BY <2>1, PoolTyped, BackendMade, SearchFacts
<1>9. known' \in [Pids -> KnownPaths]
  <2>1. [found |-> TRUE, path |-> Unset] \in KnownPaths
    BY UnsetPath DEF KnownPaths
  <2> QED
    BY <2>1, KnownTyped DEF StartSearching, RefreshConnectionAndSearchPaths
<1>10. refreshed'.config \in Configs /\ dropped' \in BOOLEAN
  <2>1. refreshed.config \in Configs /\ dropped \in BOOLEAN
    BY DEF SearchTypes
  <2>2. CASE local
    <3>1. refreshed' = [by |-> "command", config |-> config] /\ dropped' = FALSE
      BY <2>2 DEF StartSearching, RefreshConnectionAndSearchPaths
    <3> QED
      BY <1>1, <3>1
  <2>3. CASE ~local
    BY <2>1, <2>3 DEF StartSearching, RefreshConnectionAndSearchPaths
  <2> QED
    BY <2>2, <2>3
<1> QED
  BY <1>3, <1>4, <1>6, <1>7, <1>8, <1>9, <1>10

LEMMA AcquireTypes ==
  ASSUME SearchTypes, NEW g \in Goroutines, NEW for \in {"query", "prefix", "schema"},
         NEW own \in PathOptions, NEW pid \in Pids, Acquire(g, for, own, pid),
         client.required # Unset
  PROVE  /\ pool' \in [Pids -> SessionStates] /\ search' \in [Goroutines -> SearchStates]
         /\ known' \in [Pids -> KnownPaths] /\ searches' \in 0..MaxSearches
         /\ strayed' \subseteq Pids
         /\ UNCHANGED <<configVars, usersVars, client, piled>>
<1>1. PICK path \in Paths \ {Unset} :
         \/ AcquiredToSet(g, for, own, pid)
         \/ NotAcquired(pid, path)
         \/ AcquiredAsItIs(g, for, own, pid, path)
  BY SessionAcquired
<1>2. UNCHANGED <<configVars, usersVars, client, piled>> /\ searches' \in 0..MaxSearches
  <2>1. searches \in 0..MaxSearches /\ MaxSearches \in Nat
    BY PathsAssumption DEF SearchTypes
  <2> QED
    BY <2>1, SessionAcquired
<1>3. client.required \in Paths /\ strayed \subseteq Pids
  BY SearchFacts DEF SearchTypes
<1>4. search \in [Goroutines -> SearchStates] /\ known \in [Pids -> KnownPaths]
  BY DEF SearchTypes
<1>5. CASE AcquiredToSet(g, for, own, pid)
  BY <1>2, <1>3, <1>4, <1>5, PoolTyped, SearchTyped, SessionMade, BackendMade DEF AcquiredToSet
<1>6. CASE NotAcquired(pid, path)
  BY <1>2, <1>3, <1>4, <1>6, PoolTyped, BackendMade DEF NotAcquired
<1>7. CASE AcquiredAsItIs(g, for, own, pid, path)
  <2>1. known' \in [Pids -> KnownPaths]
    BY <1>4, <1>7 DEF AcquiredAsItIs, KnownPaths
  <2> QED
    BY <1>2, <1>3, <1>7, <2>1, PoolTyped, SearchTyped, SessionMade, BackendMade DEF AcquiredAsItIs
<1> QED
  BY <1>1, <1>5, <1>6, <1>7

LEMMA GiveBackTypes ==
  ASSUME SearchTypes, NEW g \in Goroutines, GiveBack(g), search[g].pid \in Pids,
         pool[search[g].pid].at = "busy"
  PROVE  /\ pool' \in [Pids -> SessionStates] /\ search' \in [Goroutines -> SearchStates]
         /\ strayed' \subseteq Pids
<1>1. PICK pid \in Pids, back \in SessionStates :
           /\ search' = [search EXCEPT ![g] = NoSearch]
           /\ pool' = [pool EXCEPT ![pid] = back]
           /\ strayed' = IF back = NoBackend THEN strayed \ {pid}
                         ELSE IF search[g].own # NoOptions THEN strayed \cup {pid} ELSE strayed
  BY GiveBackEffect
<1>2. strayed \subseteq Pids
  BY DEF SearchTypes
<1> QED
  BY <1>1, <1>2, PoolTyped, SearchTyped, NothingMade

(* A session is acquired for a line of the prompt or by a goroutine        *)
(* without options of its own, or by a control with them.                  *)
Acquires(g, for, own, pid) ==
  /\ Acquire(g, for, own, pid)
  /\ client.mode # "query" \/ own = NoOptions
  /\ for = "prefix" => own = NoOptions /\ client.options.path = Unset

LEMMA SearchCases ==
  ASSUME SearchNext
  PROVE  \/ EditConfig \/ WatcherRefreshes \/ RefreshDbClient
         \/ \E mode \in {"query", "check", "dashboard"}, local \in BOOLEAN, flags \in Flags, pid \in Pids :
              StartSearching(mode, local, flags, pid)
         \/ \E g \in Goroutines, for \in {"query", "prefix", "schema"}, own \in PathOptions, pid \in Pids :
              Acquires(g, for, own, pid)
         \/ \E g \in Goroutines : PathIsSet(g) \/ SetOwnPath(g) \/ OwnPathFails(g) \/ RunSearch(g)
         \/ \E path \in Paths \ {Unset} :
              SetSearchPath(path) \/ SetSearchPathPrefix(path) \/ PrefixToCurrentPath(path)
<1>1. PICK first \in Pids : first = CHOOSE pid \in Pids : TRUE
  BY PathsAssumption
<1>2. OwnPaths \subseteq PathOptions /\ LinePaths \subseteq Paths \ {Unset} /\ NoOptions \in PathOptions
  BY PathsAssumption, UnsetPath
<1>3. CASE EditConfig \/ WatcherRefreshes \/ RefreshDbClient
  BY <1>3
<1>4. CASE \E mode \in {"query", "check", "dashboard"}, local \in BOOLEAN, flags \in Flags :
             StartSearching(mode, local, flags, CHOOSE pid \in Pids : TRUE)
  BY <1>1, <1>4
<1>5. CASE \E g \in Goroutines :
       \/ \E for \in {"query", "schema"}, own \in OwnPaths, pid \in Pids :
            (client.mode # "query" \/ own = NoOptions) /\ Acquire(g, for, own, pid)
       \/ client.options.path = Unset /\ \E pid \in Pids : Acquire(g, "prefix", NoOptions, pid)
       \/ PathIsSet(g) \/ SetOwnPath(g) \/ OwnPathFails(g) \/ RunSearch(g)
  <2>1. PICK g \in Goroutines :
       \/ \E for \in {"query", "schema"}, own \in OwnPaths, pid \in Pids :
            (client.mode # "query" \/ own = NoOptions) /\ Acquire(g, for, own, pid)
       \/ client.options.path = Unset /\ \E pid \in Pids : Acquire(g, "prefix", NoOptions, pid)
       \/ PathIsSet(g) \/ SetOwnPath(g) \/ OwnPathFails(g) \/ RunSearch(g)
    BY <1>5
  <2>2. CASE \E for \in {"query", "schema"}, own \in OwnPaths, pid \in Pids :
               (client.mode # "query" \/ own = NoOptions) /\ Acquire(g, for, own, pid)
    <3>1. PICK for \in {"query", "schema"}, own \in OwnPaths, pid \in Pids :
               (client.mode # "query" \/ own = NoOptions) /\ Acquire(g, for, own, pid)
      BY <2>2
    <3>2. Acquires(g, for, own, pid) /\ own \in PathOptions /\ for \in {"query", "prefix", "schema"}
      BY <1>2, <3>1 DEF Acquires
    <3> QED
      BY <3>2
  <2>3. CASE client.options.path = Unset /\ \E pid \in Pids : Acquire(g, "prefix", NoOptions, pid)
    <3>1. PICK pid \in Pids : Acquires(g, "prefix", NoOptions, pid)
      BY <2>3 DEF Acquires
    <3> QED
      BY <1>2, <3>1
  <2> QED
    BY <2>1, <2>2, <2>3
<1>6. CASE \E path \in LinePaths :
             SetSearchPath(path) \/ SetSearchPathPrefix(path) \/ PrefixToCurrentPath(path)
  BY <1>2, <1>6
<1> QED
  BY <1>3, <1>4, <1>5, <1>6 DEF SearchNext

(* The steps that leave the client and its sessions alone. *)
LEMMA SessionsAlone ==
  ASSUME SearchInv, UNCHANGED <<client, pool, known, search, strayed, piled>>
  PROVE  UsesInv' /\ RequiredInv' /\ UnknownInv' /\ FreeInv' /\ KnownInv'
<1>1. UsesInv'
  BY DEF SearchInv, UsesInv
<1>2. RequiredInv'
  BY DEF SearchInv, RequiredInv
<1>3. UnknownInv' /\ FreeInv'
  BY DEF SearchInv, UnknownInv, FreeInv
<1>4. KnownInv'
  BY DEF SearchInv, KnownInv
<1> QED
  BY <1>1, <1>2, <1>3, <1>4

LEMMA UsersAlone ==
  ASSUME SearchInv, UNCHANGED usersVars
  PROVE  UsersInv'
BY DEF SearchInv, UsersInv, usersVars

LEMMA EditConfigKeeps == SearchInv /\ EditConfig => SearchInv'
<1> SUFFICES ASSUME SearchInv, EditConfig PROVE SearchInv'
  OBVIOUS
<1>1. SearchTypes'
  <2>1. configEdits' \in 0..MaxConfigEdits
    BY PathsAssumption DEF SearchInv, SearchTypes, EditConfig
  <2> QED
    BY <2>1 DEF SearchInv, SearchTypes, EditConfig, usersVars
<1>2. UNCHANGED <<client, pool, known, search, strayed, piled>> /\ UNCHANGED usersVars
  BY DEF EditConfig
<1> QED
  BY <1>1, <1>2, SessionsAlone, UsersAlone DEF SearchInv

LEMMA WatcherKeeps == SearchInv /\ WatcherRefreshes => SearchInv'
<1> SUFFICES ASSUME SearchInv, WatcherRefreshes PROVE SearchInv'
  OBVIOUS
<1>1. config \in Configs /\ config.database \in Paths /\ daemon \in Paths /\ dropped \in BOOLEAN
  BY ConfigFacts DEF SearchInv, SearchTypes
<1>2. WatcherDatabase \in Paths
  BY <1>1 DEF WatcherDatabase, Over
<1>3. UserSearchPath(config, WatcherDatabase) \in Paths \ {Unset}
  BY <1>1, <1>2, UserPathMade
<1>4. /\ daemon' = WatcherDatabase /\ userPath' = UserSearchPath(config, WatcherDatabase)
      /\ refreshed' = [by |-> "watcher", config |-> config]
      /\ dropped' = (config.database = Unset /\ daemon # Unset)
      /\ UNCHANGED configVars /\ searches' = searches
  BY DEF WatcherRefreshes
<1>5. UNCHANGED <<client, pool, known, search, strayed, piled>>
  BY DEF WatcherRefreshes
<1>6. refreshed'.config = config
  BY <1>4
<1>7. SearchTypes'
  BY <1>1, <1>2, <1>3, <1>4, <1>5, <1>6 DEF SearchInv, SearchTypes, configVars
<1>8. UsersInv'
  <2>1. ~dropped' => WatcherDatabase = config.database
    BY <1>4 DEF WatcherDatabase, Over
  <2> QED
    BY <1>4, <1>6, <2>1 DEF UsersInv
<1> QED
  BY <1>5, <1>7, <1>8, SessionsAlone DEF SearchInv

LEMMA StartKeeps ==
  ASSUME SearchInv, NEW mode \in {"query", "check", "dashboard"}, NEW local \in BOOLEAN,
         NEW flags \in Flags, NEW pid \in Pids, StartSearching(mode, local, flags, pid)
  PROVE  SearchInv'
<1>1. SearchTypes /\ UsesInv /\ UnknownInv /\ FreeInv /\ UsersInv
  BY DEF SearchInv
<1>2. /\ client' \in ClientStates /\ pool' \in [Pids -> SessionStates]
      /\ known' \in [Pids -> KnownPaths]
      /\ userPath' \in Paths \ {Unset} /\ refreshed'.config \in Configs /\ dropped' \in BOOLEAN
      /\ client'.mode = mode /\ client'.required # Unset /\ client'.users # Unset
      /\ SearchedAlike(client'.required, Asked(client'.options, client'.users))
  BY <1>1, SearchingStarts
<1>3. /\ UNCHANGED <<configVars, daemon, search, searches, strayed, piled>>
      /\ client.mode = "none"
      /\ pool' = [pool EXCEPT ![pid] = [at |-> "free", path |-> userPath, old |-> FALSE]]
      /\ known' = [known EXCEPT ![pid] = [found |-> TRUE, path |-> Unset]]
  BY DEF StartSearching, RefreshConnectionAndSearchPaths
<1>4. SearchTypes'
  BY <1>1, <1>2, <1>3 DEF SearchTypes, configVars
<1>5. \A g \in Goroutines : search'[g].at = "idle"
  BY <1>1, <1>3 DEF UsesInv
<1>6. UsesInv' /\ KnownInv'
  BY <1>5 DEF UsesInv, KnownInv
<1>7. RequiredInv'
  BY <1>2 DEF RequiredInv
<1>8. /\ known'[pid].found /\ known'[pid].path = Unset
      /\ \A p \in Pids : p # pid => known'[p] = known[p] /\ pool'[p] = pool[p]
  BY <1>1, <1>3 DEF SearchTypes
<1>9. UnknownInv' /\ FreeInv'
  BY <1>1, <1>3, <1>8 DEF UnknownInv, FreeInv
<1>10. UsersInv'
  <2>1. CASE local
    <3>1. /\ refreshed' = [by |-> "command", config |-> config]
          /\ userPath' = UserSearchPath(config, config.database)
      BY <2>1 DEF StartSearching, RefreshConnectionAndSearchPaths
    <3> QED
      BY <3>1 DEF UsersInv
  <2>2. CASE ~local
    <3>1. UNCHANGED <<refreshed, dropped, userPath>>
      BY <2>2 DEF StartSearching, RefreshConnectionAndSearchPaths
    <3> QED
      BY <1>1, <3>1 DEF UsersInv
  <2> QED
    BY <2>1, <2>2
<1> QED
  BY <1>4, <1>6, <1>7, <1>9, <1>10 DEF SearchInv

LEMMA RefreshDbClientKeeps == SearchInv /\ RefreshDbClient => SearchInv'
<1> SUFFICES ASSUME SearchInv, RefreshDbClient PROVE SearchInv'
  OBVIOUS
<1>1. SearchTypes /\ UsesInv /\ RequiredInv /\ UnknownInv /\ FreeInv /\ KnownInv
  BY DEF SearchInv
<1>2. /\ UNCHANGED <<configVars, usersVars, client, known, search, searches, piled>>
      /\ pool' = [p \in Pids |-> IF pool[p].at = "busy" THEN [pool[p] EXCEPT !.old = TRUE] ELSE NoBackend]
      /\ strayed' = {p \in strayed : pool[p].at = "busy"}
  BY DEF RefreshDbClient
<1>3. ASSUME NEW p \in Pids
      PROVE  /\ pool'[p] \in SessionStates
             /\ pool[p].at = "busy" => pool'[p].at = "busy" /\ pool'[p].path = pool[p].path
             /\ pool[p].at # "busy" => pool'[p].at = "closed"
  <2>1. pool[p] \in SessionStates
    BY <1>1, SearchFacts
  <2>2. [pool[p] EXCEPT !.old = TRUE] \in SessionStates
        /\ [pool[p] EXCEPT !.old = TRUE].at = pool[p].at
        /\ [pool[p] EXCEPT !.old = TRUE].path = pool[p].path
    BY <2>1 DEF SessionStates
  <2>3. CASE pool[p].at = "busy"
    BY <1>2, <2>2, <2>3
  <2>4. CASE pool[p].at # "busy"
    BY <1>2, <2>4, NothingMade
  <2> QED
    BY <2>3, <2>4
<1>4. SearchTypes'
  <2>1. pool' \in [Pids -> SessionStates]
    BY <1>2, <1>3
  <2> QED
    BY <1>1, <1>2, <2>1 DEF SearchTypes, configVars, usersVars
<1>5. UsesInv'
  BY <1>1, <1>2, <1>3 DEF UsesInv
<1>6. RequiredInv' /\ UnknownInv'
  BY <1>1, <1>2 DEF RequiredInv, UnknownInv
<1>7. FreeInv'
  <2>1. \A p \in Pids : pool'[p].at # "free"
    BY <1>3
  <2> QED
    BY <2>1 DEF FreeInv
<1>8. KnownInv'
  <2> SUFFICES ASSUME NEW g \in Goroutines, search'[g].at \in {"acquired", "ready"},
                      search'[g].pid \notin strayed'
               PROVE  /\ pool'[search'[g].pid].path =
                           IF search'[g].at = "ready"
                           THEN ContructSearchPath(search'[g].own, known'[search'[g].pid].path)
                           ELSE known'[search'[g].pid].path
                      /\ search'[g].for # "schema" => known'[search'[g].pid].path = client'.required
    BY DEF KnownInv
  <2>1. PICK s : s = search[g] /\ s = search'[g]
    BY <1>2
  <2>2. s.pid \in Pids /\ pool[s.pid].at = "busy"
    BY <1>1, <2>1 DEF UsesInv
  <2>3. s.pid \notin strayed /\ pool'[s.pid].path = pool[s.pid].path
    BY <1>2, <1>3, <2>1, <2>2
  <2> QED
    BY <1>1, <1>2, <2>1, <2>3 DEF KnownInv
<1> QED
  BY <1>2, <1>4, <1>5, <1>6, <1>7, <1>8, UsersAlone DEF SearchInv

(* A session that is acquired, whatever comes of it. *)
LEMMA AcquireFacts ==
  ASSUME SearchInv, NEW g \in Goroutines, NEW for \in {"query", "prefix", "schema"},
         NEW own \in PathOptions, NEW pid \in Pids, Acquires(g, for, own, pid)
  PROVE  /\ search[g].at = "idle" /\ client.mode # "none"
         /\ client.mode = "query" =>
              /\ IF g = 1 THEN for \in {"query", "prefix"} ELSE for = "schema"
              /\ own = NoOptions
         /\ client.mode # "query" => for = "query"
         /\ for = "prefix" => own = NoOptions /\ client.options.path = Unset
         /\ \A h \in Goroutines : search[h].at # "idle" => search[h].pid # pid /\ h # g
         /\ SearchTypes' /\ RequiredInv' /\ UsersInv'
<1>1. SearchTypes /\ UsesInv /\ RequiredInv
  BY DEF SearchInv
<1>2. Acquire(g, for, own, pid)
  BY DEF Acquires
<1>3. /\ search[g].at = "idle" /\ MayStart(g, for) /\ pool[pid].at \in {"free", "closed"}
      /\ UNCHANGED <<configVars, usersVars, client, piled>>
  BY <1>1, <1>2, SessionAcquired
<1>4. SearchTypes'
  <2>1. /\ pool' \in [Pids -> SessionStates] /\ search' \in [Goroutines -> SearchStates]
        /\ known' \in [Pids -> KnownPaths] /\ searches' \in 0..MaxSearches
        /\ strayed' \subseteq Pids
    <3>1. client.required # Unset
      BY <1>1, <1>3 DEF MayStart, RequiredInv
    <3> QED
      BY <1>1, <1>2, <3>1, AcquireTypes
  <2> QED
    BY <1>1, <1>3, <2>1 DEF SearchTypes, configVars, usersVars
<1>5. RequiredInv'
  BY <1>1, <1>3 DEF RequiredInv
<1>6. \A h \in Goroutines : search[h].at # "idle" => search[h].pid # pid /\ h # g
  BY <1>1, <1>3 DEF UsesInv
<1> QED
  BY <1>3, <1>4, <1>5, <1>6, UsersAlone DEF MayStart, Acquires

LEMMA AcquiresKeeps ==
  ASSUME SearchInv, NEW g \in Goroutines, NEW for \in {"query", "prefix", "schema"},
         NEW own \in PathOptions, NEW pid \in Pids, Acquires(g, for, own, pid)
  PROVE  SearchInv'
<1>1. SearchTypes /\ UsesInv /\ RequiredInv /\ UnknownInv /\ FreeInv /\ KnownInv
  BY DEF SearchInv
<1>2. /\ search[g].at = "idle" /\ client.mode # "none"
      /\ client.mode = "query" =>
           /\ IF g = 1 THEN for \in {"query", "prefix"} ELSE for = "schema"
           /\ own = NoOptions
      /\ client.mode # "query" => for = "query"
      /\ for = "prefix" => own = NoOptions /\ client.options.path = Unset
      /\ \A h \in Goroutines : search[h].at # "idle" => search[h].pid # pid /\ h # g
  BY AcquireFacts
<1>3. Acquire(g, for, own, pid)
  BY DEF Acquires
<1>4. pid \in Free <=> pool[pid].at = "free"
  BY <1>1, <1>3, SessionAcquired
<1>5. PICK path \in Paths \ {Unset} :
         /\ path = IF pid \in Free THEN pool[pid].path ELSE userPath
         /\ \/ AcquiredToSet(g, for, own, pid)
            \/ NotAcquired(pid, path)
            \/ AcquiredAsItIs(g, for, own, pid, path)
  BY <1>1, <1>3, SessionAcquired
<1>6. client' = client /\ pool \in [Pids -> SessionStates] /\ known \in [Pids -> KnownPaths]
      /\ search \in [Goroutines -> SearchStates] /\ client.required \in Paths /\ client.required # Unset
  BY <1>1, <1>2, <1>3, SessionAcquired, SearchFacts DEF SearchTypes, RequiredInv
<1>7. CASE AcquiredToSet(g, for, own, pid)
  <2>1. PICK s \in SearchStates : s = Session("setting", for, pid, own)
                                  /\ s.at = "setting" /\ s.for = for /\ s.pid = pid /\ s.own = own
    BY SessionMade
  <2>2. PICK b \in SessionStates : b = Backend("busy", client.required) /\ b.at = "busy"
    BY <1>6, BackendMade
  <2>3. /\ pool' = [pool EXCEPT ![pid] = b] /\ search' = [search EXCEPT ![g] = s]
        /\ known' = known /\ strayed' = strayed \ {pid}
    BY <1>7, <2>1, <2>2 DEF AcquiredToSet
  <2>4. UsesInv'
    BY <1>1, <1>2, <1>6, <2>1, <2>2, <2>3 DEF UsesInv
  <2>5. UnknownInv' /\ FreeInv'
    BY <1>1, <1>6, <2>2, <2>3 DEF UnknownInv, FreeInv
  <2>6. KnownInv'
    BY <1>1, <1>2, <1>6, <2>1, <2>2, <2>3 DEF KnownInv, UsesInv
  <2> QED
    BY <2>4, <2>5, <2>6, AcquireFacts DEF SearchInv
<1>8. CASE NotAcquired(pid, path)
  <2>1. PICK b \in SessionStates : b = Backend("free", path) /\ b.at = "free" /\ b.path = path
    BY BackendMade
  <2>2. /\ pool' = [pool EXCEPT ![pid] = b] /\ search' = search /\ known' = known
        /\ strayed' = IF pid \notin Free /\ known[pid].found THEN strayed \cup {pid} ELSE strayed
    BY <1>8, <2>1 DEF NotAcquired
  <2>3. UsesInv'
    BY <1>1, <1>2, <1>6, <2>2 DEF UsesInv
  <2>4. UnknownInv'
    BY <1>1, <2>2 DEF UnknownInv
  <2>5. FreeInv'
    <3> SUFFICES ASSUME NEW p \in Pids, p \notin strayed', pool'[p].at = "free"
                 PROVE  known'[p].path \in {Unset, pool'[p].path}
      BY DEF FreeInv
    <3>1. CASE p # pid
      BY <1>1, <1>6, <2>2, <3>1 DEF FreeInv
    <3>2. CASE p = pid /\ pid \in Free
      BY <1>1, <1>4, <1>5, <1>6, <2>1, <2>2, <3>2 DEF FreeInv
    <3>3. CASE p = pid /\ pid \notin Free
      BY <1>1, <2>2, <3>3 DEF UnknownInv
    <3> QED
      BY <3>1, <3>2, <3>3
  <2>6. KnownInv'
    BY <1>1, <1>2, <1>6, <2>2 DEF KnownInv, UsesInv
  <2> QED
    BY <2>3, <2>4, <2>5, <2>6, AcquireFacts DEF SearchInv
<1>9. CASE AcquiredAsItIs(g, for, own, pid, path)
  <2>1. PICK s \in SearchStates : s = Session("acquired", for, pid, own)
                                  /\ s.at = "acquired" /\ s.for = for /\ s.pid = pid /\ s.own = own
    BY SessionMade
  <2>2. PICK b \in SessionStates : b = Backend("busy", path) /\ b.at = "busy" /\ b.path = path
    BY BackendMade
  <2>3. /\ pool' = [pool EXCEPT ![pid] = b] /\ search' = [search EXCEPT ![g] = s]
        /\ known' = [known EXCEPT ![pid].found = TRUE]
        /\ strayed' = IF pid \notin Free THEN strayed \cup {pid} ELSE strayed
        /\ known[pid].path = client.required
    BY <1>9, <2>1, <2>2 DEF AcquiredAsItIs, NeedsSearchPath
  <2>4. /\ known'[pid].found /\ known'[pid].path = known[pid].path
        /\ \A p \in Pids : p # pid => known'[p] = known[p] /\ pool'[p] = pool[p]
        /\ pool'[pid] = b /\ search'[g] = s
        /\ \A h \in Goroutines : h # g => search'[h] = search[h]
    BY <1>6, <2>3 DEF KnownPaths
  <2>5. UsesInv'
    BY <1>1, <1>2, <1>6, <2>1, <2>2, <2>3 DEF UsesInv
  <2>6. UnknownInv' /\ FreeInv'
    BY <1>1, <2>2, <2>3, <2>4 DEF UnknownInv, FreeInv
  <2>7. KnownInv'
    <3> SUFFICES ASSUME NEW h \in Goroutines, search'[h].at \in {"acquired", "ready"},
                        search'[h].pid \notin strayed'
                 PROVE  /\ pool'[search'[h].pid].path =
                             IF search'[h].at = "ready"
                             THEN ContructSearchPath(search'[h].own, known'[search'[h].pid].path)
                             ELSE known'[search'[h].pid].path
                        /\ search'[h].for # "schema" => known'[search'[h].pid].path = client'.required
      BY DEF KnownInv
    <3>1. CASE h = g
      <4>1. pid \in Free /\ pid \notin strayed
        BY <2>1, <2>3, <2>4, <3>1
      <4>2. pool[pid].path = known[pid].path
        BY <1>1, <1>4, <1>6, <2>3, <4>1 DEF FreeInv
      <4>3. path = known[pid].path
        BY <1>5, <4>1, <4>2
      <4> QED
        BY <1>6, <2>1, <2>2, <2>3, <2>4, <3>1, <4>3
    <3>2. CASE h # g
      <4>1. search'[h] = search[h] /\ search[h].pid \in Pids /\ search[h].pid # pid
        BY <1>1, <1>2, <2>4, <3>2 DEF UsesInv
      <4>2. search[h].pid \notin strayed /\ known'[search[h].pid] = known[search[h].pid]
            /\ pool'[search[h].pid] = pool[search[h].pid]
        BY <2>3, <2>4, <4>1
      <4> QED
        BY <1>1, <1>6, <4>1, <4>2 DEF KnownInv
    <3> QED
      BY <3>1, <3>2
  <2> QED
    BY <2>5, <2>6, <2>7, AcquireFacts DEF SearchInv
<1> QED
  BY <1>5, <1>7, <1>8, <1>9

LEMMA SessionAt ==
  ASSUME NEW s \in SearchStates, NEW at \in {"idle", "setting", "acquired", "ready"}
  PROVE  \E t \in SearchStates : /\ t = [s EXCEPT !.at = at] /\ t.at = at
                                /\ t.for = s.for /\ t.pid = s.pid /\ t.own = s.own
<1>1. PICK t : t = [s EXCEPT !.at = at]
  OBVIOUS
<1>2. t \in SearchStates /\ t.at = at /\ t.for = s.for /\ t.pid = s.pid /\ t.own = s.own
  BY <1>1 DEF SearchStates
<1> QED
  BY <1>1, <1>2

LEMMA BackendWith ==
  ASSUME NEW b \in SessionStates, NEW path \in Paths, path # Unset
  PROVE  \E c \in SessionStates : c = [b EXCEPT !.path = path] /\ c.at = b.at /\ c.path = path
<1>1. PICK c : c = [b EXCEPT !.path = path]
  OBVIOUS
<1>2. c \in SessionStates /\ c.at = b.at /\ c.path = path
  BY <1>1 DEF SessionStates
<1> QED
  BY <1>1, <1>2

LEMMA PathIsSetKeeps == ASSUME SearchInv, NEW g \in Goroutines, PathIsSet(g) PROVE SearchInv'
<1>1. SearchTypes /\ UsesInv /\ RequiredInv /\ UnknownInv /\ FreeInv /\ KnownInv
  BY DEF SearchInv
<1>2. PICK pid : pid = search[g].pid
  OBVIOUS
<1>3. /\ search[g].at = "setting"
      /\ search' = [search EXCEPT ![g].at = "acquired"]
      /\ known' = [known EXCEPT ![pid] = [found |-> TRUE, path |-> client.required]]
      /\ strayed' = IF pool[pid].path # client.required THEN strayed \cup {pid} ELSE strayed
      /\ UNCHANGED <<configVars, usersVars, client, pool, searches, piled>>
  BY <1>2 DEF PathIsSet
<1>4. /\ pid \in Pids /\ pool[pid].at = "busy"
      /\ \A h \in Goroutines : search[h].at # "idle" /\ search[h].pid = pid => h = g
  BY <1>1, <1>2, <1>3, UsedSession
<1>5. PICK s \in SearchStates : s = [search[g] EXCEPT !.at = "acquired"]
                                /\ s.at = "acquired" /\ s.for = search[g].for /\ s.pid = pid
                                /\ s.own = search[g].own
  <2>1. search[g] \in SearchStates
    BY <1>1, SearchFacts
  <2> QED
    BY <1>2, <2>1, SessionAt
<1>6. PICK k \in KnownPaths : k = [found |-> TRUE, path |-> client.required]
                              /\ k.found /\ k.path = client.required
  <2>1. client.required \in Paths
    BY <1>1, SearchFacts
  <2>2. PICK k : k = [found |-> TRUE, path |-> client.required]
    OBVIOUS
  <2>3. k \in KnownPaths /\ k.found /\ k.path = client.required
    BY <2>1, <2>2 DEF KnownPaths
  <2> QED
    BY <2>2, <2>3
<1>7. search' = [search EXCEPT ![g] = s] /\ known' = [known EXCEPT ![pid] = k]
  BY <1>3, <1>5, <1>6
<1>8. /\ search'[g] = s /\ \A h \in Goroutines : h # g => search'[h] = search[h]
      /\ known'[pid] = k /\ \A p \in Pids : p # pid => known'[p] = known[p]
      /\ client' = client /\ pool' = pool
  BY <1>1, <1>3, <1>4, <1>7 DEF SearchTypes
<1>9. SearchTypes'
  <2>1. search' \in [Goroutines -> SearchStates] /\ known' \in [Pids -> KnownPaths]
    BY <1>1, <1>4, <1>7, SearchTyped, KnownTyped
  <2> QED
    BY <1>1, <1>3, <1>4, <2>1 DEF SearchTypes, configVars, usersVars
<1>10. UsesInv'
  <2>1. \A h \in Goroutines :
          /\ search'[h].pid = search[h].pid /\ search'[h].for = search[h].for
          /\ search'[h].own = search[h].own
          /\ search'[h].at # "idle" => search[h].at # "idle"
    BY <1>2, <1>3, <1>5, <1>8
  <2> QED
    BY <1>1, <1>8, <2>1 DEF UsesInv
<1>11. RequiredInv' /\ UnknownInv'
  BY <1>1, <1>3, <1>6, <1>8 DEF RequiredInv, UnknownInv
<1>12. FreeInv'
  BY <1>1, <1>3, <1>4, <1>8 DEF FreeInv
<1>13. KnownInv'
  <2> SUFFICES ASSUME NEW h \in Goroutines, search'[h].at \in {"acquired", "ready"},
                      search'[h].pid \notin strayed'
               PROVE  /\ pool'[search'[h].pid].path =
                           IF search'[h].at = "ready"
                           THEN ContructSearchPath(search'[h].own, known'[search'[h].pid].path)
                           ELSE known'[search'[h].pid].path
                      /\ search'[h].for # "schema" => known'[search'[h].pid].path = client'.required
    BY DEF KnownInv
  <2>1. CASE h = g
    <3>1. search'[h].pid = pid /\ search'[h].at = "acquired" /\ known'[pid].path = client.required
      BY <1>5, <1>6, <1>8, <2>1
    <3>2. pool[pid].path = client.required
      BY <1>3, <3>1
    <3> QED
      BY <1>8, <3>1, <3>2
  <2>2. CASE h # g
    <3>1. search'[h] = search[h] /\ search[h].pid \in Pids /\ search[h].pid # pid
      BY <1>1, <1>4, <1>8, <2>2 DEF UsesInv
    <3>2. search[h].pid \notin strayed /\ known'[search[h].pid] = known[search[h].pid]
      BY <1>3, <1>8, <3>1
    <3> QED
      BY <1>1, <1>8, <3>1, <3>2 DEF KnownInv
  <2> QED
    BY <2>1, <2>2
<1> QED
  BY <1>3, <1>9, <1>10, <1>11, <1>12, <1>13, UsersAlone DEF SearchInv

LEMMA SetOwnPathKeeps == ASSUME SearchInv, NEW g \in Goroutines, SetOwnPath(g) PROVE SearchInv'
<1>1. SearchTypes /\ UsesInv /\ RequiredInv /\ UnknownInv /\ FreeInv /\ KnownInv
  BY DEF SearchInv
<1>2. PICK pid : pid = search[g].pid
  OBVIOUS
<1>3. /\ search[g].at = "acquired"
      /\ search' = [search EXCEPT ![g].at = "ready"]
      /\ pool' = [pool EXCEPT ![pid].path = ContructSearchPath(search[g].own, pool[pid].path)]
      /\ UNCHANGED <<configVars, usersVars, client, known, searches, strayed, piled>>
  BY <1>2 DEF SetOwnPath
<1>4. /\ pid \in Pids /\ pool[pid].at = "busy"
      /\ \A h \in Goroutines : search[h].at # "idle" /\ search[h].pid = pid => h = g
  BY <1>1, <1>2, <1>3, UsedSession
<1>5. PICK s \in SearchStates : s = [search[g] EXCEPT !.at = "ready"]
                                /\ s.at = "ready" /\ s.for = search[g].for /\ s.pid = pid
                                /\ s.own = search[g].own
  <2>1. search[g] \in SearchStates
    BY <1>1, SearchFacts
  <2> QED
    BY <1>2, <2>1, SessionAt
<1>6. PICK path \in Paths : path = ContructSearchPath(search[g].own, pool[pid].path) /\ path # Unset
  <2>1. pool[pid].path \in Paths /\ pool[pid].path # Unset /\ search[g].own \in PathOptions
    BY <1>1, <1>4, SearchFacts
  <2> QED
    BY <2>1, Constructed
<1>7. PICK b \in SessionStates : b = [pool[pid] EXCEPT !.path = path] /\ b.at = "busy" /\ b.path = path
  <2>1. pool[pid] \in SessionStates
    BY <1>1, <1>4, SearchFacts
  <2> QED
    BY <1>4, <1>6, <2>1, BackendWith
<1>8. search' = [search EXCEPT ![g] = s] /\ pool' = [pool EXCEPT ![pid] = b]
  BY <1>3, <1>5, <1>6, <1>7
<1>9. /\ search'[g] = s /\ \A h \in Goroutines : h # g => search'[h] = search[h]
      /\ pool'[pid] = b /\ \A p \in Pids : p # pid => pool'[p] = pool[p]
      /\ client' = client /\ known' = known /\ strayed' = strayed
  BY <1>1, <1>3, <1>4, <1>8 DEF SearchTypes
<1>10. SearchTypes'
  <2>1. search' \in [Goroutines -> SearchStates] /\ pool' \in [Pids -> SessionStates]
    BY <1>1, <1>4, <1>8, SearchTyped, PoolTyped
  <2> QED
    BY <1>1, <1>3, <2>1 DEF SearchTypes, configVars, usersVars
<1>11. UsesInv'
  <2>1. \A h \in Goroutines :
          /\ search'[h].pid = search[h].pid /\ search'[h].for = search[h].for
          /\ search'[h].own = search[h].own
          /\ search'[h].at # "idle" => search[h].at # "idle"
    BY <1>2, <1>3, <1>5, <1>9
  <2>2. \A p \in Pids : pool[p].at = "busy" => pool'[p].at = "busy"
    BY <1>7, <1>9
  <2> QED
    BY <1>1, <1>9, <2>1, <2>2 DEF UsesInv
<1>12. RequiredInv' /\ UnknownInv'
  BY <1>1, <1>3 DEF RequiredInv, UnknownInv
<1>13. FreeInv'
  BY <1>1, <1>7, <1>9 DEF FreeInv
<1>14. KnownInv'
  <2> SUFFICES ASSUME NEW h \in Goroutines, search'[h].at \in {"acquired", "ready"},
                      search'[h].pid \notin strayed'
               PROVE  /\ pool'[search'[h].pid].path =
                           IF search'[h].at = "ready"
                           THEN ContructSearchPath(search'[h].own, known'[search'[h].pid].path)
                           ELSE known'[search'[h].pid].path
                      /\ search'[h].for # "schema" => known'[search'[h].pid].path = client'.required
    BY DEF KnownInv
  <2>1. CASE h = g
    <3>1. pid \notin strayed /\ search'[h] = s
      BY <1>5, <1>9, <2>1
    <3>2. /\ pool[pid].path = known[pid].path
          /\ search[g].for # "schema" => known[pid].path = client.required
      BY <1>1, <1>2, <1>3, <3>1 DEF KnownInv
    <3> QED
      BY <1>5, <1>6, <1>7, <1>9, <3>1, <3>2
  <2>2. CASE h # g
    <3>1. search'[h] = search[h] /\ search[h].pid \in Pids /\ search[h].pid # pid
      BY <1>1, <1>4, <1>9, <2>2 DEF UsesInv
    <3>2. search[h].pid \notin strayed /\ pool'[search[h].pid] = pool[search[h].pid]
      BY <1>9, <3>1
    <3> QED
      BY <1>1, <1>9, <3>1, <3>2 DEF KnownInv
  <2> QED
    BY <2>1, <2>2
<1> QED
  BY <1>3, <1>10, <1>11, <1>12, <1>13, <1>14, UsersAlone DEF SearchInv

(* A goroutine has done with its session: it is free again, as it was, or   *)
(* closed.                                                                 *)
Returns(g, pid, back) ==
  /\ back = NoBackend \/ (back.at = "free" /\ back.path = pool[pid].path)
  /\ search' = [search EXCEPT ![g] = NoSearch]
  /\ pool' = [pool EXCEPT ![pid] = back]
  /\ known' = known
  /\ pid \in strayed' \/ (pid \notin strayed /\ known[pid].path = pool[pid].path) \/ back = NoBackend
  /\ strayed \ {pid} \subseteq strayed'

LEMMA ReturnKeeps ==
  ASSUME SearchInv, NEW g \in Goroutines, search[g].at # "idle",
         NEW back \in SessionStates, Returns(g, search[g].pid, back),
         client' = client \/ (g = 1 /\ client.mode = "query" /\ client'.mode = "query")
  PROVE  UsesInv' /\ UnknownInv' /\ FreeInv' /\ KnownInv'
<1>1. SearchTypes /\ UsesInv /\ UnknownInv /\ FreeInv /\ KnownInv
  BY DEF SearchInv
<1>2. PICK pid \in Pids : /\ pid = search[g].pid
                          /\ \A h \in Goroutines : search[h].at # "idle" /\ search[h].pid = pid => h = g
  BY <1>1, UsedSession
<1>3. /\ search'[g] = NoSearch /\ \A h \in Goroutines : h # g => search'[h] = search[h]
      /\ pool'[pid] = back /\ \A p \in Pids : p # pid => pool'[p] = pool[p]
      /\ known' = known
      /\ back = NoBackend \/ (back.at = "free" /\ back.path = pool[pid].path)
      /\ pid \in strayed' \/ (pid \notin strayed /\ known[pid].path = pool[pid].path) \/ back = NoBackend
      /\ strayed \ {pid} \subseteq strayed'
  BY <1>1, <1>2 DEF SearchTypes, Returns
<1>4. UnknownInv'
  BY <1>1, <1>3 DEF UnknownInv
<1>5. FreeInv'
  <2> SUFFICES ASSUME NEW p \in Pids, p \notin strayed', pool'[p].at = "free"
               PROVE  known'[p].path \in {Unset, pool'[p].path}
    BY DEF FreeInv
  <2>1. CASE p = pid
    BY <1>3, <2>1, NothingMade
  <2>2. CASE p # pid
    BY <1>1, <1>3, <2>2 DEF FreeInv
  <2> QED
    BY <2>1, <2>2
<1>6. ASSUME NEW h \in Goroutines, search'[h].at # "idle"
      PROVE  /\ search'[h] = search[h] /\ search[h].pid \in Pids /\ search[h].pid # pid
             /\ pool'[search[h].pid] = pool[search[h].pid]
             /\ \/ client' = client
                \/ client.mode = "query" /\ client'.mode = "query" /\ search[h].for = "schema"
  <2>1. h # g
    BY <1>3, <1>6, NothingMade
  <2>2. search'[h] = search[h] /\ search[h].pid \in Pids /\ search[h].pid # pid
    BY <1>1, <1>2, <1>3, <1>6, <2>1 DEF UsesInv
  <2>3. client.mode = "query" /\ g = 1 => search[h].for = "schema"
    BY <1>1, <1>6, <2>1, <2>2, UsedSession
  <2> QED
    BY <1>3, <2>2, <2>3
<1>7. UsesInv'
  BY <1>1, <1>6 DEF UsesInv, Goroutines
<1>8. KnownInv'
  <2> SUFFICES ASSUME NEW h \in Goroutines, search'[h].at \in {"acquired", "ready"},
                      search'[h].pid \notin strayed'
               PROVE  /\ pool'[search'[h].pid].path =
                           IF search'[h].at = "ready"
                           THEN ContructSearchPath(search'[h].own, known'[search'[h].pid].path)
                           ELSE known'[search'[h].pid].path
                      /\ search'[h].for # "schema" => known'[search'[h].pid].path = client'.required
    BY DEF KnownInv
  <2>1. /\ search'[h] = search[h] /\ search[h].pid \in Pids /\ search[h].pid # pid
        /\ pool'[search[h].pid] = pool[search[h].pid]
        /\ search[h].for # "schema" => client' = client
    BY <1>6
  <2>2. search[h].pid \notin strayed
    BY <1>3, <2>1
  <2> QED
    BY <1>1, <1>3, <2>1, <2>2 DEF KnownInv
<1> QED
  BY <1>4, <1>5, <1>7, <1>8

LEMMA NothingConstructed ==
  ASSUME NEW path PROVE ContructSearchPath(NoOptions, path) = path
BY DEF ContructSearchPath, AddSearchPathPrefix, NoOptions

(* A session that is given back after its query. *)
LEMMA GivenBack ==
  ASSUME SearchInv, NEW g \in Goroutines, Ready(g), GiveBack(g), UNCHANGED known
  PROVE  /\ search[g].at # "idle" /\ search[g].pid \in Pids
         /\ \E back \in SessionStates : Returns(g, search[g].pid, back)
         /\ pool' \in [Pids -> SessionStates] /\ search' \in [Goroutines -> SearchStates]
         /\ strayed' \subseteq Pids
<1>1. SearchTypes /\ UsesInv /\ KnownInv
  BY DEF SearchInv
<1>2. search[g].at \in {"acquired", "ready"}
  BY DEF Ready
<1>3. search[g].pid \in Pids /\ pool[search[g].pid].at = "busy"
  BY <1>1, <1>2, UsedSession
<1>4. PICK pid \in Pids, back \in SessionStates :
           /\ pid = search[g].pid
           /\ back = NoBackend \/ (back.at = "free" /\ back.path = pool[pid].path /\ back # NoBackend)
           /\ search' = [search EXCEPT ![g] = NoSearch]
           /\ pool' = [pool EXCEPT ![pid] = back]
           /\ strayed' = IF back = NoBackend THEN strayed \ {pid}
                         ELSE IF search[g].own # NoOptions THEN strayed \cup {pid} ELSE strayed
  BY <1>1, <1>3, GiveBackEffect
<1>5. search[g].own = NoOptions /\ pid \notin strayed => known[pid].path = pool[pid].path
  BY <1>1, <1>2, <1>4, NothingConstructed DEF KnownInv
<1>6. Returns(g, pid, back)
  BY <1>4, <1>5 DEF Returns
<1> QED
  BY <1>1, <1>2, <1>3, <1>4, <1>6, GiveBackTypes

LEMMA RunSearchKeeps == ASSUME SearchInv, NEW g \in Goroutines, RunSearch(g) PROVE SearchInv'
<1>1. /\ Ready(g) /\ GiveBack(g)
      /\ UNCHANGED <<configVars, usersVars, client, known, searches, piled>>
  BY DEF RunSearch
<1>2. UsesInv' /\ UnknownInv' /\ FreeInv' /\ KnownInv'
  BY <1>1, GivenBack, ReturnKeeps
<1>3. SearchTypes'
  <2>1. /\ pool' \in [Pids -> SessionStates] /\ search' \in [Goroutines -> SearchStates]
        /\ strayed' \subseteq Pids
    BY <1>1, GivenBack
  <2> QED
    BY <1>1, <2>1 DEF SearchInv, SearchTypes, configVars, usersVars
<1>4. RequiredInv'
  BY <1>1 DEF SearchInv, RequiredInv
<1> QED
  BY <1>1, <1>2, <1>3, <1>4, UsersAlone DEF SearchInv

LEMMA OwnPathFailsKeeps == ASSUME SearchInv, NEW g \in Goroutines, OwnPathFails(g) PROVE SearchInv'
<1>1. SearchTypes /\ UsesInv /\ KnownInv
  BY DEF SearchInv
<1>2. PICK pid : pid = search[g].pid
  OBVIOUS
<1>3. /\ search[g].at = "acquired"
      /\ search' = [search EXCEPT ![g] = NoSearch]
      /\ pool' = [pool EXCEPT ![pid] = IF pool[pid].old THEN NoBackend ELSE [pool[pid] EXCEPT !.at = "free"]]
      /\ strayed' = IF pool[pid].old THEN strayed \ {pid} ELSE strayed
      /\ UNCHANGED <<configVars, usersVars, client, known, searches, piled>>
  BY <1>2 DEF OwnPathFails
<1>4. pid \in Pids /\ pool[pid].at = "busy"
  BY <1>1, <1>2, <1>3, UsedSession
<1>5. PICK back \in SessionStates :
        /\ back = IF pool[pid].old THEN NoBackend ELSE [pool[pid] EXCEPT !.at = "free"]
        /\ back = NoBackend \/ (back.at = "free" /\ back.path = pool[pid].path)
  <2>1. pool[pid] \in SessionStates /\ pool[pid].path # Unset
    BY <1>1, <1>4, SearchFacts
  <2>2. PICK b : b = [pool[pid] EXCEPT !.at = "free"]
    OBVIOUS
  <2>3. b \in SessionStates /\ b.at = "free" /\ b.path = pool[pid].path
    BY <2>1, <2>2 DEF SessionStates
  <2> QED
    BY <2>2, <2>3, NothingMade
<1>6. pid \in strayed \/ known[pid].path = pool[pid].path
  BY <1>1, <1>2, <1>3 DEF KnownInv
<1>7. Returns(g, pid, back)
  BY <1>3, <1>5, <1>6 DEF Returns
<1>8. UsesInv' /\ UnknownInv' /\ FreeInv' /\ KnownInv'
  BY <1>2, <1>3, <1>7, ReturnKeeps
<1>9. SearchTypes'
  <2>1. pool' \in [Pids -> SessionStates] /\ search' \in [Goroutines -> SearchStates]
    BY <1>1, <1>4, <1>7, PoolTyped, SearchTyped, NothingMade DEF Returns
  <2> QED
    BY <1>1, <1>3, <2>1 DEF SearchTypes, configVars, usersVars
<1>10. RequiredInv'
  BY <1>3 DEF SearchInv, RequiredInv
<1> QED
  BY <1>3, <1>8, <1>9, <1>10, UsersAlone DEF SearchInv

(* A line of the prompt changes what the client requires: its own goroutine *)
(* uses no session then, and the other one loads the schema.               *)
LEMMA LineKeeps ==
  ASSUME SearchInv, AtPrompt, UNCHANGED <<pool, known, search, strayed>>,
         client'.mode = client.mode
  PROVE  UsesInv' /\ UnknownInv' /\ FreeInv' /\ KnownInv'
<1>1. SearchTypes /\ UsesInv /\ UnknownInv /\ FreeInv /\ KnownInv
  BY DEF SearchInv
<1>2. client.mode = "query" /\ search[1].at = "idle"
  BY DEF AtPrompt
<1>3. \A g \in Goroutines : search[g].at # "idle" => g # 1 /\ search[g].for = "schema"
  BY <1>1, <1>2 DEF UsesInv
<1>4. UsesInv'
  BY <1>1, <1>2, <1>3 DEF UsesInv
<1>5. UnknownInv' /\ FreeInv'
  BY <1>1 DEF UnknownInv, FreeInv
<1>6. KnownInv'
  BY <1>1, <1>3 DEF KnownInv
<1> QED
  BY <1>4, <1>5, <1>6

(* What the client requires with the options of a line. *)
NewRequired(options, current) ==
  client' = [client EXCEPT !.options = options, !.required = ContructSearchPath(options, current)]

LEMMA NewlyRequires ==
  ASSUME SearchTypes, NEW options \in PathOptions, NEW current \in Paths, NewRequired(options, current)
  PROVE  /\ client' \in ClientStates /\ client'.mode = client.mode /\ client'.users = client.users
         /\ client'.options = options
         /\ client'.required = ContructSearchPath(options, current)
<1>1. PICK required \in Paths : required = ContructSearchPath(options, current)
  BY Constructed
<1>2. client \in ClientStates
  BY DEF SearchTypes
<1>3. client' = [client EXCEPT !.options = options, !.required = required]
  BY <1>1 DEF NewRequired
<1> QED
  BY <1>1, <1>2, <1>3 DEF ClientStates

LEMMA PathGiven ==
  ASSUME NEW o \in PathOptions, NEW path \in Paths
  PROVE  \E new \in PathOptions : /\ new = [o EXCEPT !.path = path]
                                  /\ new.path = path /\ new.prefix = o.prefix
<1>1. PICK new : new = [o EXCEPT !.path = path]
  OBVIOUS
<1>2. new \in PathOptions /\ new.path = path /\ new.prefix = o.prefix
  BY <1>1 DEF PathOptions
<1> QED
  BY <1>1, <1>2

LEMMA PrefixGiven ==
  ASSUME NEW o \in PathOptions, NEW path \in Paths
  PROVE  \E new \in PathOptions : /\ new = [o EXCEPT !.prefix = path]
                                  /\ new.prefix = path /\ new.path = o.path
<1>1. PICK new : new = [o EXCEPT !.prefix = path]
  OBVIOUS
<1>2. new \in PathOptions /\ new.prefix = path /\ new.path = o.path
  BY <1>1 DEF PathOptions
<1> QED
  BY <1>1, <1>2

LEMMA SetLineKeeps ==
  ASSUME SearchInv, AtPrompt, NEW options \in PathOptions, options.path # Unset,
         NewRequired(options, Unset), piled' \in BOOLEAN,
         UNCHANGED <<configVars, usersVars, pool, known, search, searches, strayed>>
  PROVE  SearchInv'
<1>1. SearchTypes /\ RequiredInv /\ Unset \in Paths
  BY UnsetPath DEF SearchInv
<1>2. /\ client' \in ClientStates /\ client'.mode = client.mode /\ client'.users = client.users
      /\ client'.options = options
      /\ client'.required = ContructSearchPath(options, Unset)
  BY <1>1, NewlyRequires
<1>3. client.mode = "query" /\ client.users # Unset /\ client.users \in Paths
  BY <1>1, SearchFacts DEF AtPrompt, RequiredInv
<1>4. RequiredInv'
  <2>1. /\ ContructSearchPath(options, Unset) # Unset
        /\ SearchedAlike(ContructSearchPath(options, Unset), Asked(options, client.users))
    BY <1>1, <1>3, Constructed
  <2> QED
    BY <1>2, <1>3, <2>1 DEF RequiredInv
<1>5. SearchTypes'
  BY <1>1, <1>2 DEF SearchTypes, configVars, usersVars
<1> QED
  BY <1>2, <1>4, <1>5, LineKeeps, UsersAlone DEF SearchInv

LEMMA SetSearchPathKeeps ==
  ASSUME SearchInv, NEW path \in Paths \ {Unset}, SetSearchPath(path) PROVE SearchInv'
<1>1. client.options \in PathOptions
  BY SearchFacts DEF SearchInv
<1>2. PICK options \in PathOptions : options = [client.options EXCEPT !.path = path]
                                     /\ options.path = path
  BY <1>1, PathGiven
<1>3. /\ AtPrompt /\ NewRequired(options, Unset) /\ piled' \in BOOLEAN
      /\ UNCHANGED <<configVars, usersVars, pool, known, search, searches, strayed>>
  BY <1>2 DEF SetSearchPath, NewRequired
<1> QED
  BY <1>2, <1>3, SetLineKeeps

LEMMA SetSearchPathPrefixKeeps ==
  ASSUME SearchInv, NEW prefix \in Paths, SetSearchPathPrefix(prefix) PROVE SearchInv'
<1>1. client.options \in PathOptions /\ piled \in BOOLEAN
  BY SearchFacts DEF SearchInv, SearchTypes
<1>2. PICK options \in PathOptions : options = [client.options EXCEPT !.prefix = prefix]
                                     /\ options.path = client.options.path
  BY <1>1, PrefixGiven
<1>3. /\ AtPrompt /\ client.options.path # Unset /\ NewRequired(options, Unset) /\ piled' = piled
      /\ UNCHANGED <<configVars, usersVars, pool, known, search, searches, strayed>>
  BY <1>2 DEF SetSearchPathPrefix, NewRequired
<1> QED
  BY <1>1, <1>2, <1>3, SetLineKeeps

LEMMA PrefixToCurrentPathKeeps ==
  ASSUME SearchInv, NEW prefix \in Paths, PrefixToCurrentPath(prefix) PROVE SearchInv'
<1>1. SearchTypes /\ UsesInv /\ RequiredInv /\ KnownInv
  BY DEF SearchInv
<1>2. client.options \in PathOptions /\ piled \in BOOLEAN /\ client.users \in Paths
      /\ client.required \in Paths
  BY <1>1, SearchFacts DEF SearchTypes
<1>3. PICK options \in PathOptions :
        /\ options = [client.options EXCEPT !.prefix = prefix]
        /\ options.path = client.options.path /\ options.prefix = prefix
  BY <1>2, PrefixGiven
<1>4. 1 \in Goroutines /\ Ready(1) /\ search[1].for = "prefix" /\ GiveBack(1) /\ UNCHANGED known
      /\ UNCHANGED <<configVars, usersVars, known, searches>>
      /\ piled' = (piled \/ client.options.prefix # Unset \/ search[1].pid \in strayed)
  BY DEF PrefixToCurrentPath, Goroutines
<1>5. /\ search[1].at \in {"acquired", "ready"} /\ search[1].pid \in Pids
      /\ \E back \in SessionStates : Returns(1, search[1].pid, back)
      /\ pool' \in [Pids -> SessionStates] /\ search' \in [Goroutines -> SearchStates]
      /\ strayed' \subseteq Pids
  BY <1>4, GivenBack DEF Ready
<1>6. client.mode = "query" /\ search[1].own = NoOptions /\ client.options.path = Unset
  <2>1. search[1].at # "idle"
    BY <1>5
  <2> QED
    BY <1>1, <1>4, <2>1, UsedSession
<1>7. PICK current \in Paths : current = pool[search[1].pid].path /\ current # Unset
  <2>1. pool[search[1].pid].at = "busy"
    <3>1. search[1].at # "idle"
      BY <1>5
    <3> QED
      BY <1>1, <1>4, <3>1, UsedSession
  <2> QED
    BY <1>1, <1>5, <2>1, SearchFacts
<1>8. NewRequired(options, current)
  BY <1>3, <1>7 DEF PrefixToCurrentPath, NewRequired
<1>9. /\ client' \in ClientStates /\ client'.mode = client.mode /\ client'.users = client.users
      /\ client'.options = options
      /\ client'.required = ContructSearchPath(options, current)
  BY <1>1, <1>8, NewlyRequires
<1>10. UsesInv' /\ UnknownInv' /\ FreeInv' /\ KnownInv'
  <2>1. search[1].at # "idle"
    BY <1>5
  <2> QED
    BY <1>4, <1>5, <1>6, <1>9, <2>1, ReturnKeeps
<1>11. SearchTypes'
  <2>1. piled' \in BOOLEAN
    BY <1>2, <1>4
  <2> QED
    BY <1>1, <1>4, <1>5, <1>9, <2>1 DEF SearchTypes, configVars, usersVars
<1>12. RequiredInv'
  <2>1. client.users # Unset /\ client.required # Unset
    BY <1>1, <1>6 DEF RequiredInv
  <2>2. ASSUME ~piled' PROVE current = client.required /\ SearchedAlike(current, client.users)
    <3>1. ~piled /\ client.options.prefix = Unset /\ search[1].pid \notin strayed
      BY <1>2, <1>4, <2>2
    <3>2. current = client.required
      BY <1>1, <1>4, <1>5, <1>6, <1>7, <3>1, NothingConstructed DEF KnownInv
    <3>3. SearchedAlike(client.required, Asked(client.options, client.users))
      BY <1>1, <1>6, <3>1 DEF RequiredInv
    <3>4. Asked(client.options, client.users) = client.users
      BY <1>2, <1>6, <3>1 DEF Asked, Unset, Paths
    <3> QED
      BY <3>2, <3>3, <3>4
  <2>3. ~piled' => SearchedAlike(ContructSearchPath(options, current), Asked(options, client.users))
    BY <1>2, <2>2, Constructed
  <2>4. ContructSearchPath(options, current) # Unset
    BY <1>7, Constructed
  <2> QED
    BY <1>9, <2>1, <2>3, <2>4 DEF RequiredInv
<1> QED
  BY <1>4, <1>10, <1>11, <1>12, UsersAlone DEF SearchInv

LEMMA SearchStarts == SearchInit => SearchInv
<1> SUFFICES ASSUME SearchInit PROVE SearchInv
  OBVIOUS
<1>1. config \in Configs /\ config.database \in Paths
  BY ConfigFacts DEF SearchInit
<1>2. userPath \in Paths /\ userPath # Unset
  <2>1. "$user" \in Schemas /\ "public" \in Schemas
    BY DEF Schemas
  <2>2. <<"$user", "public">> \in Paths /\ <<"$user", "public">> # Unset
    BY <2>1 DEF Paths, Unset
  <2> QED
    BY <2>2 DEF SearchInit
<1>3. SearchTypes
  <2>1. configEdits \in 0..MaxConfigEdits /\ searches \in 0..MaxSearches
    BY PathsAssumption DEF SearchInit
  <2>2. refreshed.config \in Configs
    BY <1>1 DEF SearchInit
  <2>3. client \in ClientStates /\ pool \in [Pids -> SessionStates] /\ known \in [Pids -> KnownPaths]
        /\ search \in [Goroutines -> SearchStates]
    BY NothingMade DEF SearchInit
  <2> QED
    BY <1>1, <1>2, <2>1, <2>2, <2>3 DEF SearchInit, SearchTypes
<1>4. \A g \in Goroutines : search[g].at = "idle"
  BY NothingMade DEF SearchInit
<1>5. UsesInv /\ KnownInv
  BY <1>4 DEF UsesInv, KnownInv
<1>6. RequiredInv
  BY NothingMade DEF SearchInit, RequiredInv
<1>7. UnknownInv /\ FreeInv
  BY NothingMade DEF SearchInit, UnknownInv, FreeInv
<1>8. UsersInv
  BY DEF SearchInit, UsersInv
<1> QED
  BY <1>3, <1>5, <1>6, <1>7, <1>8 DEF SearchInv

LEMMA SearchInvInductive == SearchInv /\ [SearchNext]_searchVars => SearchInv'
<1> SUFFICES ASSUME SearchInv, [SearchNext]_searchVars PROVE SearchInv'
  OBVIOUS
<1>1. CASE UNCHANGED searchVars
  <2>1. UNCHANGED <<client, pool, known, search, strayed, piled>> /\ UNCHANGED usersVars
    BY <1>1 DEF searchVars
  <2>2. SearchTypes'
    BY <1>1 DEF SearchInv, SearchTypes, searchVars, configVars, usersVars
  <2> QED
    BY <2>1, <2>2, SessionsAlone, UsersAlone DEF SearchInv
<1>2. CASE SearchNext
  <2>1. CASE EditConfig \/ WatcherRefreshes \/ RefreshDbClient
    BY <2>1, EditConfigKeeps, WatcherKeeps, RefreshDbClientKeeps
  <2>2. CASE \E mode \in {"query", "check", "dashboard"}, local \in BOOLEAN, flags \in Flags, pid \in Pids :
               StartSearching(mode, local, flags, pid)
    BY <2>2, StartKeeps
  <2>3. CASE \E g \in Goroutines, for \in {"query", "prefix", "schema"}, own \in PathOptions, pid \in Pids :
               Acquires(g, for, own, pid)
    BY <2>3, AcquiresKeeps
  <2>4. CASE \E g \in Goroutines : PathIsSet(g) \/ SetOwnPath(g) \/ OwnPathFails(g) \/ RunSearch(g)
    BY <2>4, PathIsSetKeeps, SetOwnPathKeeps, OwnPathFailsKeeps, RunSearchKeeps
  <2>5. CASE \E path \in Paths \ {Unset} :
               SetSearchPath(path) \/ SetSearchPathPrefix(path) \/ PrefixToCurrentPath(path)
    BY <2>5, SetSearchPathKeeps, SetSearchPathPrefixKeeps, PrefixToCurrentPathKeeps
  <2> QED
    BY <1>2, <2>1, <2>2, <2>3, <2>4, <2>5, SearchCases
<1> QED
  BY <1>1, <1>2

(* A path is followed: what the client requires, under the options of a     *)
(* control.                                                                *)
LEMMA InvFollowsSettings == SearchInv => PathsFollowSettings
<1> SUFFICES ASSUME SearchInv PROVE PathsFollowSettings
  OBVIOUS
<1>1. SearchTypes /\ UsesInv /\ RequiredInv /\ KnownInv /\ UsersInv
  BY DEF SearchInv
<1>2. ASSUME NEW g \in Goroutines, Ready(g), search[g].for = "query",
             search[g].pid \notin strayed, ~piled
      PROVE  SearchedAlike(pool[search[g].pid].path,
                           Asked(search[g].own, Asked(client.options, client.users)))
  <2>1. search[g].at \in {"acquired", "ready"} /\ (search[g].at = "acquired" => search[g].own = NoOptions)
    BY <1>2 DEF Ready
  <2>2. search[g].pid \in Pids /\ client.mode # "none"
    BY <1>1, <2>1, UsedSession
  <2>3. PICK required \in Paths, own \in PathOptions, options \in PathOptions, users \in Paths :
          required = client.required /\ own = search[g].own /\ options = client.options
          /\ users = client.users
    BY <1>1, SearchFacts
  <2>4. pool[search[g].pid].path = ContructSearchPath(own, required)
    BY <1>1, <1>2, <2>1, <2>3, NothingConstructed DEF KnownInv
  <2>5. SearchedAlike(required, Asked(options, users))
    BY <1>1, <1>2, <2>2, <2>3 DEF RequiredInv
  <2>6. Asked(options, users) \in Paths
    <3>1. options.path \in Paths /\ options.prefix \in Paths /\ <<"internal">> \in Paths
      BY OptionsOf DEF Schemas, Paths
    <3>2. options.path \o <<"internal">> \in Paths
      BY <3>1, ConcatSchemas
    <3> QED
      BY <3>1, <3>2, ConcatSchemas DEF Asked
  <2>7. SearchedAlike(ContructSearchPath(own, required), Asked(own, Asked(options, users)))
    BY <2>5, <2>6, Constructed
  <2> QED
    BY <2>3, <2>4, <2>7
<1>3. ASSUME refreshed.by # "nobody", ~dropped
      PROVE  userPath = Asked([NoOptions EXCEPT !.path = refreshed.config.database],
                              DefaultSearchPath(refreshed.config.connections))
  <2>1. PICK c \in Configs : c = refreshed.config
    BY <1>1 DEF SearchTypes
  <2>2. c.database \in Paths
    BY ConfigFacts
  <2>3. PICK database \in Paths : database = c.database
    BY <2>2
  <2>4. PICK o \in PathOptions : /\ o = [NoOptions EXCEPT !.path = database]
                                 /\ o.path = database /\ o.prefix = Unset
    <3>1. NoOptions \in PathOptions
      BY UnsetPath
    <3>2. NoOptions.prefix = Unset
      BY DEF NoOptions
    <3> QED
      BY <3>1, <3>2, PathGiven
  <2>5. userPath = UserSearchPath(c, database) /\ userPath \in Paths
    BY <1>1, <1>3, <2>1, <2>3 DEF UsersInv, SearchTypes
  <2>6. CASE database # Unset
    <3>1. Append(database, "internal") = database \o <<"internal">>
      <4>1. "internal" \in Schemas
        BY DEF Schemas
      <4> QED
        BY <4>1, AppendIsConcat DEF Paths
    <3>2. Unset \o (database \o <<"internal">>) = database \o <<"internal">>
      <4>1. database \o <<"internal">> \in Paths
        BY <2>5, <2>6, <3>1 DEF UserSearchPath
      <4> QED
        BY <4>1 DEF Unset, Paths
    <3> QED
      BY <2>1, <2>3, <2>4, <2>5, <2>6, <3>1, <3>2 DEF UserSearchPath, Asked
  <2>7. CASE database = Unset
    <3>1. userPath = DefaultSearchPath(c.connections)
      BY <2>5, <2>7 DEF UserSearchPath
    <3>2. Unset \o userPath = userPath
      BY <2>5 DEF Unset, Paths
    <3> QED
      BY <2>1, <2>3, <2>4, <2>7, <3>1, <3>2 DEF Asked
  <2> QED
    BY <2>6, <2>7
<1> QED
  BY <1>2, <1>3 DEF PathsFollowSettings

(* SearchTypeCorrect: the settings, the client and its sessions keep their  *)
(* types.                                                                  *)
THEOREM SearchTypeCorrect == SearchSpec => []SearchTypeOK
<1>1. SearchInv => SearchTypeOK
  BY TypesOfSearch DEF SearchInv
<1> QED
  BY <1>1, SearchStarts, SearchInvInductive, PTL DEF SearchSpec

(* PathsFollowSettingsCorrect: whatever sessions are opened, set, returned, *)
(* closed and replaced before, and whatever lines are typed while others    *)
(* are being set, a query is searched as in the path the settings ask for.  *)
THEOREM PathsFollowSettingsCorrect == SearchSpec => []PathsFollowSettings
BY SearchStarts, SearchInvInductive, InvFollowsSettings, PTL DEF SearchSpec
====
